--------------------------- MODULE PermissionBits ---------------------------
(* The calculation that carries one channel's access from Discord to Stoat,  *)
(* one mapped permission at a time (core/permissions.py): a symbolic         *)
(* predicate is formed from raw role and overwrite facts, an override is     *)
(* chosen role by role, the plan is written, and a later readback compares   *)
(* the observed encoding with the predicates.                                *)
(*                                                                           *)
(* Role masks are sets of roles.  A role is named by its place in the order  *)
(* of _calculation_roles: a higher number is a higher target priority, and a *)
(* bound target role carries the name of its source role.  The inputs of one *)
(* calculation are a record of a family in the constant set Inputs; members  *)
(* are the sets of roles a member of the server may have.                    *)
EXTENDS Integers, FiniteSets

CONSTANTS RoleCount, Inputs

ASSUME RoleCountAssumption == RoleCount \in Nat

Roles == 1..RoleCount

VARIABLES input,    \* the raw facts of one calculation
          stage,    \* how far the calculation is
          base,     \* the default of the target bit being tried or planned
          left,     \* the roles synthesis has not visited yet
          zeros,    \* the visited roles that got an override
          cell,     \* the override of each role
          grants,   \* the roles whose server grant has the target bit
          common    \* the verdict about a second indexed source

calculationVars == <<input, stage, base, left, zeros, cell, grants, common>>

EveryoneRole == 0
Neutral == "neutral"
Allow == "allow"
Deny == "deny"
Cells == {Neutral, Allow, Deny}
Undecided == "unknown"
Operation(answer) == IF answer THEN Allow ELSE Deny

Facts == [everyone : BOOLEAN, cell : Cells,
          guilds : SUBSET Roles, allows : SUBSET Roles, denies : SUBSET Roles]
SourceFacts == [view : Facts, send : Facts, attach : Facts, threadsend : Facts]

\* grants and denies: the bound roles whose server permissions allow or deny the
\* target bit; native: the effect of a role bound to nothing; members: some
\* member has an overwrite of its own; other: a second source of an index.
InputShape == [bit : {"view", "send", "attach"}, managed : SUBSET Roles,
               admins : SUBSET (Roles \cup {EveryoneRole}), members : BOOLEAN,
               thread : BOOLEAN, facts : SourceFacts, other : SourceFacts,
               grants : SUBSET Roles, denies : SUBSET Roles, native : Cells]

ASSUME InputsAssumption ==
    \A family \in Inputs : \A i \in family : i \in InputShape /\ i.grants \cap i.managed = {}

Managed == input.managed
Ordinary == Roles \ Managed

-----------------------------------------------------------------------------
(* Source predicates: positive, negative and grant roles and the constant.   *)

EvaluateSourceBit(p, members) ==
    \/ p.P \cap members # {}
    \/ p.N \cap members = {} /\ (p.c \/ p.G \cap members # {})

\* The answer that holds for every membership with the roles of ones and none
\* of zeros, Undecided when there is no such answer.
ConstantResult(p, absent, ones) ==
    LET free == Roles \ (absent \cup ones) IN
    IF \/ p.P \cap ones # {}
       \/ /\ p.N \cap ones = {}
          /\ (p.N \cap free) \ p.P = {}
          /\ p.c \/ p.G \cap ones # {}
    THEN "true"
    ELSE IF \/ p.P \cap free # {}
            \/ /\ p.N \cap ones = {}
               /\ p.c \/ p.G \cap ones # {} \/ (p.G \cap free) \ p.N # {}
    THEN Undecided
    ELSE "false"

Answer(b) == IF b THEN "true" ELSE "false"

SourceRoleChangesBit(p, role) ==
    \/ role \in p.P /\ (~p.c \/ p.N \ p.P # {})
    \/ role \in p.N \ p.P /\ (p.c \/ p.G \ (p.P \cup p.N) # {})
    \/ role \in p.G \ (p.P \cup p.N) /\ ~p.c

\* A mutant: role grants survive an overwrite of @everyone.
FormSourceBitGrants(admins, f) ==
    [P |-> (admins \cap Roles) \cup f.allows, N |-> f.denies, G |-> f.guilds,
     c |-> EveryoneRole \in admins \/ (f.everyone /\ f.cell # Deny) \/ f.cell = Allow]

\* Raw facts f of one bit: what @everyone has, its overwrite, and the roles
\* that grant the bit on the server or allow or deny it in the channel.
FormSourceBit(admins, f) ==
    IF EveryoneRole \in admins
    THEN [P |-> {}, N |-> {}, G |-> {}, c |-> TRUE]
    ELSE [P |-> (admins \cap Roles) \cup f.allows,
          N |-> f.denies,
          G |-> IF f.cell = Neutral THEN f.guilds ELSE {},
          c |-> (f.everyone /\ f.cell # Deny) \/ f.cell = Allow]

Mask(p) == [p EXCEPT !.P = @ \ Managed, !.N = @ \ Managed, !.G = @ \ Managed]

\* A public thread has the table of its parent, without the managed roles.
Predicate(facts, b) ==
    LET p == FormSourceBit(input.admins, facts[b]) IN
    IF input.thread THEN Mask(p) ELSE p

Required(b) == IF b = "attach" THEN {"attach", "send"} ELSE {b}

View == Predicate(input.facts, "view")
RequiredPredicates == {Predicate(input.facts, b) : b \in Required(input.bit)}

-----------------------------------------------------------------------------
(* Refusals before anything is calculated.                                   *)

ManagedRoleChanges(facts, bits) ==
    \E r \in Managed, b \in bits :
        SourceRoleChangesBit(FormSourceBit(input.admins, facts[b]), r)

FormCheckedPredicates(facts, bits) ==
    ~input.members /\ ~ManagedRoleChanges(facts, bits)

BuildSourcePredicates(facts) == FormCheckedPredicates(facts, {"view"})

\* Sending in a thread is a permission of its own; Stoat has only one.
ResolvePublicThreadScope(facts) ==
    /\ FormCheckedPredicates(facts, {"threadsend", "send", "view", "attach"})
    /\ Predicate(facts, "threadsend") = Predicate(facts, "send")

ResolveSelectedPredicates(facts) ==
    IF input.thread THEN ResolvePublicThreadScope(facts) ELSE BuildSourcePredicates(facts)

\* Server-role denies and effects of roles that no source role is bound to.
TargetEffects == input.denies # {} \/ input.native # Neutral

ValidateCalculationInputs ==
    /\ ~TargetEffects
    /\ ResolveSelectedPredicates(input.facts)
    /\ ResolveSelectedPredicates(input.other)

-----------------------------------------------------------------------------
(* Queries about the visible members only.                                   *)

\* The <<absent, present>> constraints under which p is the wanted answer.
PredicateTerms(p, wanted) ==
    IF wanted
    THEN {<<{}, {r}>> : r \in p.P}
         \cup (IF p.c THEN {<<p.N, {}>>} ELSE {<<p.N, {r}>> : r \in p.G \ p.N})
    ELSE {<<p.P, {r}>> : r \in p.N \ p.P}
         \cup (IF p.c THEN {} ELSE {<<p.P \cup p.G, {}>>})

\* conditions is a sequence of <<predicate, wanted>>.
ConjunctionPossible(conditions, absent, ones) ==
    LET possible[i \in Nat \ {0}] == [z \in SUBSET Roles |-> [o \in SUBSET Roles |->
          IF i > Cardinality(DOMAIN conditions) THEN TRUE
          ELSE LET p == conditions[i][1]
                   wanted == conditions[i][2]
                   constant == ConstantResult(p, z, o)
               IN IF constant # Undecided
                  THEN constant = Answer(wanted) /\ possible[i + 1][z][o]
                  ELSE \E t \in PredicateTerms(p, wanted) :
                          /\ z \cap t[2] = {} /\ o \cap t[1] = {}
                          /\ possible[i + 1][z \cup t[1]][o \cup t[2]]]]
    IN possible[1][absent][ones]

\* The conditions that p holds for p in ps, then that last is as wanted.
Allowed(ps) ==
    LET order == CHOOSE s \in [1..Cardinality(ps) -> ps] :
                    \A i, j \in DOMAIN s : s[i] = s[j] => i = j
    IN [i \in DOMAIN order |-> <<order[i], TRUE>>]

VisibleBitQuery(required, dflt, granting, absent, ones, hidden) ==
    LET allow == ConjunctionPossible(
            [i \in 1..(Cardinality(required) + 1) |->
                IF i = 1 THEN <<View, TRUE>> ELSE Allowed(required)[i - 1]],
            absent, ones)
        deny == \E p \in required :
                    ConjunctionPossible(<< <<View, TRUE>>, <<p, FALSE>> >>, absent, ones)
    IN CASE allow /\ deny -> Undecided
         [] allow # deny -> Answer(allow)
         [] OTHER -> IF hidden # Undecided THEN hidden
                     ELSE Answer(dflt \/ granting \cap ones # {})

Ask(absent, ones) ==
    IF input.bit = "view" THEN ConstantResult(View, absent, ones)
    ELSE VisibleBitQuery(RequiredPredicates, base, grants, absent, ones, Undecided)

-----------------------------------------------------------------------------
(* Synthesis of one bit and comparison of an encoding with the source.       *)

\* agrees(z, o, wanted): the source has the wanted answer in that cube.
FallbackMatches(agrees(_, _, _), granting, dflt, absent) ==
    IF dflt THEN agrees(absent, {}, "true")
    ELSE /\ agrees(absent \cup granting, {}, "false")
         /\ \A r \in granting \ absent : agrees(absent, {r}, "true")

Above(r) == {x \in Ordinary : x > r}
Overridden(cells) == {r \in Ordinary : cells[r] # Neutral}

EncodingMatches(agrees(_, _, _), cells, granting, dflt) ==
    /\ \A r \in Overridden(cells) :
          agrees(Overridden(cells) \cap Above(r), {r}, Answer(cells[r] = Allow))
    /\ FallbackMatches(agrees, granting, dflt, Overridden(cells))

\* A mutant: hidden members are compared with the fallback.
MatchesFallback(cells, granting, dflt, gone) ==
    LET agrees(absent, ones, wanted) ==
          \/ ones \cap gone # {}
          \/ IF input.bit = "view"
             THEN ConstantResult(View, absent \cup gone, ones) = wanted
             ELSE VisibleBitQuery(RequiredPredicates, dflt, granting,
                                  absent \cup gone, ones, Undecided) = wanted
    IN EncodingMatches(agrees, cells, granting, dflt)

\* gone are the roles that have no member yet: their memberships do not occur.
MatchesSourceAccess(cells, granting, dflt, gone) ==
    LET agrees(absent, ones, wanted) ==
          \/ ones \cap gone # {}
          \/ IF input.bit = "view"
             THEN ConstantResult(View, absent \cup gone, ones) = wanted
             ELSE VisibleBitQuery(RequiredPredicates, dflt, granting,
                                  absent \cup gone, ones, wanted) = wanted
    IN EncodingMatches(agrees, cells, granting, dflt)

-----------------------------------------------------------------------------
(* Two sources of one index.                                                 *)

OtherPredicate(b) == Predicate(input.other, b)

Differ(allowed, rejected) ==
    \E d \in rejected :
        ConjunctionPossible(
            [i \in 1..(Cardinality(allowed) + 1) |->
                IF i <= Cardinality(allowed) THEN Allowed(allowed)[i] ELSE <<d, FALSE>>],
            {}, {})

\* A mutant: only what is different in one direction is found.
ProveCommonOneWay ==
    \A bits \in {{"view"}, {"view"} \cup Required(input.bit)} :
        ~Differ({Predicate(input.facts, b) : b \in bits}, {OtherPredicate(b) : b \in bits})

\* The two sources let the same members see the channel, and among those the
\* same members have the bit.
ProveCommonChannelPlan ==
    \A bits \in {{"view"}, {"view"} \cup Required(input.bit)} :
        LET mine == {Predicate(input.facts, b) : b \in bits}
            theirs == {OtherPredicate(b) : b \in bits}
        IN ~Differ(mine, theirs) /\ ~Differ(theirs, mine)

-----------------------------------------------------------------------------
PreferredBase == \A p \in RequiredPredicates : p.c

Start(dflt) ==
    /\ base' = dflt
    /\ left' = Ordinary
    /\ zeros' = {}
    /\ cell' = [r \in Roles |-> Neutral]

CalculationInit ==
    /\ \E family \in Inputs : input \in family
    /\ stage = "read"
    /\ base = FALSE
    /\ left = {}
    /\ zeros = {}
    /\ cell = [r \in Roles |-> Neutral]
    /\ grants = input.grants
    /\ common = Undecided

CompileSupportedBits ==
    /\ stage = "read"
    /\ ValidateCalculationInputs
    /\ stage' = "first"
    /\ Start(PreferredBase)
    /\ UNCHANGED <<input, grants, common>>

RefuseCalculation ==
    /\ stage = "read"
    /\ ~ValidateCalculationInputs
    /\ stage' = "invalid"
    /\ UNCHANGED <<input, base, left, zeros, cell, grants, common>>

\* synthesize_bit visits the roles from the highest priority down.
SynthesizeRole ==
    /\ stage \in {"first", "second"}
    /\ \E r \in left :
          /\ left \cap Above(r) = {}
          /\ left' = left \ {r}
          /\ LET answer == Ask(zeros, {r}) IN
                IF answer = Undecided THEN UNCHANGED <<zeros, cell>>
                ELSE /\ zeros' = zeros \cup {r}
                     /\ cell' = [cell EXCEPT ![r] = Operation(answer = "true")]
    /\ UNCHANGED <<input, stage, base, grants, common>>

Fits == LET agrees(absent, ones, wanted) == Ask(absent, ones) = wanted
        IN FallbackMatches(agrees, grants, base, zeros)

Plan ==
    /\ stage \in {"first", "second"}
    /\ left = {}
    /\ Fits
    /\ stage' = "planned"
    /\ UNCHANGED <<input, base, left, zeros, cell, grants, common>>

\* Where the default member sees nothing, either default of a data bit will do.
OtherBase ==
    /\ stage = "first"
    /\ left = {}
    /\ ~Fits
    /\ input.bit # "view" /\ ~View.c
    /\ stage' = "second"
    /\ Start(~base)
    /\ UNCHANGED <<input, grants, common>>

\* A mutant: the other default is never tried.
UnsupportedAtOnce ==
    /\ stage \in {"first", "second"}
    /\ left = {}
    /\ ~Fits
    /\ stage' = "unsupported"
    /\ UNCHANGED <<input, base, left, zeros, cell, grants, common>>

Unsupported ==
    /\ \/ stage = "second"
       \/ stage = "first" /\ (input.bit = "view" \/ View.c)
    /\ left = {}
    /\ ~Fits
    /\ stage' = "unsupported"
    /\ UNCHANGED <<input, base, left, zeros, cell, grants, common>>

\* The plan of a first source is reused for an index only when it is common.
CommonIndexPlan ==
    /\ stage = "planned"
    /\ common = Undecided
    /\ common' = Answer(ProveCommonChannelPlan)
    /\ UNCHANGED <<input, stage, base, left, zeros, cell, grants>>

\* Somebody edits the written encoding of the bit.
Drift ==
    /\ stage = "planned"
    /\ common = Undecided
    /\ stage' = "drifted"
    /\ \/ \E r \in Ordinary : \E x \in Cells \ {cell[r]} :
            cell' = [cell EXCEPT ![r] = x] /\ UNCHANGED <<base, grants>>
       \/ base' = ~base /\ UNCHANGED <<cell, grants>>
       \/ \E r \in Ordinary :
            /\ grants' = IF r \in grants THEN grants \ {r} ELSE grants \cup {r}
            /\ UNCHANGED <<cell, base>>
    /\ UNCHANGED <<input, left, zeros, common>>

CalculationNext ==
    \/ CompileSupportedBits \/ RefuseCalculation \/ SynthesizeRole \/ Plan
    \/ OtherBase \/ Unsupported \/ CommonIndexPlan \/ Drift

CalculationSpec == CalculationInit /\ [][CalculationNext]_calculationVars
=============================================================================
