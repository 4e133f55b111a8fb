------------------------- MODULE PermissionBitsProps -------------------------
(* What the permission calculation promises, against a plain reading of what *)
(* Discord and Stoat give to one member.                                     *)
EXTENDS PermissionBits

\* Discord: administrators have everything; otherwise the server grants, then
\* the overwrite of @everyone, then all role denies, then all role allows.
SourceAllows(f, members) ==
    LET server == f.everyone \/ f.guilds \cap members # {}
        channel == CASE f.cell = Deny -> FALSE
                     [] f.cell = Allow -> TRUE
                     [] OTHER -> server
    IN \/ input.admins \cap (members \cup {EveryoneRole}) # {}
       \/ f.allows \cap members # {}
       \/ channel /\ f.denies \cap members = {}

\* Sending is a permission of its own in a thread; attaching needs sending.
Needed == {IF b = "send" /\ input.thread THEN "threadsend" ELSE b : b \in Required(input.bit)}

\* Stoat: the override of the highest role decides, then the default and the
\* server grants.  foreign: the member also has the role nothing is bound to.
TargetAllows(cells, granting, dflt, members, foreign) ==
    LET decided == Overridden(cells) \cap members IN
    IF foreign /\ input.native # Neutral THEN input.native = Allow
    ELSE IF decided # {}
    THEN \E r \in decided : decided \cap Above(r) = {} /\ cells[r] = Allow
    ELSE input.denies \cap members = {} /\ (dflt \/ granting \cap members # {})

\* Every member without a role of gone has in Stoat what the source gives, as
\* far as the source lets the member see the channel at all.
Exact(facts, cells, granting, dflt, gone) ==
    /\ ~input.members
    /\ \A members \in SUBSET (Roles \ gone), foreign \in BOOLEAN :
          input.bit = "view" \/ SourceAllows(facts["view"], members) =>
             (TargetAllows(cells, granting, dflt, members \ Managed, foreign)
                <=> \A b \in Needed : SourceAllows(facts[b], members))

Planned == stage = "planned"

\* The record that the code keeps has the shape the calculation needs.
CalculationTypeOK ==
    /\ input \in InputShape
    /\ input.grants \cap input.managed = {}
    /\ stage \in {"read", "invalid", "first", "second", "planned",
                  "unsupported", "drifted"}
    /\ base \in BOOLEAN
    /\ left \subseteq Ordinary
    /\ zeros \subseteq Ordinary
    /\ cell \in [Roles -> Cells]
    /\ grants \subseteq Roles
    /\ common \in {"true", "false", Undecided}

\* A plan gives every possible member, whatever roles it has, exactly the
\* source's access: the promise of compile_supported_bits and of everything it
\* refuses to calculate.
PlanExact == Planned => Exact(input.facts, cell, grants, base, {})

\* A bit is given up only when no overrides and no default could carry it, and
\* a managed role stops the calculation only when it really changes access.
NoNeedlessRefusal ==
    \/ stage = "unsupported"
    \/ stage = "invalid" /\ input.bit = "view" /\ ~TargetEffects /\ input.other = input.facts
       /\ ~input.thread
    => ~\E cells \in [Roles -> Cells], dflt \in BOOLEAN :
           Exact(input.facts, cells, grants, dflt, {})

\* The comparison with an observed encoding, after any drift and also while
\* some roles have no members yet, accepts exactly the encodings that give
\* every possible member the access of the source.
CheckAgrees ==
    stage \in {"planned", "drifted"} =>
        \A gone \in SUBSET Ordinary :
            MatchesSourceAccess(cell, grants, base, gone)
                <=> Exact(input.facts, cell, grants, base, gone)

\* A plan shared by the sources of an index is exact for each of them, and
\* sources are told apart only when they give some member different access.
CommonExact ==
    Planned =>
        /\ common = "true" => Exact(input.other, cell, grants, base, {})
        /\ common = "false" =>
             \E members \in SUBSET Roles, bits \in {{"view"}, {"view"} \cup Needed} :
                (\A b \in bits : SourceAllows(input.facts[b], members))
                  # (\A b \in bits : SourceAllows(input.other[b], members))

\* The two comparisons decide what they are asked: an encoding against its source,
\* and the sources that share a plan against each other.
ComparisonsExact == CheckAgrees /\ CommonExact
=============================================================================
