--------------------------- MODULE PermissionProofs ---------------------------
(* The permission runtime, for any roles and channels and any number of      *)
(* writes, failures and intrusions; and the calculation, for every number of *)
(* roles and any inputs: its queries are exact, a plan gives every member    *)
(* the access of the source, and a bit is refused only when nothing could    *)
(* carry it.                                                                 *)
EXTENDS PermissionRuntimeProps, PermissionBitsProps, FiniteSetTheorems,
        WellFoundedInduction, TLAPS

-----------------------------------------------------------------------------
(* The runtime.                                                              *)

Reading == {"server", "channel", "again"}

(* What is reported follows from what is counted: an effect that nobody     *)
(* settles any more keeps the report at possible.                           *)
AccountInv ==
    /\ effects = EffectsOf(pending, confirmed)
    /\ confirmed => changed
    /\ changed => confirmed \/ lost > 0

(* A proof is of the bindings as they are; a channel that is read again, or  *)
(* written, has none.                                                       *)
AuthorityInv == \A c \in Channel :
    /\ authority[c] \in {0, print}
    /\ at[c] \in Reading \union {"applying", "writing"} => authority[c] = 0

(* No write of ours touches a channel while it is read, or while its proof   *)
(* lasts.                                                                   *)
CleanInv == \A c \in Channel :
    at[c] \in Reading \/ authority[c] # 0 => clean[c]

(* What a read has found.  The channel was right when its cells were read, or *)
(* the layout is off and will be seen to be, or somebody restored it.        *)
EvidenceInv == \A c \in Channel :
    /\ at[c] \in Reading /\ Right(c) => since[c]
    /\ at[c] = "again" /\ seen[c] = {} => WasRight(c) \/ off # {}
    /\ at[c] \in {"ready", "sending"} \/ authority[c] # 0 => WasRight(c)

IInv == TypeOK /\ Counted /\ AccountInv /\ AuthorityInv /\ CleanInv /\ EvidenceInv

-----------------------------------------------------------------------------
(* The set of writes in flight.                                            *)

LEMMA ThingFinite == IsFiniteSet(Thing)
<1>1. IsFiniteSet({"default", "ranks"})
  <2>1. IsFiniteSet({"default"}) /\ IsFiniteSet({"ranks"})
    BY FS_Singleton
  <2>2. {"default", "ranks"} = {"default"} \union {"ranks"}
    OBVIOUS
  <2>. QED  BY <2>1, <2>2, FS_Union
<1>2. IsFiniteSet(Fact)
  BY <1>1, FS_Union, PermissionAssumption DEF Fact
<1>. QED  BY <1>2, FS_Union, PermissionAssumption DEF Thing

Flight == {"creating", "writing", "sending"}

LEMMA FlightCount ==
    ASSUME NEW S \in SUBSET Thing
    PROVE  /\ IsFiniteSet(S) /\ Cardinality(S) \in Nat
           /\ (Cardinality(S) = 0) <=> (S = {})
           /\ \A x \in Thing \ S : Cardinality(S \union {x}) = Cardinality(S) + 1
           /\ \A x \in S : Cardinality(S \ {x}) = Cardinality(S) - 1
<1>1. IsFiniteSet(S)
  BY ThingFinite, FS_Subset
<1>. QED  BY <1>1, FS_CardinalityType, FS_EmptySet, FS_AddElement, FS_RemoveElement

LEMMA FlightType ==
    /\ InFlight \in SUBSET Thing /\ InFlight' \in SUBSET Thing
    /\ Cardinality(InFlight) \in Nat /\ Cardinality(InFlight') \in Nat
    /\ (Cardinality(InFlight) = 0) <=> (InFlight = {})
    /\ (Cardinality(InFlight') = 0) <=> (InFlight' = {})
<1>1. InFlight \in SUBSET Thing /\ InFlight' \in SUBSET Thing
  BY DEF InFlight
<1>. QED  BY <1>1, FlightCount

LEMMA GoesShape ==
    ASSUME TypeOK, NEW x \in Thing, NEW s \in Waiting, Goes(x, s)
    PROVE  /\ at' \in [Thing -> Waiting] /\ at'[x] = s
           /\ \A y \in Thing : y # x => at'[y] = at[y]
  BY DEF Goes, TypeOK

LEMMA FlightBegins ==
    ASSUME TypeOK, NEW x \in Thing, NEW s \in Flight, Goes(x, s), at[x] \notin Flight
    PROVE  Cardinality(InFlight') = Cardinality(InFlight) + 1 /\ x \in InFlight'
<1>1. /\ at'[x] \in Flight
      /\ \A y \in Thing : y # x => at'[y] = at[y]
  BY GoesShape DEF Flight, Waiting
<1>2. InFlight' = InFlight \union {x} /\ x \notin InFlight
  BY <1>1 DEF InFlight, Flight
<1>. QED  BY <1>2, FlightType, FlightCount

LEMMA FlightEnds ==
    ASSUME TypeOK, NEW x \in Thing, NEW s \in Waiting \ Flight, Goes(x, s), at[x] \in Flight
    PROVE  Cardinality(InFlight') = Cardinality(InFlight) - 1
<1>1. /\ at'[x] \notin Flight
      /\ \A y \in Thing : y # x => at'[y] = at[y]
  BY GoesShape
<1>2. InFlight' = InFlight \ {x} /\ x \in InFlight
  BY <1>1 DEF InFlight, Flight
<1>. QED  BY <1>2, FlightType, FlightCount

LEMMA FlightStays ==
    ASSUME TypeOK, NEW x \in Thing, NEW s \in Waiting \ Flight, Goes(x, s), at[x] \notin Flight
    PROVE  InFlight' = InFlight
<1>1. /\ at'[x] \notin Flight
      /\ \A y \in Thing : y # x => at'[y] = at[y]
  BY GoesShape
<1>. QED  BY <1>1 DEF InFlight, Flight

LEMMA FlightEmpties ==
    ASSUME at' = [x \in Thing |-> "idle"]
    PROVE  InFlight' = {} /\ Cardinality(InFlight') = 0
<1>1. InFlight' = {}
  BY DEF InFlight
<1>. QED  BY <1>1, FlightType

-----------------------------------------------------------------------------
(* What is watched during a read.                                          *)

LEMMA WatchTypes ==
    ASSUME Watch
    PROVE  since' \in [Channel -> BOOLEAN] /\ restored' \in [Channel -> BOOLEAN]
  BY DEF Watch, Begins, Right

LEMMA WatchShape ==
    ASSUME Watch, NEW c \in Channel
    PROVE  /\ Right(c)' => since'[c]
           /\ at'[c] # "server" /\ WasRight(c) => WasRight(c)'
           /\ at'[c] = at[c] /\ WasRight(c) => WasRight(c)'
           /\ at[c] = "again" /\ at'[c] = "again" /\ off # {} => off' # {} \/ WasRight(c)'
  BY DEF Watch, Begins, Right, WasRight

\* What a step may do to a channel so that the evidence about it still holds: finish
\* reading the cells, or find everything right.
Sees(c) ==
    /\ at'[c] = "again" =>
          \/ at[c] = "again" /\ seen'[c] = seen[c]
          \/ at[c] = "channel" /\ seen'[c] = seen[c] \union wrong[c] /\ UNCHANGED server
    /\ at'[c] \in {"ready", "sending"} \/ authority'[c] # 0 =>
          \/ at[c] \in {"ready", "sending"} \/ authority[c] # 0
          \/ at[c] = "again" /\ seen[c] = {} /\ off = {}

LEMMA EvidenceStep ==
    ASSUME IInv, AuthorityInv', Watch, \A c \in Channel : Sees(c)
    PROVE  EvidenceInv'
<1> SUFFICES ASSUME NEW c \in Channel
    PROVE  /\ at'[c] \in Reading /\ Right(c)' => since'[c]
           /\ at'[c] = "again" /\ seen'[c] = {} => WasRight(c)' \/ off' # {}
           /\ at'[c] \in {"ready", "sending"} \/ authority'[c] # 0 => WasRight(c)'
  BY DEF EvidenceInv
<1>1. at'[c] \in Reading /\ Right(c)' => since'[c]
  BY WatchShape
<1>2. ASSUME at'[c] = "again", seen'[c] = {}
      PROVE  WasRight(c)' \/ off' # {}
  <2>1. CASE at[c] = "again" /\ seen'[c] = seen[c]
    <3>1. WasRight(c) \/ off # {}
      BY <1>2, <2>1 DEF IInv, EvidenceInv
    <3>. QED  BY <1>2, <2>1, <3>1, WatchShape
  <2>2. CASE at[c] = "channel" /\ seen'[c] = seen[c] \union wrong[c] /\ UNCHANGED server
    <3>1. wrong[c] = {} /\ off' = off
      BY <1>2, <2>2 DEF server
    <3>2. off = {} => WasRight(c)
      BY <2>2, <3>1 DEF IInv, EvidenceInv, Right, Reading, WasRight
    <3>. QED  BY <1>2, <3>1, <3>2, WatchShape
  <2>. QED  BY <1>2, <2>1, <2>2 DEF Sees
<1>3. ASSUME at'[c] \in {"ready", "sending"} \/ authority'[c] # 0
      PROVE  WasRight(c)'
  <2>1. WasRight(c)
    BY <1>3 DEF Sees, IInv, EvidenceInv
  <2>2. at'[c] # "server"
    BY <1>3 DEF AuthorityInv, Reading
  <2>. QED  BY <2>1, <2>2, WatchShape
<1>. QED  BY <1>1, <1>2, <1>3

-----------------------------------------------------------------------------
(* Every step keeps the invariant, one lemma for each action.               *)

LEMMA NotedAccounts ==
    ASSUME IInv, Noted, UNCHANGED <<changed, lost>>,
           Cardinality(InFlight') = Cardinality(InFlight) + 1
    PROVE  Counted' /\ AccountInv' /\ pending' \in Nat
  BY FlightType DEF IInv, TypeOK, Counted, AccountInv, EffectsOf, Noted

LEMMA SettledAccounts ==
    ASSUME IInv, NEW b \in BOOLEAN, Settled(b), UNCHANGED lost,
           changed => changed', b => changed', changed' => changed \/ b,
           Cardinality(InFlight') = Cardinality(InFlight) - 1
    PROVE  Counted' /\ AccountInv' /\ pending' \in Nat /\ confirmed' \in BOOLEAN
           /\ effects' \in {"none", "possible", "confirmed"}
<1>1. pending' = pending - 1 /\ confirmed' = (confirmed \/ b)
      /\ effects' = EffectsOf(pending', confirmed')
  BY DEF Settled
<1>2. pending \in Nat /\ lost \in Nat /\ confirmed \in BOOLEAN
  BY DEF IInv, TypeOK
<1>3. Counted' /\ pending' \in Nat
  BY <1>1, <1>2, FlightType DEF IInv, Counted
<1>4. AccountInv'
  BY <1>1 DEF IInv, AccountInv
<1>. QED  BY <1>1, <1>2, <1>3, <1>4 DEF EffectsOf

\* What is given up stays in the count, and keeps the effects possible.
LEMMA LostAccounts ==
    ASSUME IInv, Unsettled, lost' = lost + 1, changed => changed',
           Cardinality(InFlight') = Cardinality(InFlight) - 1
    PROVE  Counted' /\ AccountInv'
<1>1. lost \in Nat /\ lost' > 0
  BY DEF IInv, TypeOK
<1>2. Counted'
  BY FlightType DEF IInv, TypeOK, Counted, Unsettled
<1>. QED  BY <1>1, <1>2 DEF IInv, AccountInv, Unsettled

LEMMA CreateStep ==
    ASSUME IInv, NEW x \in Role \union Channel, Create(x), Watch
    PROVE  IInv'
<1>1. x \in Thing /\ at[x] = "idle"
  BY DEF Thing, Fact, Create, Alone
<1>2. /\ at' \in [Thing -> Waiting] /\ at'[x] = "creating"
      /\ \A y \in Thing : y # x => at'[y] = at[y]
  BY <1>1, GoesShape DEF IInv, Create, Waiting
<1>3. TypeOK'
  BY <1>2, WatchTypes DEF IInv, TypeOK, Create, Noted, server, bounds
<1>4. Counted' /\ AccountInv'
  <2>1. Cardinality(InFlight') = Cardinality(InFlight) + 1
    BY <1>1, FlightBegins DEF IInv, Create, Flight
  <2>. QED  BY <2>1, NotedAccounts DEF Create
<1>5. AuthorityInv' /\ CleanInv'
  BY <1>2 DEF IInv, AuthorityInv, CleanInv, Create, Reading, Thing
<1>6. \A c \in Channel : Sees(c)
  BY <1>2 DEF IInv, Sees, Create, Thing
<1>. QED  BY <1>3, <1>4, <1>5, <1>6, EvidenceStep DEF IInv

\* A stop: nothing is in flight any more, no proof is left.  What was in flight may
\* have taken effect.
LEMMA StopStep ==
    ASSUME IInv, Stop, Watch,
           off' \subseteq Fact, wrong' \in [Channel -> SUBSET (Cell \union {Foreign})],
           changed' \in BOOLEAN, changed => changed', changed' => changed \/ InFlight # {},
           clean' = clean, faults' \in Nat, intrusions' \in Nat
    PROVE  IInv'
<1>1. at' = [y \in Thing |-> "idle"] /\ authority' = [c \in Channel |-> 0]
  BY DEF Stop, NoAuthority
<1>2. TypeOK'
  BY <1>1, WatchTypes, FlightType DEF IInv, TypeOK, Stop, Waiting
<1>3. Counted' /\ AccountInv'
  BY <1>1, FlightEmpties, FlightType DEF IInv, TypeOK, Counted, AccountInv, EffectsOf, Stop
<1>4. AuthorityInv' /\ CleanInv'
  BY <1>1 DEF AuthorityInv, CleanInv, Reading, Thing
<1>5. \A c \in Channel : Sees(c)
  BY <1>1 DEF Sees, Thing
<1>. QED  BY <1>2, <1>3, <1>4, <1>5, EvidenceStep DEF IInv

LEMMA CreatedStep ==
    ASSUME IInv, NEW x \in Role \union Channel, Created(x), Watch
    PROVE  IInv'
<1>1. x \in Thing /\ at[x] = "creating"
  BY DEF Thing, Fact, Created
<1>2. /\ at' \in [Thing -> Waiting] /\ at'[x] = "idle"
      /\ \A y \in Thing : y # x => at'[y] = at[y]
  BY <1>1, GoesShape DEF IInv, Created, Waiting
<1>3. Counted' /\ AccountInv' /\ pending' \in Nat /\ confirmed' \in BOOLEAN
      /\ effects' \in {"none", "possible", "confirmed"}
  <2>1. Cardinality(InFlight') = Cardinality(InFlight) - 1
    BY <1>1, FlightEnds DEF IInv, Created, Flight, Waiting
  <2>. QED  BY <2>1, SettledAccounts DEF Created
<1>4. authority' = [c \in Channel |-> 0] /\ print' = print + 1
  BY DEF Created, Rebind, NoAuthority
<1>5. TypeOK'
  BY <1>2, <1>3, <1>4, WatchTypes DEF IInv, TypeOK, Created, Settled, Rebind, NoFault, server
<1>6. AuthorityInv' /\ CleanInv'
  BY <1>2, <1>4 DEF IInv, AuthorityInv, CleanInv, Created, Reading, Thing
<1>7. \A c \in Channel : Sees(c)
  BY <1>2, <1>4 DEF IInv, Sees, Created, Thing
<1>. QED  BY <1>3, <1>5, <1>6, <1>7, EvidenceStep DEF IInv

LEMMA FaultCounts ==
    ASSUME IInv, Fault
    PROVE  faults' \in Nat
  BY DEF IInv, TypeOK, Fault

LEMMA MayChange ==
    ASSUME IInv, changed' \in {changed, TRUE}
    PROVE  changed' \in BOOLEAN /\ (changed => changed')
<1>1. changed \in BOOLEAN
  BY DEF IInv, TypeOK
<1>2. CASE changed' = changed
  BY <1>1, <1>2
<1>3. CASE changed' = TRUE
  BY <1>3
<1>. QED  BY <1>2, <1>3

LEMMA NotCreatedStep ==
    ASSUME IInv, NEW x \in Role \union Channel, NotCreated(x), Watch
    PROVE  IInv'
<1>1. x \in Thing /\ at[x] = "creating" /\ x \in InFlight
  BY DEF Thing, Fact, NotCreated, InFlight
<1>2. changed' \in BOOLEAN /\ (changed => changed') /\ faults' \in Nat
  BY FaultCounts, MayChange DEF NotCreated
<1>3. CASE Stop
  BY <1>1, <1>2, <1>3, StopStep DEF IInv, TypeOK, NotCreated, server
<1>4. CASE /\ mode' = "over" /\ Goes(x, "idle") /\ lost' = lost + 1
           /\ Unsettled /\ UNCHANGED <<bound, print, authority, stopped, why, seen, todo, sends>>
  <2>1. /\ at' \in [Thing -> Waiting] /\ at'[x] = "idle"
        /\ \A y \in Thing : y # x => at'[y] = at[y]
    BY <1>1, <1>4, GoesShape DEF IInv, Waiting
  <2>2. Cardinality(InFlight') = Cardinality(InFlight) - 1
    BY <1>1, <1>4, FlightEnds DEF IInv, Flight, Waiting
  <2>3. TypeOK'
    BY <1>2, <1>4, <2>1, WatchTypes DEF IInv, TypeOK, NotCreated, Unsettled, server
  <2>4. Counted' /\ AccountInv'
    BY <1>2, <1>4, <2>2, LostAccounts
  <2>5. AuthorityInv' /\ CleanInv'
    BY <1>4, <2>1 DEF IInv, AuthorityInv, CleanInv, NotCreated, Reading, Thing
  <2>6. \A c \in Channel : Sees(c)
    BY <1>4, <2>1 DEF Sees, Thing
  <2>. QED  BY <2>3, <2>4, <2>5, <2>6, EvidenceStep DEF IInv
<1>5. CASE /\ x \in Channel /\ Noted /\ lost' = lost + 1
           /\ UNCHANGED <<bound, print, authority, stopped, client>>
  <2>1. InFlight' = InFlight
    BY <1>5 DEF InFlight, client
  <2>2. TypeOK'
    BY <1>2, <1>5, WatchTypes DEF IInv, TypeOK, NotCreated, Noted, server, client
  <2>3. Counted' /\ AccountInv'
    BY <1>2, <1>5, <2>1, FlightType DEF IInv, TypeOK, Counted, AccountInv, EffectsOf, Noted
  <2>4. AuthorityInv' /\ CleanInv'
    BY <1>5 DEF IInv, AuthorityInv, CleanInv, NotCreated, client
  <2>5. \A c \in Channel : Sees(c)
    BY <1>5 DEF Sees, client, NotCreated
  <2>. QED  BY <2>2, <2>3, <2>4, <2>5, EvidenceStep DEF IInv
<1>. QED  BY <1>3, <1>4, <1>5 DEF NotCreated

LEMMA WriteLayoutStep ==
    ASSUME IInv, NEW f \in Fact, WriteLayout(f), Watch
    PROVE  IInv'
<1>1. f \in Thing /\ at[f] = "idle"
  BY DEF Thing, WriteLayout, Alone
<1>2. /\ at' \in [Thing -> Waiting] /\ at'[f] = "writing"
      /\ \A y \in Thing : y # f => at'[y] = at[y]
  BY <1>1, GoesShape DEF IInv, WriteLayout, Waiting
<1>3. Counted' /\ AccountInv' /\ pending' \in Nat
  <2>1. Cardinality(InFlight') = Cardinality(InFlight) + 1
    BY <1>1, FlightBegins DEF IInv, WriteLayout, Flight
  <2>. QED  BY <2>1, NotedAccounts DEF WriteLayout
<1>4. authority' = [c \in Channel |-> 0] /\ clean' \in [Channel -> BOOLEAN]
  BY DEF WriteLayout, NoAuthority, Soiled
<1>5. TypeOK'
  BY <1>2, <1>3, <1>4, WatchTypes DEF IInv, TypeOK, WriteLayout, Noted, server, bounds
<1>6. AuthorityInv'
  BY <1>4 DEF AuthorityInv
<1>7. CleanInv'
  BY <1>2, <1>4 DEF CleanInv, WriteLayout, Alone, Reading, Thing
<1>8. \A c \in Channel : Sees(c)
  BY <1>2, <1>4 DEF Sees, WriteLayout, Thing
<1>. QED  BY <1>3, <1>5, <1>6, <1>7, <1>8, EvidenceStep DEF IInv

LEMMA LayoutWrittenStep ==
    ASSUME IInv, NEW f \in Fact, LayoutWritten(f), Watch
    PROVE  IInv'
<1>1. f \in Thing /\ at[f] = "writing"
  BY DEF Thing, LayoutWritten
<1>2. /\ at' \in [Thing -> Waiting] /\ at'[f] = "idle"
      /\ \A y \in Thing : y # f => at'[y] = at[y]
  BY <1>1, GoesShape DEF IInv, LayoutWritten, Waiting
<1>3. Counted' /\ AccountInv' /\ pending' \in Nat /\ confirmed' \in BOOLEAN
      /\ effects' \in {"none", "possible", "confirmed"}
  <2>1. Cardinality(InFlight') = Cardinality(InFlight) - 1
    BY <1>1, FlightEnds DEF IInv, LayoutWritten, Flight, Waiting
  <2>. QED  BY <2>1, SettledAccounts DEF LayoutWritten
<1>4. TypeOK'
  BY <1>2, <1>3, WatchTypes DEF IInv, TypeOK, LayoutWritten, Settled, NoFault
<1>5. AuthorityInv' /\ CleanInv'
  BY <1>2 DEF IInv, AuthorityInv, CleanInv, LayoutWritten, Reading, Thing
<1>6. \A c \in Channel : Sees(c)
  BY <1>2 DEF Sees, LayoutWritten, Thing
<1>. QED  BY <1>3, <1>4, <1>5, <1>6, EvidenceStep DEF IInv

LEMMA WriteCellStep ==
    ASSUME IInv, NEW c \in Channel, WriteCell(c), Watch
    PROVE  IInv'
<1>1. c \in Thing /\ at[c] = "applying"
  BY DEF Thing, WriteCell
<1>2. /\ at' \in [Thing -> Waiting] /\ at'[c] = "writing"
      /\ \A y \in Thing : y # c => at'[y] = at[y]
  BY <1>1, GoesShape DEF IInv, WriteCell, Waiting
<1>3. Counted' /\ AccountInv' /\ pending' \in Nat
  <2>1. Cardinality(InFlight') = Cardinality(InFlight) + 1
    BY <1>1, FlightBegins DEF IInv, WriteCell, Flight
  <2>. QED  BY <2>1, NotedAccounts DEF WriteCell
<1>4. /\ clean' \in [Channel -> BOOLEAN]
      /\ \A d \in Channel \ {c} : clean'[d] <=> clean[d]
  BY DEF IInv, TypeOK, WriteCell, Soiled
<1>5. TypeOK'
  BY <1>2, <1>3, <1>4, WatchTypes DEF IInv, TypeOK, WriteCell, Noted, server, bounds
<1>6. AuthorityInv'
  BY <1>1, <1>2 DEF IInv, AuthorityInv, WriteCell, Reading, Thing
<1>7. CleanInv'
  <2> SUFFICES ASSUME NEW d \in Channel, at'[d] \in Reading \/ authority'[d] # 0
               PROVE  clean'[d]
    BY DEF CleanInv
  <2>1. d # c
    BY <1>1, <1>2 DEF IInv, AuthorityInv, WriteCell, Reading
  <2>. QED  BY <1>2, <1>4, <2>1 DEF IInv, CleanInv, WriteCell, Thing
<1>8. \A d \in Channel : Sees(d)
  BY <1>2 DEF Sees, WriteCell, Thing
<1>. QED  BY <1>3, <1>5, <1>6, <1>7, <1>8, EvidenceStep DEF IInv

LEMMA CellWrittenStep ==
    ASSUME IInv, NEW c \in Channel, CellWritten(c), Watch
    PROVE  IInv'
<1>1. c \in Thing /\ at[c] = "writing"
  BY DEF Thing, CellWritten
<1>2. /\ at' \in [Thing -> Waiting] /\ at'[c] = "applying"
      /\ \A y \in Thing : y # c => at'[y] = at[y]
  BY <1>1, GoesShape DEF IInv, CellWritten, Waiting
<1>3. Counted' /\ AccountInv' /\ pending' \in Nat /\ confirmed' \in BOOLEAN
      /\ effects' \in {"none", "possible", "confirmed"}
  <2>1. Cardinality(InFlight') = Cardinality(InFlight) - 1
    BY <1>1, FlightEnds DEF IInv, CellWritten, Flight, Waiting
  <2>. QED  BY <2>1, SettledAccounts DEF CellWritten
<1>4. /\ wrong' \in [Channel -> SUBSET (Cell \union {Foreign})]
      /\ todo' \in [Channel -> SUBSET Cell]
  <2>1. PICK k \in todo[c] : /\ wrong' = [wrong EXCEPT ![c] = @ \ {k}]
                             /\ todo' = [todo EXCEPT ![c] = @ \ {k}]
    BY DEF CellWritten
  <2>2. /\ wrong \in [Channel -> SUBSET (Cell \union {Foreign})]
        /\ todo \in [Channel -> SUBSET Cell]
    BY DEF IInv, TypeOK
  <2>3. wrong[c] \ {k} \in SUBSET (Cell \union {Foreign}) /\ todo[c] \ {k} \in SUBSET Cell
    BY <2>2
  <2>. QED  BY <2>1, <2>2, <2>3
<1>5. TypeOK'
  BY <1>2, <1>3, <1>4, WatchTypes DEF IInv, TypeOK, CellWritten, Settled, NoFault
<1>6. AuthorityInv' /\ CleanInv'
  BY <1>1, <1>2 DEF IInv, AuthorityInv, CleanInv, CellWritten, Reading, Thing
<1>7. \A d \in Channel : Sees(d)
  BY <1>2 DEF Sees, CellWritten, Thing
<1>. QED  BY <1>3, <1>5, <1>6, <1>7, EvidenceStep DEF IInv

LEMMA WriteFailsStep ==
    ASSUME IInv, NEW x \in Thing, WriteFails(x), Watch
    PROVE  IInv'
<1>1. x \in InFlight
  BY DEF WriteFails, InFlight
<1>2. changed' \in BOOLEAN /\ (changed => changed') /\ faults' \in Nat /\ intrusions' \in Nat
  BY FaultCounts, MayChange DEF IInv, TypeOK, WriteFails
<1>3. off' \subseteq Fact /\ wrong' \in [Channel -> SUBSET (Cell \union {Foreign})]
  <2>1. off \subseteq Fact /\ wrong \in [Channel -> SUBSET (Cell \union {Foreign})]
    BY DEF IInv, TypeOK
  <2>2. off' \in {off, off \ {x}}
    BY DEF WriteFails, server
  <2>3. \/ wrong' = wrong
        \/ x \in Channel /\ wrong' = [wrong EXCEPT ![x] = @ \ todo[x]]
    BY DEF WriteFails, server
  <2>4. x \in Channel => wrong[x] \ todo[x] \in SUBSET (Cell \union {Foreign})
    BY <2>1
  <2>. QED  BY <2>1, <2>2, <2>3, <2>4
<1>. QED  BY <1>1, <1>2, <1>3, StopStep DEF WriteFails

LEMMA BeginReadStep ==
    ASSUME IInv, NEW c \in Channel, NEW w \in {"apply", "verify"}, BeginRead(c, w),
           at[c] \in {"idle", "applying"}, Watch
    PROVE  IInv'
<1>1. c \in Thing /\ at[c] \notin Flight
  BY DEF Thing, Flight
<1>2. /\ at' \in [Thing -> Waiting] /\ at'[c] = "server"
      /\ \A y \in Thing : y # c => at'[y] = at[y]
  BY <1>1, GoesShape DEF IInv, BeginRead, Waiting
<1>3. InFlight' = InFlight
  BY <1>1, FlightStays DEF IInv, BeginRead, Flight, Waiting
<1>4. /\ authority' \in [Channel -> 0..print] /\ authority'[c] = 0
      /\ \A d \in Channel : d # c => authority'[d] = authority[d]
  BY DEF IInv, TypeOK, BeginRead
<1>5. /\ why' \in [Channel -> {"apply", "verify"}]
      /\ seen' \in [Channel -> SUBSET (Fact \union Cell \union {Foreign})]
      /\ \A d \in Channel : d # c => seen'[d] = seen[d]
  BY DEF IInv, TypeOK, BeginRead
<1>6. /\ clean' \in [Channel -> BOOLEAN] /\ clean'[c]
      /\ \A d \in Channel : d # c => clean'[d] = clean[d]
  BY DEF IInv, TypeOK, BeginRead
<1>7. TypeOK'
  BY <1>2, <1>4, <1>5, <1>6, WatchTypes DEF IInv, TypeOK, BeginRead, server, bounds
<1>8. Counted' /\ AccountInv'
  BY <1>3 DEF IInv, Counted, AccountInv, BeginRead
<1>9. AuthorityInv' /\ CleanInv'
  <2> SUFFICES ASSUME NEW d \in Channel
      PROVE  /\ authority'[d] \in {0, print'}
             /\ at'[d] \in Reading \union {"applying", "writing"} => authority'[d] = 0
             /\ at'[d] \in Reading \/ authority'[d] # 0 => clean'[d]
    BY DEF AuthorityInv, CleanInv
  <2>1. CASE d = c
    BY <1>4, <1>6, <2>1
  <2>2. CASE d # c
    BY <1>2, <1>4, <1>6, <2>2 DEF IInv, AuthorityInv, CleanInv, BeginRead, Thing
  <2>. QED  BY <2>1, <2>2
<1>10. \A d \in Channel : Sees(d)
  BY <1>2, <1>4, <1>5 DEF Sees, Thing
<1>. QED  BY <1>7, <1>8, <1>9, <1>10, EvidenceStep DEF IInv

LEMMA ReadsStep ==
    ASSUME IInv, NEW c \in Channel,
           ApplyChannel(c) \/ VerifyChannel(c) \/ ReadBack(c) \/ StartWorker(c), Watch
    PROVE  IInv'
<1>1. \E w \in {"apply", "verify"} : BeginRead(c, w)
  BY DEF ApplyChannel, VerifyChannel, ReadBack, StartWorker
<1>2. at[c] \in {"idle", "applying"}
  BY DEF ApplyChannel, VerifyChannel, ReadBack, StartWorker, Alone, Thing
<1>. QED  BY <1>1, <1>2, BeginReadStep

LEMMA ReadPartStep ==
    ASSUME IInv, NEW c \in Channel, ReadPart(c), Watch
    PROVE  IInv'
<1>1. PICK s \in {"channel", "again"} : Goes(c, s)
  BY DEF ReadPart
<1>2. c \in Thing /\ at[c] \in {"server", "channel"}
  BY DEF Thing, ReadPart
<1>3. /\ at' \in [Thing -> Waiting] /\ at'[c] = s
      /\ \A y \in Thing : y # c => at'[y] = at[y]
  BY <1>1, <1>2, GoesShape DEF IInv, Waiting
<1>4. InFlight' = InFlight
  BY <1>1, <1>2, FlightStays DEF IInv, Flight, Waiting
<1>5. /\ seen' \in [Channel -> SUBSET (Fact \union Cell \union {Foreign})]
      /\ \A d \in Channel : d # c => seen'[d] = seen[d]
  <2>1. /\ seen \in [Channel -> SUBSET (Fact \union Cell \union {Foreign})]
        /\ off \subseteq Fact /\ wrong[c] \subseteq Cell \union {Foreign}
    BY DEF IInv, TypeOK
  <2>2. \/ seen' = [seen EXCEPT ![c] = off]
        \/ seen' = [seen EXCEPT ![c] = @ \union wrong[c]]
    BY DEF ReadPart
  <2>3. seen[c] \union wrong[c] \in SUBSET (Fact \union Cell \union {Foreign})
    BY <2>1
  <2>. QED  BY <2>1, <2>2, <2>3
<1>6. TypeOK'
  BY <1>3, <1>5, WatchTypes DEF IInv, TypeOK, ReadPart, server, runtime, bounds
<1>7. Counted' /\ AccountInv'
  BY <1>4 DEF IInv, Counted, AccountInv, ReadPart, runtime
<1>8. AuthorityInv' /\ CleanInv'
  BY <1>2, <1>3 DEF IInv, AuthorityInv, CleanInv, Reading, ReadPart, runtime, Thing
<1>9. at'[c] = "again" => at[c] = "channel" /\ seen'[c] = seen[c] \union wrong[c]
  <2>1. CASE at[c] = "server" /\ Goes(c, "channel")
    BY <1>2, <2>1, GoesShape DEF IInv, Waiting
  <2>2. CASE at[c] = "channel" /\ seen' = [seen EXCEPT ![c] = @ \union wrong[c]]
    BY <2>2 DEF IInv, TypeOK
  <2>. QED  BY <2>1, <2>2 DEF ReadPart
<1>10. \A d \in Channel : Sees(d)
  <2> SUFFICES ASSUME NEW d \in Channel PROVE Sees(d)
    OBVIOUS
  <2>1. UNCHANGED server /\ authority' = authority
    BY DEF ReadPart, runtime
  <2>2. CASE d = c
    BY <1>1, <1>3, <1>9, <2>1, <2>2 DEF Sees
  <2>3. CASE d # c
    BY <1>3, <1>5, <2>1, <2>3 DEF Sees, Thing
  <2>. QED  BY <2>2, <2>3
<1>. QED  BY <1>6, <1>7, <1>8, <1>10, EvidenceStep DEF IInv

LEMMA VerifyStep ==
    ASSUME IInv, NEW c \in Channel, Verify(c), Watch
    PROVE  IInv'
<1>1. c \in Thing /\ at[c] = "again" /\ seen[c] = {} /\ off = {}
  BY DEF Thing, Verify, ReadAgain, SettledLayout
<1>2. PICK s \in {"ready", "idle"} : Goes(c, s)
  BY DEF Verify
<1>3. /\ at' \in [Thing -> Waiting] /\ at'[c] = s
      /\ \A y \in Thing : y # c => at'[y] = at[y]
  BY <1>1, <1>2, GoesShape DEF IInv, Waiting
<1>4. InFlight' = InFlight
  BY <1>1, <1>2, FlightStays DEF IInv, Flight, Waiting
<1>5. /\ authority' \in [Channel -> 0..print] /\ authority'[c] = print
      /\ \A d \in Channel : d # c => authority'[d] = authority[d]
  BY DEF IInv, TypeOK, Verify
<1>6. TypeOK'
  BY <1>3, <1>5, WatchTypes DEF IInv, TypeOK, Verify, server, bounds
<1>7. Counted' /\ AccountInv'
  BY <1>4 DEF IInv, Counted, AccountInv, Verify
<1>8. AuthorityInv' /\ CleanInv'
  <2> SUFFICES ASSUME NEW d \in Channel
      PROVE  /\ authority'[d] \in {0, print'}
             /\ at'[d] \in Reading \union {"applying", "writing"} => authority'[d] = 0
             /\ at'[d] \in Reading \/ authority'[d] # 0 => clean'[d]
    BY DEF AuthorityInv, CleanInv
  <2>1. CASE d = c
    BY <1>1, <1>2, <1>3, <1>5, <2>1 DEF IInv, CleanInv, Reading, Verify
  <2>2. CASE d # c
    BY <1>3, <1>5, <2>2 DEF IInv, AuthorityInv, CleanInv, Verify, Thing
  <2>. QED  BY <2>1, <2>2
<1>9. \A d \in Channel : Sees(d)
  <2> SUFFICES ASSUME NEW d \in Channel PROVE Sees(d)
    OBVIOUS
  <2>1. CASE d = c
    BY <1>1, <1>2, <1>3, <2>1 DEF Sees
  <2>2. CASE d # c
    BY <1>3, <1>5, <2>2 DEF Sees, Verify, Thing
  <2>. QED  BY <2>1, <2>2
<1>. QED  BY <1>6, <1>7, <1>8, <1>9, EvidenceStep DEF IInv

LEMMA ProposeStep ==
    ASSUME IInv, NEW c \in Channel, Propose(c), Watch
    PROVE  IInv'
<1>1. c \in Thing /\ at[c] = "again"
  BY DEF Thing, Propose, ReadAgain
<1>2. /\ at' \in [Thing -> Waiting] /\ at'[c] = "applying"
      /\ \A y \in Thing : y # c => at'[y] = at[y]
  BY <1>1, GoesShape DEF IInv, Propose, Waiting
<1>3. InFlight' = InFlight
  BY <1>1, FlightStays DEF IInv, Propose, Flight, Waiting
<1>4. todo' \in [Channel -> SUBSET Cell]
  BY DEF IInv, TypeOK, Propose
<1>5. TypeOK'
  BY <1>2, <1>4, WatchTypes DEF IInv, TypeOK, Propose, server, runtime, bounds
<1>6. Counted' /\ AccountInv'
  BY <1>3 DEF IInv, Counted, AccountInv, Propose, runtime
<1>7. AuthorityInv' /\ CleanInv'
  BY <1>1, <1>2 DEF IInv, AuthorityInv, CleanInv, Reading, Propose, runtime, Thing
<1>8. \A d \in Channel : Sees(d)
  BY <1>2 DEF Sees, Propose, runtime, Thing
<1>. QED  BY <1>5, <1>6, <1>7, <1>8, EvidenceStep DEF IInv

LEMMA StopsStep ==
    ASSUME IInv, NEW c \in Channel, Mismatch(c) \/ ReadFails(c) \/ Refuse(c), Watch
    PROVE  IInv'
<1>1. Stop /\ UNCHANGED <<server, changed, clean, intrusions>>
  BY DEF Mismatch, ReadFails, Refuse, bounds
<1>2. faults' \in Nat
  BY FaultCounts DEF Mismatch, ReadFails, Refuse, bounds, IInv, TypeOK
<1>. QED  BY <1>1, <1>2, StopStep DEF IInv, TypeOK, server

LEMMA DispatchStep ==
    ASSUME IInv, NEW c \in Channel, Dispatch(c), Watch
    PROVE  IInv'
<1>1. c \in Thing /\ at[c] \in {"idle", "ready"}
  BY DEF Thing, Dispatch, Alone
<1>2. /\ at' \in [Thing -> Waiting] /\ at'[c] = "sending"
      /\ \A y \in Thing : y # c => at'[y] = at[y]
  BY <1>1, GoesShape DEF IInv, Dispatch, Waiting
<1>3. Counted' /\ AccountInv' /\ pending' \in Nat
  <2>1. Cardinality(InFlight') = Cardinality(InFlight) + 1
    BY <1>1, FlightBegins DEF IInv, Dispatch, Flight
  <2>. QED  BY <2>1, NotedAccounts DEF Dispatch
<1>4. sends' \in [Channel -> Nat]
  BY DEF IInv, TypeOK, Dispatch
<1>5. TypeOK'
  BY <1>2, <1>3, <1>4, WatchTypes DEF IInv, TypeOK, Dispatch, Noted, server, bounds
<1>6. AuthorityInv' /\ CleanInv'
  BY <1>2 DEF IInv, AuthorityInv, CleanInv, Dispatch, Reading, Thing
<1>7. \A d \in Channel : Sees(d)
  <2>1. authority[c] # 0
    BY DEF IInv, TypeOK, Dispatch, Proved
  <2>. QED  BY <1>2, <2>1 DEF Sees, Dispatch, Thing
<1>. QED  BY <1>3, <1>5, <1>6, <1>7, EvidenceStep DEF IInv

\* The answer to a message: its worker goes on, the channel stays as proved.
LEMMA AnswerStep ==
    ASSUME IInv, NEW c \in Channel, Acked(c) \/ Rejected(c) \/ Unknown(c), Watch
    PROVE  IInv'
<1>1. c \in Thing /\ at[c] = "sending"
  BY DEF Thing, Acked, Rejected, Unknown
<1>2. PICK s \in {"ready", "idle"} : Goes(c, s)
  BY DEF Acked, Rejected, Unknown, After
<1>3. /\ at' \in [Thing -> Waiting] /\ at'[c] = s
      /\ \A y \in Thing : y # c => at'[y] = at[y]
  BY <1>1, <1>2, GoesShape DEF IInv, Waiting
<1>4. Cardinality(InFlight') = Cardinality(InFlight) - 1
  BY <1>1, <1>2, FlightEnds DEF IInv, Flight, Waiting
<1>5. changed' \in BOOLEAN /\ (changed => changed')
  BY MayChange DEF IInv, TypeOK, Acked, Rejected, Unknown
<1>6. /\ Counted' /\ AccountInv' /\ pending' \in Nat /\ confirmed' \in BOOLEAN
      /\ effects' \in {"none", "possible", "confirmed"} /\ lost' \in Nat
  <2>1. lost' \in Nat
    <3>1. lost \in Nat
      BY DEF IInv, TypeOK
    <3>2. lost' = lost \/ lost' = lost + 1
      BY DEF Acked, Rejected, Unknown
    <3>. QED  BY <3>1, <3>2
  <2>2. CASE Acked(c)
    BY <1>4, <2>1, <2>2, SettledAccounts DEF Acked
  <2>3. CASE Rejected(c)
    BY <1>4, <2>1, <2>3, SettledAccounts DEF Rejected
  <2>4. CASE Unknown(c)
    BY <1>4, <1>5, <2>1, <2>4, LostAccounts DEF IInv, TypeOK, Unknown, Unsettled
  <2>. QED  BY <2>2, <2>3, <2>4
<1>7. /\ UNCHANGED <<server, bound, print, authority, stopped, mode, why, seen, todo, sends, clean,
                     intrusions>>
      /\ faults' \in Nat
  BY FaultCounts DEF IInv, TypeOK, Acked, Rejected, Unknown, NoFault
<1>8. TypeOK'
  BY <1>3, <1>5, <1>6, <1>7, WatchTypes DEF IInv, TypeOK, server
<1>9. AuthorityInv' /\ CleanInv'
  BY <1>2, <1>3, <1>7 DEF IInv, AuthorityInv, CleanInv, Reading, Thing
<1>10. \A d \in Channel : Sees(d)
  BY <1>1, <1>2, <1>3, <1>7 DEF Sees, Thing
<1>. QED  BY <1>6, <1>8, <1>9, <1>10, EvidenceStep DEF IInv

LEMMA ToMessagesStep ==
    ASSUME IInv, ToMessages, Watch
    PROVE  IInv'
<1>1. InFlight' = InFlight
  BY DEF ToMessages, InFlight
<1>2. TypeOK'
  BY WatchTypes DEF IInv, TypeOK, ToMessages, server, runtime, bounds
<1>3. Counted' /\ AccountInv' /\ AuthorityInv' /\ CleanInv'
  BY <1>1 DEF IInv, Counted, AccountInv, AuthorityInv, CleanInv, ToMessages, runtime
<1>4. \A d \in Channel : Sees(d)
  BY DEF Sees, ToMessages, runtime
<1>. QED  BY <1>2, <1>3, <1>4, EvidenceStep DEF IInv

LEMMA EndStep ==
    ASSUME IInv, End, Watch
    PROVE  IInv'
<1>1. at' = [y \in Thing |-> "idle"] /\ InFlight = {}
  BY DEF End, InFlight
<1>2. TypeOK'
  BY <1>1, WatchTypes DEF IInv, TypeOK, End, server, runtime, bounds, Waiting
<1>3. Counted' /\ AccountInv'
  BY <1>1, FlightEmpties, FlightType DEF IInv, Counted, AccountInv, End, runtime
<1>4. AuthorityInv' /\ CleanInv'
  BY <1>1 DEF IInv, AuthorityInv, CleanInv, Reading, End, runtime, Thing
<1>5. \A d \in Channel : Sees(d)
  BY <1>1 DEF Sees, End, runtime, Thing
<1>. QED  BY <1>2, <1>3, <1>4, <1>5, EvidenceStep DEF IInv

LEMMA CancelStep ==
    ASSUME IInv, Cancel, Watch
    PROVE  IInv'
<1>1. /\ changed' \in BOOLEAN /\ (changed => changed')
      /\ changed' => changed \/ InFlight # {}
  <2>1. changed \in BOOLEAN
    BY DEF IInv, TypeOK
  <2>2. CASE changed' = changed
    BY <2>1, <2>2
  <2>3. CASE changed' = (changed \/ InFlight # {})
    BY <2>1, <2>3
  <2>. QED  BY <2>2, <2>3 DEF Cancel
<1>2. faults' \in Nat
  BY FaultCounts DEF Cancel
<1>. QED  BY <1>1, <1>2, StopStep DEF IInv, TypeOK, Cancel, server

LEMMA IntrudeStep ==
    ASSUME IInv, Intrude, Watch
    PROVE  IInv'
<1>1. UNCHANGED <<runtime, client, changed, lost, clean, faults>> /\ intrusions' = intrusions + 1
  BY DEF Intrude
<1>2. off' \subseteq Fact /\ wrong' \in [Channel -> SUBSET (Cell \union {Foreign})]
  <2>1. off \subseteq Fact /\ wrong \in [Channel -> SUBSET (Cell \union {Foreign})]
    BY DEF IInv, TypeOK
  <2>2. CASE \E f \in Fact : off' \in {off \union {f}, off \ {f}} \ {off} /\ UNCHANGED wrong
    BY <2>1, <2>2
  <2>3. ASSUME NEW c \in bound \intersect Channel, NEW k \in Needs[c] \union {Foreign},
               wrong' \in {[wrong EXCEPT ![c] = @ \union {k}], [wrong EXCEPT ![c] = @ \ {k}]} \ {wrong},
               UNCHANGED off
        PROVE  off' \subseteq Fact /\ wrong' \in [Channel -> SUBSET (Cell \union {Foreign})]
    <3>1. k \in Cell \union {Foreign}
      BY PermissionAssumption
    <3>2. /\ wrong[c] \union {k} \in SUBSET (Cell \union {Foreign})
          /\ wrong[c] \ {k} \in SUBSET (Cell \union {Foreign})
      BY <2>1, <3>1
    <3>3. \/ wrong' = [wrong EXCEPT ![c] = @ \union {k}]
          \/ wrong' = [wrong EXCEPT ![c] = @ \ {k}]
      BY <2>3
    <3>. QED  BY <2>1, <2>3, <3>2, <3>3
  <2>. QED  BY <2>2, <2>3 DEF Intrude
<1>3. InFlight' = InFlight
  BY <1>1 DEF InFlight, client
<1>4. TypeOK'
  BY <1>1, <1>2, WatchTypes DEF IInv, TypeOK, runtime, client
<1>5. Counted' /\ AccountInv' /\ AuthorityInv' /\ CleanInv'
  BY <1>1, <1>3 DEF IInv, Counted, AccountInv, AuthorityInv, CleanInv, runtime, client
<1>6. \A d \in Channel : Sees(d)
  BY <1>1 DEF Sees, runtime, client
<1>. QED  BY <1>4, <1>5, <1>6, EvidenceStep DEF IInv

LEMMA StutterStep ==
    ASSUME IInv, UNCHANGED vars
    PROVE  IInv'
<1>1. InFlight' = InFlight
  BY DEF vars, client, InFlight
<1>2. \A c \in Channel : (Right(c)' <=> Right(c)) /\ (WasRight(c)' <=> WasRight(c))
  BY DEF vars, server, Right, WasRight
<1>3. TypeOK'
  BY DEF IInv, TypeOK, vars, server, runtime, client, bounds
<1>4. Counted' /\ AccountInv' /\ AuthorityInv' /\ CleanInv'
  BY <1>1 DEF IInv, Counted, AccountInv, AuthorityInv, CleanInv, vars, runtime, client
<1>5. EvidenceInv'
  BY <1>2 DEF IInv, EvidenceInv, vars, server, runtime, client
<1>. QED  BY <1>3, <1>4, <1>5 DEF IInv

-----------------------------------------------------------------------------
LEMMA InitHolds == Init => IInv
<1> SUFFICES ASSUME Init PROVE IInv
  OBVIOUS
<1>1. InFlight = {}
  BY DEF Init, InFlight, Thing
<1>2. off \subseteq Fact /\ bound \subseteq Role \union Channel
  BY DEF Init, Fact
<1>3. wrong \in [Channel -> SUBSET (Cell \union {Foreign})]
  <2>1. wrong \in [Channel -> {{}} \union {Needs[c] : c \in Channel}]
    BY DEF Init
  <2>2. {{}} \union {Needs[c] : c \in Channel} \subseteq SUBSET (Cell \union {Foreign})
    BY PermissionAssumption
  <2>. QED  BY <2>1, <2>2
<1>4. TypeOK
  <2>1. /\ print = 1 /\ authority = [c \in Channel |-> 0]
        /\ at = [x \in Thing |-> "idle"] /\ why = [c \in Channel |-> "verify"]
        /\ seen = [c \in Channel |-> {}] /\ todo = [c \in Channel |-> {}]
        /\ sends = [c \in Channel |-> 0]
        /\ since = [c \in Channel |-> FALSE] /\ restored = [c \in Channel |-> FALSE]
        /\ clean = [c \in Channel |-> FALSE]
    BY DEF Init
  <2>2. /\ pending = 0 /\ confirmed = FALSE /\ effects = "none" /\ stopped = FALSE
        /\ mode = "jobs" /\ changed = FALSE /\ lost = 0 /\ faults = 0 /\ intrusions = 0
    BY DEF Init
  <2>3. /\ print \in Nat \ {0} /\ authority \in [Channel -> 0..print]
        /\ sends \in [Channel -> Nat]
    BY <2>1
  <2>4. /\ at \in [Thing -> Waiting] /\ why \in [Channel -> {"apply", "verify"}]
    BY <2>1 DEF Waiting
  <2>5. /\ seen \in [Channel -> SUBSET (Fact \union Cell \union {Foreign})]
        /\ todo \in [Channel -> SUBSET Cell]
    BY <2>1
  <2>6. /\ since \in [Channel -> BOOLEAN] /\ restored \in [Channel -> BOOLEAN]
        /\ clean \in [Channel -> BOOLEAN]
    BY <2>1
  <2>7. /\ pending \in Nat /\ confirmed \in BOOLEAN /\ effects \in {"none", "possible", "confirmed"}
        /\ stopped \in BOOLEAN /\ mode \in {"jobs", "messages", "over"} /\ changed \in BOOLEAN
        /\ lost \in Nat /\ faults \in Nat /\ intrusions \in Nat
    BY <2>2
  <2>. QED  BY <1>2, <1>3, <2>3, <2>4, <2>5, <2>6, <2>7 DEF TypeOK
<1>5. Counted /\ AccountInv
  BY <1>1, FlightType DEF Init, Counted, AccountInv, EffectsOf
<1>6. AuthorityInv /\ CleanInv /\ EvidenceInv
  BY DEF Init, AuthorityInv, CleanInv, EvidenceInv, Reading, Thing
<1>. QED  BY <1>4, <1>5, <1>6 DEF IInv

LEMMA NextKeeps == IInv /\ [Next]_vars => IInv'
<1> SUFFICES ASSUME IInv, [Next]_vars PROVE IInv'
  OBVIOUS
<1>1. ASSUME Step, Watch PROVE IInv'
  <2>1. ASSUME NEW x \in Role \union Channel, Create(x) \/ Created(x) \/ NotCreated(x)
        PROVE  IInv'
    BY <1>1, <2>1, CreateStep, CreatedStep, NotCreatedStep
  <2>2. ASSUME NEW f \in Fact, WriteLayout(f) \/ LayoutWritten(f)
        PROVE  IInv'
    BY <1>1, <2>2, WriteLayoutStep, LayoutWrittenStep
  <2>3. ASSUME NEW x \in Thing, WriteFails(x)
        PROVE  IInv'
    BY <1>1, <2>3, WriteFailsStep
  <2>4. ASSUME NEW c \in Channel,
               \/ WriteCell(c) \/ CellWritten(c)
               \/ ApplyChannel(c) \/ VerifyChannel(c) \/ ReadBack(c) \/ StartWorker(c)
               \/ ReadPart(c) \/ Verify(c) \/ Propose(c) \/ Mismatch(c) \/ ReadFails(c)
               \/ Dispatch(c) \/ Refuse(c) \/ Acked(c) \/ Rejected(c) \/ Unknown(c)
        PROVE  IInv'
    <3>1. CASE WriteCell(c) \/ CellWritten(c)
      BY <1>1, <3>1, WriteCellStep, CellWrittenStep
    <3>2. CASE ApplyChannel(c) \/ VerifyChannel(c) \/ ReadBack(c) \/ StartWorker(c)
      BY <1>1, <3>2, ReadsStep
    <3>3. CASE ReadPart(c) \/ Verify(c) \/ Propose(c)
      BY <1>1, <3>3, ReadPartStep, VerifyStep, ProposeStep
    <3>4. CASE Mismatch(c) \/ ReadFails(c) \/ Refuse(c)
      BY <1>1, <3>4, StopsStep
    <3>5. CASE Dispatch(c)
      BY <1>1, <3>5, DispatchStep
    <3>6. CASE Acked(c) \/ Rejected(c) \/ Unknown(c)
      BY <1>1, <3>6, AnswerStep
    <3>. QED  BY <2>4, <3>1, <3>2, <3>3, <3>4, <3>5, <3>6
  <2>5. CASE ToMessages \/ End \/ Cancel \/ Intrude
    BY <1>1, <2>5, ToMessagesStep, EndStep, CancelStep, IntrudeStep
  <2>. QED  BY <1>1, <2>1, <2>2, <2>3, <2>4, <2>5 DEF Step
<1>2. CASE UNCHANGED vars
  BY <1>2, StutterStep
<1>. QED  BY <1>1, <1>2 DEF Next

\* The inductive invariant of the permission runtime.
THEOREM RuntimeInvariant == Spec => []IInv
<1>1. Init => IInv
  BY InitHolds
<1>2. IInv /\ [Next]_vars => IInv'
  BY NextKeeps
<1>. QED  BY <1>1, <1>2, PTL DEF Spec

\* The types hold, every noted write is counted until it is settled, and the report never
\* gives an effect that is less than what was done (note_write, _settle_write).
THEOREM RuntimeAccounts == Spec => []RuntimeInv
<1>1. IInv => RuntimeInv
  <2> SUFFICES ASSUME IInv PROVE EffectsHonest
    BY DEF IInv, RuntimeInv
  <2>1. /\ pending \in Nat /\ lost \in Nat /\ pending = lost + Cardinality(InFlight)
        /\ effects = EffectsOf(pending, confirmed)
    BY DEF IInv, TypeOK, Counted, AccountInv
  <2>2. pending = 0 => lost = 0 /\ InFlight = {}
    BY <2>1, FlightType
  <2>3. ASSUME effects = "none" PROVE ~changed
    BY <2>1, <2>2, <2>3 DEF IInv, AccountInv, EffectsOf
  <2>4. ASSUME effects = "confirmed" PROVE changed /\ lost = 0 /\ InFlight = {}
    BY <2>1, <2>2, <2>4 DEF IInv, AccountInv, EffectsOf
  <2>. QED  BY <2>3, <2>4 DEF EffectsHonest
<1>. QED  BY <1>1, RuntimeInvariant, PTL

\* However people change the server meanwhile, a message is only dispatched into a channel
\* that was right during the read before it (deliver_part, _read_permission_context), or
\* was wrong and put right between the parts of that read (restored).
THEOREM ContentProved == Spec => []ContentUnderProof
<1>1. IInv => ContentUnderProof
  BY DEF IInv, EvidenceInv, ContentUnderProof
<1>. QED  BY <1>1, RuntimeInvariant, PTL

\* Proofs are not outlived by writes that touch what they rest on, and the verified outcome
\* rests on current ones (authorize_*, bind_*, _sync_outcome).
THEOREM ProofsHold == Spec => []ProofsCurrent
<1>1. IInv => ProofsCurrent
  <2> SUFFICES ASSUME IInv PROVE ProofNotOutlived /\ VerifiedIsCurrent
    BY DEF ProofsCurrent
  <2>1. ProofNotOutlived
    BY DEF IInv, CleanInv, ProofNotOutlived
  <2>2. VerifiedIsCurrent
    BY DEF IInv, AuthorityInv, EvidenceInv, VerifiedIsCurrent, Verified, Proved
  <2>. QED  BY <2>1, <2>2
<1>. QED  BY <1>1, RuntimeInvariant, PTL

-----------------------------------------------------------------------------
(* The calculation.                                                          *)

\* A non-empty set of roles has one of the highest priority.
LEMMA HighestRole ==
    ASSUME NEW D \in SUBSET Roles, D # {}
    PROVE  \E r \in D : \A x \in D : ~(x > r)
<1> DEFINE Higher(r) == {x \in D : x > r}
           T == {Higher(r) : r \in D}
<1>1. IsFiniteSet(Roles)
  BY RoleCountAssumption, FS_Interval DEF Roles
<1>2. T \subseteq FiniteSubsetsOf(Roles)
  <2>1. ASSUME NEW r \in D PROVE Higher(r) \in FiniteSubsetsOf(Roles)
    <3>1. Higher(r) \subseteq Roles
      OBVIOUS
    <3>2. IsFiniteSet(Higher(r))
      BY <1>1, <3>1, FS_Subset
    <3> QED BY <3>1, <3>2 DEF FiniteSubsetsOf
  <2> QED BY <2>1
<1>3. T # {}
  OBVIOUS
<1>4. IsWellFoundedOn(StrictSubsetOrdering(Roles), FiniteSubsetsOf(Roles))
  BY FS_StrictSubsetOrderingWellFounded
<1>5. PICK t \in T : \A y \in T : <<y, t>> \notin StrictSubsetOrdering(Roles)
  BY <1>2, <1>3, <1>4, WFMin
<1>6. PICK r \in D : t = Higher(r)
  BY <1>5
<1>7. ASSUME NEW x \in D, x > r PROVE FALSE
  <2>1. Higher(x) \in T
    OBVIOUS
  <2>2. Higher(x) \subseteq Higher(r) /\ x \in Higher(r) /\ x \notin Higher(x)
    <3>1. r \in Int /\ \A y \in D : y \in Int
      BY RoleCountAssumption DEF Roles
    <3>2. ~(x > x) /\ \A y \in D : y > x => y > r
      BY <1>7, <3>1
    <3> QED BY <1>7, <3>2
  <2>3. <<Higher(x), Higher(r)>> \in StrictSubsetOrdering(Roles)
    BY <2>2 DEF StrictSubsetOrdering
  <2> QED BY <1>5, <1>6, <2>1, <2>3
<1> QED BY <1>7

-----------------------------------------------------------------------------
PredicateShape == [P : SUBSET Roles, N : SUBSET Roles, G : SUBSET Roles, c : BOOLEAN]

\* constant_result answers "true" or "false" only when every membership of the
\* cube has that answer: what every later step of the calculation rests on.
THEOREM ConstantResultSound ==
    ASSUME NEW p \in PredicateShape, NEW absent \in SUBSET Roles, NEW ones \in SUBSET Roles,
           NEW members \in SUBSET Roles, ones \subseteq members, members \cap absent = {}
    PROVE  /\ ConstantResult(p, absent, ones) = "true" => EvaluateSourceBit(p, members)
           /\ ConstantResult(p, absent, ones) = "false" => ~EvaluateSourceBit(p, members)
<1> DEFINE free == Roles \ (absent \cup ones)
<1>1. members \subseteq free \cup ones
  OBVIOUS
<1>2. p.P \subseteq Roles /\ p.N \subseteq Roles /\ p.G \subseteq Roles /\ p.c \in BOOLEAN
  BY DEF PredicateShape
<1>3. ASSUME ConstantResult(p, absent, ones) = "true"
      PROVE  EvaluateSourceBit(p, members)
  <2>1. CASE p.P \cap ones # {}
    BY <2>1 DEF EvaluateSourceBit
  <2>2. CASE /\ p.N \cap ones = {}
             /\ (p.N \cap free) \ p.P = {}
             /\ p.c \/ p.G \cap ones # {}
    <3>1. CASE p.P \cap members # {}
      BY <3>1 DEF EvaluateSourceBit
    <3>2. CASE p.P \cap members = {}
      <4>1. p.N \cap members = {}
        BY <1>1, <2>2, <3>2
      <4> QED BY <2>2, <4>1 DEF EvaluateSourceBit
    <3> QED BY <3>1, <3>2
  <2> QED BY <1>3, <2>1, <2>2 DEF ConstantResult, Undecided
<1>4. ASSUME ConstantResult(p, absent, ones) = "false"
      PROVE  ~EvaluateSourceBit(p, members)
  <2>1. /\ p.P \cap ones = {}
        /\ p.P \cap free = {}
        /\ \/ p.N \cap ones # {}
           \/ ~p.c /\ p.G \cap ones = {} /\ (p.G \cap free) \ p.N = {}
    BY <1>4 DEF ConstantResult, Undecided
  <2>2. p.P \cap members = {}
    BY <1>1, <2>1
  <2>3. CASE p.N \cap ones # {}
    BY <2>2, <2>3 DEF EvaluateSourceBit
  <2>4. CASE ~p.c /\ p.G \cap ones = {} /\ (p.G \cap free) \ p.N = {}
    <3>1. p.G \cap members \subseteq p.N
      BY <1>1, <2>4
    <3> QED BY <2>2, <2>4, <3>1 DEF EvaluateSourceBit
  <2> QED BY <2>1, <2>3, <2>4
<1> QED BY <1>3, <1>4

-----------------------------------------------------------------------------

\* The predicate of a bit says what Discord gives to a member.
LEMMA FormedExactly ==
    ASSUME NEW f \in Facts, NEW members \in SUBSET Roles,
           input.admins \subseteq Roles \cup {EveryoneRole}
    PROVE  EvaluateSourceBit(FormSourceBit(input.admins, f), members)
             <=> SourceAllows(f, members)
<1>1. EveryoneRole \notin Roles
  BY RoleCountAssumption DEF Roles, EveryoneRole
<1>2. CASE EveryoneRole \in input.admins
  BY <1>2 DEF EvaluateSourceBit, FormSourceBit, SourceAllows
<1>3. CASE EveryoneRole \notin input.admins
  <2> DEFINE p == FormSourceBit(input.admins, f)
  <2>1. /\ p.P = (input.admins \cap Roles) \cup f.allows
        /\ p.N = f.denies
        /\ p.G = (IF f.cell = Neutral THEN f.guilds ELSE {})
        /\ p.c = ((f.everyone /\ f.cell # Deny) \/ f.cell = Allow)
    BY <1>3 DEF FormSourceBit
  <2>2. p.P \cap members # {} <=> \/ input.admins \cap (members \cup {EveryoneRole}) # {}
                                  \/ f.allows \cap members # {}
    BY <1>1, <1>3, <2>1
  <2>3. f.cell \in {Neutral, Allow, Deny} /\ f.everyone \in BOOLEAN
    BY DEF Facts, Cells
  <2>4. (p.c \/ p.G \cap members # {})
           <=> (CASE f.cell = Deny -> FALSE
                  [] f.cell = Allow -> TRUE
                  [] OTHER -> f.everyone \/ f.guilds \cap members # {})
    <3>1. CASE f.cell = Deny
      BY <2>1, <3>1 DEF Neutral, Allow, Deny
    <3>2. CASE f.cell = Allow
      BY <2>1, <3>2 DEF Neutral, Allow, Deny
    <3>3. CASE f.cell = Neutral
      BY <2>1, <2>3, <3>3 DEF Neutral, Allow, Deny
    <3> QED BY <2>3, <3>1, <3>2, <3>3
  <2> QED BY <2>1, <2>2, <2>4 DEF EvaluateSourceBit, SourceAllows
<1> QED BY <1>2, <1>3

-----------------------------------------------------------------------------

\* A set of numbers has a least one.
LEMMA LeastNumber ==
    ASSUME NEW T \in SUBSET Nat, T # {}
    PROVE  \E x \in T : \A y \in T : x <= y
<1>1. IsWellFoundedOn(OpToRel(<, Nat), Nat)
  BY NatLessThanWellFounded
<1>2. PICK x \in T : \A y \in T : <<y, x>> \notin OpToRel(<, Nat)
  BY <1>1, WFMin, Zenon
<1>3. \A y \in T : x <= y
  <2> TAKE y \in T
  <2>1. ~(y < x)
    BY <1>2 DEF OpToRel
  <2> QED  BY <2>1
<1> QED  BY <1>3

\* The memberships of a cube.
Cube(absent, ones) == {members \in SUBSET Roles : ones \subseteq members /\ members \cap absent = {}}

\* constant_result is exact: with the sound half, it decides every cube that it can.
LEMMA ConstantResultExact ==
    ASSUME NEW p \in PredicateShape, NEW absent \in SUBSET Roles, NEW ones \in SUBSET Roles, absent \cap ones = {}
    PROVE  /\ ConstantResult(p, absent, ones) \in {"true", "false", Undecided}
           /\ ConstantResult(p, absent, ones) = "true"
                <=> \A members \in Cube(absent, ones) : EvaluateSourceBit(p, members)
           /\ ConstantResult(p, absent, ones) = "false"
                <=> \A members \in Cube(absent, ones) : ~EvaluateSourceBit(p, members)
<1> DEFINE free == Roles \ (absent \cup ones)
           result == ConstantResult(p, absent, ones)
<1>1. p.P \subseteq Roles /\ p.N \subseteq Roles /\ p.G \subseteq Roles /\ p.c \in BOOLEAN
  BY DEF PredicateShape
<1>2. ones \in Cube(absent, ones) /\ \A r \in free : ones \cup {r} \in Cube(absent, ones)
  BY DEF Cube
<1>3. result = "true" => \A members \in Cube(absent, ones) : EvaluateSourceBit(p, members)
  BY ConstantResultSound DEF Cube
<1>4. result = "false" => \A members \in Cube(absent, ones) : ~EvaluateSourceBit(p, members)
  BY ConstantResultSound DEF Cube
<1>5. ASSUME \A members \in Cube(absent, ones) : EvaluateSourceBit(p, members)
      PROVE  result = "true"
  <2>1. EvaluateSourceBit(p, ones) /\ \A r \in free : EvaluateSourceBit(p, ones \cup {r})
    BY <1>2, <1>5
  <2>2. CASE p.P \cap ones # {}
    BY <2>2 DEF ConstantResult
  <2>3. CASE p.P \cap ones = {}
    <3>1. p.N \cap ones = {} /\ (p.c \/ p.G \cap ones # {})
      BY <2>1, <2>3 DEF EvaluateSourceBit
    <3>2. (p.N \cap free) \ p.P = {}
      <4> SUFFICES ASSUME NEW r \in (p.N \cap free) \ p.P PROVE FALSE
        OBVIOUS
      <4>1. p.P \cap (ones \cup {r}) = {} /\ p.N \cap (ones \cup {r}) # {}
        BY <2>3
      <4> QED  BY <2>1, <4>1 DEF EvaluateSourceBit
    <3> QED  BY <3>1, <3>2 DEF ConstantResult
  <2> QED  BY <2>2, <2>3
<1>6. ASSUME \A members \in Cube(absent, ones) : ~EvaluateSourceBit(p, members)
      PROVE  result = "false"
  <2>1. ~EvaluateSourceBit(p, ones) /\ \A r \in free : ~EvaluateSourceBit(p, ones \cup {r})
    BY <1>2, <1>6
  <2>2. p.P \cap ones = {} /\ ~(p.N \cap ones = {} /\ (p.c \/ p.G \cap ones # {}))
    BY <2>1 DEF EvaluateSourceBit
  <2>3. p.P \cap free = {}
    <3> SUFFICES ASSUME NEW r \in p.P \cap free PROVE FALSE
      OBVIOUS
    <3> QED  BY <2>1 DEF EvaluateSourceBit
  <2>4. ~(p.N \cap ones = {} /\ (p.G \cap free) \ p.N # {})
    <3> SUFFICES ASSUME p.N \cap ones = {}, NEW r \in (p.G \cap free) \ p.N PROVE FALSE
      OBVIOUS
    <3>1. p.N \cap (ones \cup {r}) = {} /\ p.G \cap (ones \cup {r}) # {}
      OBVIOUS
    <3> QED  BY <2>1, <3>1 DEF EvaluateSourceBit
  <2> QED  BY <2>2, <2>3, <2>4 DEF ConstantResult
<1>7. result \in {"true", "false", Undecided}
  BY DEF ConstantResult
<1> QED  BY <1>3, <1>4, <1>5, <1>6, <1>7

\* A membership meets a term; the roles of a term are different ones.
MeetsOne(T, members) == \E t \in T : t[2] \subseteq members /\ members \cap t[1] = {}
Consistent(T) == \A t \in T : t[1] \subseteq Roles /\ t[2] \subseteq Roles /\ t[1] \cap t[2] = {}

With(A, B) == {<<A, {r}>> : r \in B}
Without(A) == {<<A, {}>>}

LEMMA TermSets ==
    ASSUME NEW A \in SUBSET Roles, NEW B \in SUBSET Roles, A \cap B = {}
    PROVE  /\ Consistent(With(A, B))
           /\ Consistent(Without(A))
           /\ \A members : MeetsOne(With(A, B), members)
                              <=> members \cap B # {} /\ members \cap A = {}
           /\ \A members : MeetsOne(Without(A), members) <=> members \cap A = {}
<1>1. \A t \in {<<A, {r}>> : r \in B} : \E r \in B : t[1] = A /\ t[2] = {r}
  OBVIOUS
<1>2. Consistent({<<A, {r}>> : r \in B})
  BY <1>1 DEF Consistent
<1>3. Consistent({<<A, {}>>})
  BY DEF Consistent
<1>4. ASSUME NEW members PROVE MeetsOne({<<A, {r}>> : r \in B}, members)
                              <=> members \cap B # {} /\ members \cap A = {}
  <2>1. ASSUME NEW r \in B, r \in members, members \cap A = {}
        PROVE  MeetsOne({<<A, {x}>> : x \in B}, members)
    <3>1. <<A, {r}>> \in {<<A, {x}>> : x \in B}
      OBVIOUS
    <3>2. <<A, {r}>>[1] = A /\ <<A, {r}>>[2] = {r}
      OBVIOUS
    <3>3. {r} \subseteq members
      BY <2>1
    <3> QED  BY <2>1, <3>1, <3>2, <3>3 DEF MeetsOne
  <2> QED  BY <1>1, <2>1 DEF MeetsOne
<1>5. ASSUME NEW members PROVE MeetsOne({<<A, {}>>}, members) <=> members \cap A = {}
  BY DEF MeetsOne
<1> QED  BY <1>2, <1>3, <1>4, <1>5 DEF With, Without

LEMMA TermUnion ==
    ASSUME NEW S, NEW T
    PROVE  /\ Consistent(S) /\ Consistent(T) => Consistent(S \cup T)
           /\ \A members : MeetsOne(S \cup T, members) <=> MeetsOne(S, members) \/ MeetsOne(T, members)
BY DEF Consistent, MeetsOne

\* The terms of a predicate cover the memberships that give the wanted answer.
LEMMA TermsExact ==
    ASSUME NEW p \in PredicateShape, NEW wanted \in BOOLEAN
    PROVE  /\ Consistent(PredicateTerms(p, wanted))
           /\ \A members \in SUBSET Roles :
                  (EvaluateSourceBit(p, members) <=> wanted) <=> MeetsOne(PredicateTerms(p, wanted), members)
<1>1. p.P \subseteq Roles /\ p.N \subseteq Roles /\ p.G \subseteq Roles /\ p.c \in BOOLEAN
  BY DEF PredicateShape
<1>2. PICK PosTerms : PosTerms = With({}, p.P)
  OBVIOUS
<1>3. PICK GrantTerms : GrantTerms = With(p.N, p.G \ p.N)
  OBVIOUS
<1>4. PICK NegTerms : NegTerms = With(p.P, p.N \ p.P)
  OBVIOUS
<1>5. PICK NoneTerms : NoneTerms = Without(p.N)
  OBVIOUS
<1>6. PICK LackTerms : LackTerms = Without(p.P \cup p.G)
  OBVIOUS
<1>12. Consistent(PosTerms) /\ \A M : MeetsOne(PosTerms, M) <=> M \cap p.P # {} /\ M \cap {} = {}
  <2>1. {} \in SUBSET Roles /\ p.P \in SUBSET Roles /\ {} \cap p.P = {}
    BY <1>1
  <2> QED  BY <1>2, <2>1, TermSets
<1>13. Consistent(GrantTerms) /\ \A M : MeetsOne(GrantTerms, M) <=> M \cap (p.G \ p.N) # {} /\ M \cap p.N = {}
  <2>1. p.N \in SUBSET Roles /\ (p.G \ p.N) \in SUBSET Roles /\ p.N \cap (p.G \ p.N) = {}
    BY <1>1
  <2> QED  BY <1>3, <2>1, TermSets
<1>14. Consistent(NegTerms) /\ \A M : MeetsOne(NegTerms, M) <=> M \cap (p.N \ p.P) # {} /\ M \cap p.P = {}
  <2>1. PICK A, B : A = p.P /\ B = p.N \ p.P
    OBVIOUS
  <2>2. A \in SUBSET Roles /\ B \in SUBSET Roles /\ A \cap B = {} /\ NegTerms = With(A, B)
    BY <1>1, <1>4, <2>1
  <2>3. Consistent(NegTerms) /\ \A M : MeetsOne(NegTerms, M) <=> M \cap B # {} /\ M \cap A = {}
    BY <2>2, TermSets
  <2> QED  BY <2>1, <2>3
<1>15. Consistent(NoneTerms) /\ \A M : MeetsOne(NoneTerms, M) <=> M \cap p.N = {}
  <2>1. p.N \in SUBSET Roles /\ {} \in SUBSET Roles /\ p.N \cap {} = {}
    BY <1>1
  <2> QED  BY <1>5, <2>1, TermSets
<1>16. Consistent(LackTerms) /\ \A M : MeetsOne(LackTerms, M) <=> M \cap (p.P \cup p.G) = {}
  <2>1. (p.P \cup p.G) \in SUBSET Roles /\ {} \in SUBSET Roles /\ (p.P \cup p.G) \cap {} = {}
    BY <1>1
  <2> QED  BY <1>6, <2>1, TermSets
<1>17. PredicateTerms(p, wanted) =
          IF wanted THEN PosTerms \cup (IF p.c THEN NoneTerms ELSE GrantTerms)
                    ELSE NegTerms \cup (IF p.c THEN {} ELSE LackTerms)
  BY <1>2, <1>3, <1>4, <1>5, <1>6 DEF PredicateTerms, With, Without
<1>18. Consistent({}) /\ \A M : ~MeetsOne({}, M)
  BY DEF Consistent, MeetsOne
<1>19. CASE wanted /\ p.c
  <2>1. PredicateTerms(p, wanted) = PosTerms \cup NoneTerms
    BY <1>17, <1>19
  <2>2. Consistent(PredicateTerms(p, wanted))
    BY <1>12, <1>15, <2>1, TermUnion
  <2>3. \A M : MeetsOne(PredicateTerms(p, wanted), M) <=> M \cap p.P # {} \/ M \cap p.N = {}
    BY <1>12, <1>15, <2>1, TermUnion
  <2>4. \A M \in SUBSET Roles : EvaluateSourceBit(p, M) <=> M \cap p.P # {} \/ M \cap p.N = {}
    BY <1>19 DEF EvaluateSourceBit
  <2> QED  BY <1>19, <2>2, <2>3, <2>4
<1>20. CASE wanted /\ ~p.c
  <2>1. PredicateTerms(p, wanted) = PosTerms \cup GrantTerms
    BY <1>17, <1>20
  <2>2. Consistent(PredicateTerms(p, wanted))
    BY <1>12, <1>13, <2>1, TermUnion
  <2>3. \A M : MeetsOne(PredicateTerms(p, wanted), M)
                  <=> M \cap p.P # {} \/ (M \cap (p.G \ p.N) # {} /\ M \cap p.N = {})
    <3>1. \A M : MeetsOne(PredicateTerms(p, wanted), M) <=> MeetsOne(PosTerms, M) \/ MeetsOne(GrantTerms, M)
      BY <2>1, TermUnion
    <3> QED  BY <1>12, <1>13, <3>1
  <2>4. \A M \in SUBSET Roles : EvaluateSourceBit(p, M)
                  <=> M \cap p.P # {} \/ (M \cap (p.G \ p.N) # {} /\ M \cap p.N = {})
    BY <1>20 DEF EvaluateSourceBit
  <2> QED  BY <1>20, <2>2, <2>3, <2>4
<1>21. CASE ~wanted /\ p.c
  <2>1. PredicateTerms(p, wanted) = NegTerms
    BY <1>17, <1>21
  <2>3. \A M : MeetsOne(PredicateTerms(p, wanted), M) <=> M \cap (p.N \ p.P) # {} /\ M \cap p.P = {}
    BY <1>14, <2>1
  <2>4. \A M \in SUBSET Roles : ~EvaluateSourceBit(p, M) <=> M \cap (p.N \ p.P) # {} /\ M \cap p.P = {}
    BY <1>21 DEF EvaluateSourceBit
  <2> QED  BY <1>14, <1>21, <2>1, <2>3, <2>4
<1>22. CASE ~wanted /\ ~p.c
  <2>1. PredicateTerms(p, wanted) = NegTerms \cup LackTerms
    BY <1>17, <1>22
  <2>2. Consistent(PredicateTerms(p, wanted))
    BY <1>14, <1>16, <2>1, TermUnion
  <2>3. \A M : MeetsOne(PredicateTerms(p, wanted), M)
                  <=> (M \cap (p.N \ p.P) # {} /\ M \cap p.P = {}) \/ M \cap (p.P \cup p.G) = {}
    BY <1>14, <1>16, <2>1, TermUnion
  <2>4. \A M \in SUBSET Roles : ~EvaluateSourceBit(p, M)
                  <=> (M \cap (p.N \ p.P) # {} /\ M \cap p.P = {}) \/ M \cap (p.P \cup p.G) = {}
    BY <1>22 DEF EvaluateSourceBit
  <2> QED  BY <1>22, <2>2, <2>3, <2>4
<1> QED  BY <1>1, <1>19, <1>20, <1>21, <1>22

-----------------------------------------------------------------------------
(* The search of _conjunction_possible, as the function it computes.         *)

Asked(conditions, n) ==
    /\ n \in Nat
    /\ DOMAIN conditions = 1..n
    /\ \A i \in 1..n : conditions[i][1] \in PredicateShape /\ conditions[i][2] \in BOOLEAN

\* One condition of a conjunction, and the rest of them.
Searched(conditions, rest, i, z, o) ==
    IF i > Cardinality(DOMAIN conditions) THEN TRUE
    ELSE LET p == conditions[i][1]
             wanted == conditions[i][2]
             constant == ConstantResult(p, z, o)
         IN IF constant # Undecided
            THEN constant = Answer(wanted) /\ rest[i + 1][z][o]
            ELSE \E t \in PredicateTerms(p, wanted) :
                    /\ z \cap t[2] = {} /\ o \cap t[1] = {}
                    /\ rest[i + 1][z \cup t[1]][o \cup t[2]]

Extended(conditions, rest) ==
    [i \in Nat \ {0} |-> [z \in SUBSET Roles |-> [o \in SUBSET Roles |->
        Searched(conditions, rest, i, z, o)]]]
Search(conditions) == CHOOSE possible : possible = Extended(conditions, possible)

LEMMA SearchIs ==
    ASSUME NEW conditions, NEW absent, NEW ones
    PROVE  ConjunctionPossible(conditions, absent, ones) = Search(conditions)[1][absent][ones]
BY SMT DEF ConjunctionPossible, Search, Extended, Searched

Tables == [Nat \ {0} -> [SUBSET Roles -> [SUBSET Roles -> BOOLEAN]]]

Solves(conditions, f, m) ==
    \A i \in Nat \ {0}, z \in SUBSET Roles, o \in SUBSET Roles :
        i >= m => f[i][z][o] = Searched(conditions, f, i, z, o)

LEMMA SearchedBoolean ==
    ASSUME NEW conditions, NEW n, Asked(conditions, n), NEW f,
           NEW i \in Nat \ {0}, NEW z \in SUBSET Roles, NEW o \in SUBSET Roles
    PROVE  Searched(conditions, f, i, z, o) \in BOOLEAN
<1>1. Cardinality(DOMAIN conditions) = n
  BY FS_Interval DEF Asked
<1>2. CASE i > n
  BY <1>1, <1>2 DEF Searched
<1>3. CASE ~(i > n)
  <2> QED  BY <1>1, <1>3 DEF Searched
<1> QED  BY <1>2, <1>3 DEF Asked

\* What a search makes of a cube depends only on the conditions after it.
LEMMA SearchedLater ==
    ASSUME NEW conditions, NEW n, Asked(conditions, n), NEW f \in Tables, NEW g \in Tables,
           NEW i \in Nat \ {0}, f[i + 1] = g[i + 1],
           NEW z \in SUBSET Roles, NEW o \in SUBSET Roles
    PROVE  Searched(conditions, f, i, z, o) = Searched(conditions, g, i, z, o)
BY DEF Searched

LEMMA SolvesAfter ==
    ASSUME NEW conditions, NEW n, Asked(conditions, n)
    PROVE  \E f \in Tables : Solves(conditions, f, n + 1)
<1>1. Cardinality(DOMAIN conditions) = n
  BY FS_Interval DEF Asked
<1> DEFINE f == [i \in Nat \ {0} |-> [z \in SUBSET Roles |-> [o \in SUBSET Roles |-> TRUE]]]
<1>2. f \in Tables
  BY DEF Tables
<1>3. ASSUME NEW i \in Nat \ {0}, NEW z \in SUBSET Roles, NEW o \in SUBSET Roles, i >= n + 1
      PROVE  f[i][z][o] = Searched(conditions, f, i, z, o)
  <2>1. i > n
    BY <1>3 DEF Asked
  <2> QED  BY <1>1, <2>1 DEF Searched
<1>4. Solves(conditions, f, n + 1)
  BY <1>3 DEF Solves
<1> QED  BY <1>2, <1>4

LEMMA SolvesBefore ==
    ASSUME NEW conditions, NEW n, Asked(conditions, n), NEW m \in Nat \ {0},
           \E f \in Tables : Solves(conditions, f, m + 1)
    PROVE  \E f \in Tables : Solves(conditions, f, m)
<1>1. PICK f \in Tables : Solves(conditions, f, m + 1)
  OBVIOUS
<1> DEFINE row == [z \in SUBSET Roles |-> [o \in SUBSET Roles |-> Searched(conditions, f, m, z, o)]]
           g == [f EXCEPT ![m] = row]
<1>2. row \in [SUBSET Roles -> [SUBSET Roles -> BOOLEAN]]
  BY SearchedBoolean
<1>3. g \in Tables
  BY <1>2 DEF Tables
<1>4. \A i \in Nat \ {0} : i # m => g[i] = f[i]
  BY DEF Tables
<1>5. g[m] = row
  BY DEF Tables
<1> HIDE DEF g
<1>6. ASSUME NEW i \in Nat \ {0}, NEW z \in SUBSET Roles, NEW o \in SUBSET Roles, i >= m
      PROVE  g[i][z][o] = Searched(conditions, g, i, z, o)
  <2>1. g[i + 1] = f[i + 1]
    BY <1>4, <1>6
  <2>2. Searched(conditions, g, i, z, o) = Searched(conditions, f, i, z, o)
    BY <1>3, <2>1, SearchedLater
  <2>3. CASE i = m
    BY <1>5, <2>2, <2>3
  <2>4. CASE i # m
    <3>1. i >= m + 1
      BY <1>6, <2>4
    <3> QED  BY <1>1, <1>4, <2>2, <2>4, <3>1 DEF Solves
  <2> QED  BY <2>3, <2>4
<1>7. Solves(conditions, g, m)
  BY <1>6 DEF Solves
<1> QED  BY <1>3, <1>7

LEMMA SearchSolves ==
    ASSUME NEW conditions, NEW n, Asked(conditions, n)
    PROVE  Search(conditions) \in Tables /\ Solves(conditions, Search(conditions), 1)
<1> DEFINE Bad == {k \in Nat : k <= n /\ ~\E f \in Tables : Solves(conditions, f, n + 1 - k)}
<1>1. n \in Nat
  BY DEF Asked
<1>2. Bad = {}
  <2> SUFFICES ASSUME Bad # {} PROVE FALSE
    OBVIOUS
  <2>1. PICK k \in Bad : \A y \in Bad : k <= y
    BY LeastNumber
  <2>2. k # 0
    BY <1>1, SolvesAfter
  <2>3. k - 1 \in Nat /\ k - 1 <= n /\ k - 1 \notin Bad
    BY <1>1, <2>1, <2>2
  <2>4. PICK m : m = n + 1 - k
    OBVIOUS
  <2>5. m \in Nat \ {0} /\ n + 1 - (k - 1) = m + 1
    BY <1>1, <2>1, <2>2, <2>4
  <2>6. \E f \in Tables : Solves(conditions, f, m + 1)
    BY <2>3, <2>5
  <2>7. \E f \in Tables : Solves(conditions, f, m)
    BY <2>5, <2>6, SolvesBefore
  <2> QED  BY <2>1, <2>4, <2>7
<1>3. PICK f \in Tables : Solves(conditions, f, 1)
  <2>1. n \in Nat /\ n <= n /\ n \notin Bad
    BY <1>1, <1>2
  <2>2. n + 1 - n = 1
    BY <1>1
  <2> QED  BY <2>1, <2>2
<1>4. f = Extended(conditions, f)
  <2>1. ASSUME NEW i \in Nat \ {0}
        PROVE  f[i] = [z \in SUBSET Roles |-> [o \in SUBSET Roles |-> Searched(conditions, f, i, z, o)]]
    <3>1. ASSUME NEW z \in SUBSET Roles
          PROVE  f[i][z] = [o \in SUBSET Roles |-> Searched(conditions, f, i, z, o)]
      <4>1. f[i][z] = [o \in SUBSET Roles |-> f[i][z][o]]
        BY DEF Tables
      <4>2. \A o \in SUBSET Roles : f[i][z][o] = Searched(conditions, f, i, z, o)
        <5>1. i >= 1
          OBVIOUS
        <5> QED  BY <1>3, <5>1 DEF Solves
      <4> QED  BY <4>1, <4>2
    <3>2. f[i] = [z \in SUBSET Roles |-> f[i][z]]
      BY DEF Tables
    <3> QED  BY <3>1, <3>2
  <2>2. f = [i \in Nat \ {0} |-> f[i]]
    BY DEF Tables
  <2> QED  BY <2>1, <2>2 DEF Extended
<1>5. PICK s : s = Search(conditions)
  OBVIOUS
<1>6. s = Extended(conditions, s)
  BY <1>4, <1>5, Zenon DEF Search
<1>7. \A i \in Nat \ {0}, z \in SUBSET Roles, o \in SUBSET Roles :
          s[i][z][o] = Searched(conditions, s, i, z, o)
  BY <1>6 DEF Extended
<1>8. s \in Tables
  <2>1. \A i \in Nat \ {0}, z \in SUBSET Roles, o \in SUBSET Roles :
            Searched(conditions, s, i, z, o) \in BOOLEAN
    BY SearchedBoolean
  <2>2. Extended(conditions, s) \in Tables
    BY <2>1 DEF Extended, Tables
  <2> QED  BY <1>6, <2>2
<1> QED  BY <1>5, <1>7, <1>8 DEF Solves

\* A membership gives the answer of a condition.
Meets(condition, members) == EvaluateSourceBit(condition[1], members) <=> condition[2]

Found(conditions, n, i) ==
    \A z \in SUBSET Roles, o \in SUBSET Roles :
        z \cap o = {} => (Search(conditions)[i][z][o]
                            <=> \E members \in Cube(z, o) : \A j \in i..n : Meets(conditions[j], members))

LEMMA CubeSome ==
    ASSUME NEW z \in SUBSET Roles, NEW o \in SUBSET Roles, z \cap o = {}
    PROVE  o \in Cube(z, o)
BY DEF Cube

LEMMA FoundAfter ==
    ASSUME NEW conditions, NEW n, Asked(conditions, n)
    PROVE  Found(conditions, n, n + 1)
<1>1. n \in Nat /\ Cardinality(DOMAIN conditions) = n
  BY FS_Interval DEF Asked
<1>2. ASSUME NEW z \in SUBSET Roles, NEW o \in SUBSET Roles, z \cap o = {}
      PROVE  Search(conditions)[n + 1][z][o]
               <=> \E members \in Cube(z, o) : \A j \in (n + 1)..n : Meets(conditions[j], members)
  <2>1. n + 1 \in Nat \ {0} /\ n + 1 >= 1 /\ n + 1 > n /\ (n + 1)..n = {}
    BY <1>1
  <2>2. Search(conditions)[n + 1][z][o] = Searched(conditions, Search(conditions), n + 1, z, o)
    BY <2>1, SearchSolves DEF Solves
  <2>3. Searched(conditions, Search(conditions), n + 1, z, o) = TRUE
    BY <1>1, <2>1 DEF Searched
  <2>4. \E members \in Cube(z, o) : TRUE
    BY <1>2, CubeSome
  <2> QED  BY <2>1, <2>2, <2>3, <2>4
<1> QED  BY <1>2 DEF Found

LEMMA FoundBefore ==
    ASSUME NEW conditions, NEW n, Asked(conditions, n), NEW m \in 1..n, Found(conditions, n, m + 1)
    PROVE  Found(conditions, n, m)
<1>1. n \in Nat /\ m \in Nat \ {0} /\ m >= 1 /\ ~(m > n) /\ Cardinality(DOMAIN conditions) = n
  BY FS_Interval DEF Asked
<1>2. PICK p, wanted : p = conditions[m][1] /\ wanted = conditions[m][2]
  OBVIOUS
<1>3. p \in PredicateShape /\ wanted \in BOOLEAN
  BY <1>2 DEF Asked
<1>4. PICK s : s = Search(conditions)
  OBVIOUS
<1>5. \A j : j \in m..n <=> j = m \/ j \in (m + 1)..n
  BY <1>1
<1>6. \A M : Meets(conditions[m], M) <=> (EvaluateSourceBit(p, M) <=> wanted)
  BY <1>2 DEF Meets
<1>7. \A M : (\A j \in m..n : Meets(conditions[j], M))
               <=> (EvaluateSourceBit(p, M) <=> wanted) /\ \A j \in (m + 1)..n : Meets(conditions[j], M)
  BY <1>5, <1>6
<1> DEFINE Rest(M) == \A j \in (m + 1)..n : Meets(conditions[j], M)
<1>8. ASSUME NEW z \in SUBSET Roles, NEW o \in SUBSET Roles, z \cap o = {}
      PROVE  s[m + 1][z][o] <=> \E M \in Cube(z, o) : Rest(M)
  BY <1>4, <1>8 DEF Found
<1> HIDE DEF Rest
<1>9. ASSUME NEW z \in SUBSET Roles, NEW o \in SUBSET Roles, z \cap o = {}
      PROVE  s[m][z][o] <=> \E M \in Cube(z, o) : (EvaluateSourceBit(p, M) <=> wanted) /\ Rest(M)
  <2>1. s[m][z][o] = Searched(conditions, s, m, z, o)
    BY <1>1, <1>4, SearchSolves DEF Solves
  <2>2. PICK constant : constant = ConstantResult(p, z, o)
    OBVIOUS
  <2>3. /\ constant \in {"true", "false", Undecided}
        /\ constant = "true" <=> \A M \in Cube(z, o) : EvaluateSourceBit(p, M)
        /\ constant = "false" <=> \A M \in Cube(z, o) : ~EvaluateSourceBit(p, M)
    BY <1>3, <1>9, <2>2, ConstantResultExact
  <2>4. CASE constant # Undecided
    <3>1. Searched(conditions, s, m, z, o) = (constant = Answer(wanted) /\ s[m + 1][z][o])
      BY <1>1, <1>2, <2>2, <2>4 DEF Searched
    <3>2. constant = Answer(wanted) => \A M \in Cube(z, o) : EvaluateSourceBit(p, M) <=> wanted
      BY <1>3, <2>3 DEF Answer
    <3>3. constant # Answer(wanted) => \A M \in Cube(z, o) : ~(EvaluateSourceBit(p, M) <=> wanted)
      BY <1>3, <2>3, <2>4 DEF Answer
    <3>4. s[m + 1][z][o] <=> \E M \in Cube(z, o) : Rest(M)
      BY <1>8, <1>9
    <3> QED  BY <2>1, <3>1, <3>2, <3>3, <3>4
  <2>5. CASE constant = Undecided
    <3>1. Searched(conditions, s, m, z, o)
            = \E t \in PredicateTerms(p, wanted) :
                 /\ z \cap t[2] = {} /\ o \cap t[1] = {}
                 /\ s[m + 1][z \cup t[1]][o \cup t[2]]
      BY <1>1, <1>2, <2>2, <2>5 DEF Searched
    <3>2. Consistent(PredicateTerms(p, wanted))
      BY <1>3, TermsExact
    <3>3. \A M \in SUBSET Roles :
             (EvaluateSourceBit(p, M) <=> wanted) <=> MeetsOne(PredicateTerms(p, wanted), M)
      BY <1>3, TermsExact
    <3>4. ASSUME NEW t \in PredicateTerms(p, wanted), z \cap t[2] = {}, o \cap t[1] = {}
          PROVE  /\ s[m + 1][z \cup t[1]][o \cup t[2]] <=> \E M \in Cube(z \cup t[1], o \cup t[2]) : Rest(M)
                 /\ \A M : M \in Cube(z \cup t[1], o \cup t[2])
                              <=> M \in Cube(z, o) /\ t[2] \subseteq M /\ M \cap t[1] = {}
      <4>1. t[1] \subseteq Roles /\ t[2] \subseteq Roles /\ t[1] \cap t[2] = {}
        BY <3>2 DEF Consistent
      <4>2. PICK z1, o1 : z1 = z \cup t[1] /\ o1 = o \cup t[2]
        OBVIOUS
      <4>3. z1 \in SUBSET Roles /\ o1 \in SUBSET Roles /\ z1 \cap o1 = {}
        BY <1>9, <3>4, <4>1, <4>2
      <4>4. s[m + 1][z1][o1] <=> \E M \in Cube(z1, o1) : Rest(M)
        BY <1>8, <4>3
      <4>5. \A M : M \in Cube(z1, o1) <=> M \in Cube(z, o) /\ t[2] \subseteq M /\ M \cap t[1] = {}
        BY <4>2 DEF Cube
      <4> QED  BY <4>2, <4>4, <4>5
    <3>5. ASSUME NEW t \in PredicateTerms(p, wanted), z \cap t[2] = {}, o \cap t[1] = {},
                 s[m + 1][z \cup t[1]][o \cup t[2]]
          PROVE  \E M \in Cube(z, o) : (EvaluateSourceBit(p, M) <=> wanted) /\ Rest(M)
      <4>1. PICK M \in Cube(z \cup t[1], o \cup t[2]) : Rest(M)
        BY <3>4, <3>5
      <4>2. M \in Cube(z, o) /\ t[2] \subseteq M /\ M \cap t[1] = {}
        BY <3>4, <3>5
      <4>3. M \in SUBSET Roles /\ MeetsOne(PredicateTerms(p, wanted), M)
        BY <4>2 DEF Cube, MeetsOne
      <4> QED  BY <3>3, <4>1, <4>2, <4>3
    <3>6. ASSUME NEW M \in Cube(z, o), EvaluateSourceBit(p, M) <=> wanted, Rest(M)
          PROVE  \E t \in PredicateTerms(p, wanted) :
                    /\ z \cap t[2] = {} /\ o \cap t[1] = {}
                    /\ s[m + 1][z \cup t[1]][o \cup t[2]]
      <4>1. M \in SUBSET Roles /\ o \subseteq M /\ M \cap z = {}
        BY DEF Cube
      <4>2. MeetsOne(PredicateTerms(p, wanted), M)
        BY <3>3, <3>6, <4>1
      <4>3. PICK t \in PredicateTerms(p, wanted) : t[2] \subseteq M /\ M \cap t[1] = {}
        BY <4>2 DEF MeetsOne
      <4>4. z \cap t[2] = {} /\ o \cap t[1] = {}
        BY <4>1, <4>3
      <4>5. s[m + 1][z \cup t[1]][o \cup t[2]]
        BY <3>4, <3>6, <4>3, <4>4
      <4> QED  BY <4>4, <4>5
    <3> QED  BY <2>1, <3>1, <3>5, <3>6
  <2> QED  BY <2>4, <2>5
<1>10. \A M : (\A j \in m..n : Meets(conditions[j], M)) <=> (EvaluateSourceBit(p, M) <=> wanted) /\ Rest(M)
  BY <1>7 DEF Rest
<1> QED  BY <1>4, <1>9, <1>10 DEF Found

\* The search finds a membership exactly when there is one: it is the question
\* that visible_bit_query asks about the members who see the channel.
THEOREM SearchExact ==
    ASSUME NEW conditions, NEW n, Asked(conditions, n),
           NEW absent \in SUBSET Roles, NEW ones \in SUBSET Roles, absent \cap ones = {}
    PROVE  /\ ConjunctionPossible(conditions, absent, ones) \in BOOLEAN
           /\ ConjunctionPossible(conditions, absent, ones)
                <=> \E members \in Cube(absent, ones) : \A i \in 1..n : Meets(conditions[i], members)
<1> DEFINE Bad == {k \in Nat : k <= n /\ ~Found(conditions, n, n + 1 - k)}
<1>1. n \in Nat
  BY DEF Asked
<1>2. Bad = {}
  <2> SUFFICES ASSUME Bad # {} PROVE FALSE
    OBVIOUS
  <2>1. PICK k \in Bad : \A y \in Bad : k <= y
    BY LeastNumber
  <2>2. k # 0
    BY <1>1, FoundAfter
  <2>3. k - 1 \in Nat /\ k - 1 <= n /\ k - 1 \notin Bad
    BY <1>1, <2>1, <2>2
  <2>4. PICK m : m = n + 1 - k
    OBVIOUS
  <2>5. m \in 1..n /\ n + 1 - (k - 1) = m + 1
    BY <1>1, <2>1, <2>2, <2>4
  <2>6. Found(conditions, n, m + 1)
    BY <2>3, <2>5
  <2>7. Found(conditions, n, m)
    BY <2>5, <2>6, FoundBefore
  <2> QED  BY <2>1, <2>4, <2>7
<1>3. Found(conditions, n, 1)
  <2>1. n \in Nat /\ n <= n /\ n \notin Bad
    BY <1>1, <1>2
  <2>2. n + 1 - n = 1
    BY <1>1
  <2> QED  BY <2>1, <2>2
<1>4. PICK s : s = Search(conditions)
  OBVIOUS
<1>5. s[1][absent][ones] \in BOOLEAN
  BY <1>4, SearchSolves DEF Tables
<1>6. ConjunctionPossible(conditions, absent, ones) = s[1][absent][ones]
  BY <1>4, SearchIs
<1>7. s[1][absent][ones]
        <=> \E members \in Cube(absent, ones) : \A i \in 1..n : Meets(conditions[i], members)
  BY <1>3, <1>4 DEF Found
<1> QED  BY <1>5, <1>6, <1>7

-----------------------------------------------------------------------------
(* The queries about some members.                                           *)

LEMMA AllowedExact ==
    ASSUME NEW ps \in SUBSET PredicateShape, IsFiniteSet(ps)
    PROVE  /\ Cardinality(ps) \in Nat
           /\ DOMAIN Allowed(ps) = 1..Cardinality(ps)
           /\ \A i \in 1..Cardinality(ps) : Allowed(ps)[i][1] \in ps /\ Allowed(ps)[i][2] = TRUE
           /\ \A p \in ps : \E i \in 1..Cardinality(ps) : Allowed(ps)[i][1] = p
<1>1. PICK n : n = Cardinality(ps)
  OBVIOUS
<1>2. n \in Nat /\ ExistsBijection(1..n, ps)
  BY <1>1, FS_CardinalityType
<1>3. PICK f \in [1..n -> ps] : \A i, j \in DOMAIN f : f[i] = f[j] => i = j
  BY <1>2 DEF ExistsBijection, Bijection, Injection, IsInjective
<1>4. PICK order : order = CHOOSE s \in [1..n -> ps] : \A i, j \in DOMAIN s : s[i] = s[j] => i = j
  OBVIOUS
<1>5. order \in [1..n -> ps] /\ \A i, j \in DOMAIN order : order[i] = order[j] => i = j
  BY <1>3, <1>4
<1>6. order \in Injection(1..n, ps)
  BY <1>5 DEF Injection, IsInjective
<1>7. Cardinality(1..n) = n
  BY <1>2, FS_Interval
<1>8. order \in Surjection(1..n, ps)
  BY <1>1, <1>6, <1>7, FS_Injection
<1>9. Allowed(ps) = [i \in 1..n |-> <<order[i], TRUE>>]
  BY <1>1, <1>4, <1>5 DEF Allowed
<1> QED  BY <1>1, <1>2, <1>5, <1>8, <1>9 DEF Surjection

\* Some member of the cube has v and everything of ps.
LEMMA FirstAndAll ==
    ASSUME NEW ps \in SUBSET PredicateShape, IsFiniteSet(ps), NEW v \in PredicateShape,
           NEW absent \in SUBSET Roles, NEW ones \in SUBSET Roles, absent \cap ones = {}
    PROVE  LET possible == ConjunctionPossible(
                   [i \in 1..(Cardinality(ps) + 1) |->
                       IF i = 1 THEN <<v, TRUE>> ELSE Allowed(ps)[i - 1]],
                   absent, ones)
           IN  /\ possible \in BOOLEAN
               /\ possible <=> \E M \in Cube(absent, ones) :
                      EvaluateSourceBit(v, M) /\ \A p \in ps : EvaluateSourceBit(p, M)
<1>1. PICK n : n = Cardinality(ps)
  OBVIOUS
<1>2. /\ n \in Nat /\ DOMAIN Allowed(ps) = 1..n
      /\ \A i \in 1..n : Allowed(ps)[i][1] \in ps /\ Allowed(ps)[i][2] = TRUE
      /\ \A p \in ps : \E i \in 1..n : Allowed(ps)[i][1] = p
  BY <1>1, AllowedExact
<1>3. PICK q : q = [i \in 1..(n + 1) |-> IF i = 1 THEN <<v, TRUE>> ELSE Allowed(ps)[i - 1]]
  OBVIOUS
<1>4. DOMAIN q = 1..(n + 1) /\ q[1][1] = v /\ q[1][2] = TRUE
  BY <1>2, <1>3
<1>5. \A i \in 1..n : q[i + 1] = Allowed(ps)[i]
  <2> TAKE i \in 1..n
  <2>1. i + 1 \in 1..(n + 1) /\ i + 1 # 1 /\ i + 1 - 1 = i
    BY <1>2
  <2> QED  BY <1>3, <2>1
<1>6. \A i \in 1..(n + 1) : i = 1 \/ \E j \in 1..n : i = j + 1
  <2> TAKE i \in 1..(n + 1)
  <2>1. i # 1 => i - 1 \in 1..n /\ i = (i - 1) + 1
    BY <1>2
  <2> QED  BY <2>1
<1>7. Asked(q, n + 1)
  <2>1. \A i \in 1..(n + 1) : q[i][1] \in PredicateShape /\ q[i][2] \in BOOLEAN
    <3>1. q[1][1] \in PredicateShape /\ q[1][2] \in BOOLEAN
      BY <1>4
    <3>2. \A j \in 1..n : q[j + 1][1] \in PredicateShape /\ q[j + 1][2] \in BOOLEAN
      BY <1>2, <1>5
    <3> QED  BY <1>6, <3>1, <3>2
  <2> QED  BY <1>2, <1>4, <2>1 DEF Asked
<1>8. \A M : (\A i \in 1..(n + 1) : Meets(q[i], M))
               <=> EvaluateSourceBit(v, M) /\ \A p \in ps : EvaluateSourceBit(p, M)
  <2> TAKE M
  <2>1. Meets(q[1], M) <=> EvaluateSourceBit(v, M)
    BY <1>4 DEF Meets
  <2>2. \A i \in 1..n : Meets(q[i + 1], M) <=> EvaluateSourceBit(Allowed(ps)[i][1], M)
    BY <1>2, <1>5 DEF Meets
  <2>3. 1 \in 1..(n + 1) /\ \A i \in 1..n : i + 1 \in 1..(n + 1)
    BY <1>2
  <2>4. (\A i \in 1..(n + 1) : Meets(q[i], M))
          <=> EvaluateSourceBit(v, M) /\ \A i \in 1..n : EvaluateSourceBit(Allowed(ps)[i][1], M)
    BY <1>6, <2>1, <2>2, <2>3
  <2> QED  BY <1>2, <2>4
<1>9. /\ ConjunctionPossible(q, absent, ones) \in BOOLEAN
      /\ ConjunctionPossible(q, absent, ones)
           <=> \E M \in Cube(absent, ones) : \A i \in 1..(n + 1) : Meets(q[i], M)
  BY <1>2, <1>7, SearchExact
<1> QED  BY <1>1, <1>3, <1>8, <1>9

\* Some member has everything of ps and not d.
LEMMA AllButLast ==
    ASSUME NEW ps \in SUBSET PredicateShape, IsFiniteSet(ps), NEW d \in PredicateShape
    PROVE  ConjunctionPossible(
               [i \in 1..(Cardinality(ps) + 1) |->
                   IF i <= Cardinality(ps) THEN Allowed(ps)[i] ELSE <<d, FALSE>>],
               {}, {})
             <=> \E M \in SUBSET Roles :
                    ~EvaluateSourceBit(d, M) /\ \A p \in ps : EvaluateSourceBit(p, M)
<1>1. PICK n : n = Cardinality(ps)
  OBVIOUS
<1>2. /\ n \in Nat /\ DOMAIN Allowed(ps) = 1..n
      /\ \A i \in 1..n : Allowed(ps)[i][1] \in ps /\ Allowed(ps)[i][2] = TRUE
      /\ \A p \in ps : \E i \in 1..n : Allowed(ps)[i][1] = p
  BY <1>1, AllowedExact
<1>3. PICK q : q = [i \in 1..(n + 1) |-> IF i <= n THEN Allowed(ps)[i] ELSE <<d, FALSE>>]
  OBVIOUS
<1>4. DOMAIN q = 1..(n + 1) /\ q[n + 1][1] = d /\ q[n + 1][2] = FALSE
  <2>1. n + 1 \in 1..(n + 1) /\ ~(n + 1 <= n)
    BY <1>2
  <2> QED  BY <1>3, <2>1
<1>5. \A i \in 1..n : q[i] = Allowed(ps)[i]
  <2> TAKE i \in 1..n
  <2>1. i \in 1..(n + 1) /\ i <= n
    BY <1>2
  <2> QED  BY <1>3, <2>1
<1>6. \A i : i \in 1..(n + 1) <=> i = n + 1 \/ i \in 1..n
  BY <1>2
<1>7. Asked(q, n + 1)
  <2>1. \A i \in 1..(n + 1) : q[i][1] \in PredicateShape /\ q[i][2] \in BOOLEAN
    BY <1>2, <1>4, <1>5, <1>6
  <2> QED  BY <1>2, <1>4, <2>1 DEF Asked
<1>8. \A M : (\A i \in 1..(n + 1) : Meets(q[i], M))
               <=> ~EvaluateSourceBit(d, M) /\ \A p \in ps : EvaluateSourceBit(p, M)
  <2> TAKE M
  <2>1. Meets(q[n + 1], M) <=> ~EvaluateSourceBit(d, M)
    BY <1>4 DEF Meets
  <2>2. \A i \in 1..n : Meets(q[i], M) <=> EvaluateSourceBit(Allowed(ps)[i][1], M)
    BY <1>2, <1>5 DEF Meets
  <2>4. (\A i \in 1..(n + 1) : Meets(q[i], M))
          <=> ~EvaluateSourceBit(d, M) /\ \A i \in 1..n : EvaluateSourceBit(Allowed(ps)[i][1], M)
    BY <1>6, <2>1, <2>2
  <2> QED  BY <1>2, <2>4
<1>9. ConjunctionPossible(q, {}, {})
        <=> \E M \in Cube({}, {}) : \A i \in 1..(n + 1) : Meets(q[i], M)
  BY <1>2, <1>7, SearchExact
<1>10. Cube({}, {}) = SUBSET Roles
  BY DEF Cube
<1> QED  BY <1>1, <1>3, <1>8, <1>9, <1>10

\* Some member of the cube has v and not d.
LEMMA FirstNotSecond ==
    ASSUME NEW v \in PredicateShape, NEW d \in PredicateShape,
           NEW absent \in SUBSET Roles, NEW ones \in SUBSET Roles, absent \cap ones = {}
    PROVE  ConjunctionPossible(<< <<v, TRUE>>, <<d, FALSE>> >>, absent, ones)
             <=> \E M \in Cube(absent, ones) : EvaluateSourceBit(v, M) /\ ~EvaluateSourceBit(d, M)
<1>1. PICK a, b : a = <<v, TRUE>> /\ b = <<d, FALSE>>
  OBVIOUS
<1>2. PICK q : q = <<a, b>>
  OBVIOUS
<1>3. DOMAIN q = 1..2 /\ q[1] = a /\ q[2] = b
  BY <1>2
<1>4. a[1] = v /\ a[2] = TRUE /\ b[1] = d /\ b[2] = FALSE
  BY <1>1
<1>5. \A i : i \in 1..2 <=> i = 1 \/ i = 2
  OBVIOUS
<1>6. \A i \in 1..2 : q[i][1] \in PredicateShape /\ q[i][2] \in BOOLEAN
  BY <1>3, <1>4, <1>5
<1>7. Asked(q, 2)
  BY <1>3, <1>6 DEF Asked
<1>8. \A M : (\A i \in 1..2 : Meets(q[i], M)) <=> EvaluateSourceBit(v, M) /\ ~EvaluateSourceBit(d, M)
  <2> TAKE M
  <2>1. Meets(a, M) <=> EvaluateSourceBit(v, M)
    BY <1>4 DEF Meets
  <2>2. Meets(b, M) <=> ~EvaluateSourceBit(d, M)
    BY <1>4 DEF Meets
  <2> QED  BY <1>3, <1>5, <2>1, <2>2
<1>9. ConjunctionPossible(q, absent, ones)
        <=> \E M \in Cube(absent, ones) : \A i \in 1..2 : Meets(q[i], M)
  BY <1>7, SearchExact
<1> QED  BY <1>1, <1>2, <1>8, <1>9

-----------------------------------------------------------------------------
(* The members who see the channel and those who have the bit.               *)

Bits == {"view", "send", "attach", "threadsend"}
Seers(facts) == {members \in SUBSET Roles :
    input.bit = "view" \/ EvaluateSourceBit(Predicate(facts, "view"), members)}
Holders(facts) == {members \in SUBSET Roles :
    \A b \in Required(input.bit) : EvaluateSourceBit(Predicate(facts, b), members)}

LEMMA InputFacts ==
    ASSUME input \in InputShape
    PROVE  /\ input.bit \in {"view", "send", "attach"}
           /\ Managed \subseteq Roles /\ Ordinary \subseteq Roles
           /\ input.admins \subseteq Roles \cup {EveryoneRole}
           /\ input.facts \in SourceFacts /\ input.other \in SourceFacts
           /\ \A facts \in SourceFacts, b \in Bits : facts[b] \in Facts
           /\ Required(input.bit) \subseteq Bits
           /\ input.thread \in BOOLEAN /\ input.members \in BOOLEAN
           /\ input.grants \subseteq Roles
BY DEF InputShape, Managed, Ordinary, SourceFacts, Bits, Required

LEMMA FormedShape ==
    ASSUME input \in InputShape, NEW f \in Facts
    PROVE  FormSourceBit(input.admins, f) \in PredicateShape
<1>1. f.everyone \in BOOLEAN /\ f.guilds \subseteq Roles /\ f.allows \subseteq Roles /\ f.denies \subseteq Roles
  BY DEF Facts
<1>2. CASE EveryoneRole \in input.admins
  BY <1>2 DEF FormSourceBit, PredicateShape
<1>3. CASE EveryoneRole \notin input.admins
  <2>1. /\ (input.admins \cap Roles) \cup f.allows \in SUBSET Roles
        /\ f.denies \in SUBSET Roles
        /\ (IF f.cell = Neutral THEN f.guilds ELSE {}) \in SUBSET Roles
        /\ ((f.everyone /\ f.cell # Deny) \/ f.cell = Allow) \in BOOLEAN
    BY <1>1
  <2> QED  BY <1>3, <2>1 DEF FormSourceBit, PredicateShape
<1> QED  BY <1>2, <1>3

LEMMA PredicateType ==
    ASSUME input \in InputShape, NEW facts \in SourceFacts, NEW b \in Bits
    PROVE  Predicate(facts, b) \in PredicateShape
<1>1. PICK p : p = FormSourceBit(input.admins, facts[b])
  OBVIOUS
<1>2. p \in PredicateShape
  BY <1>1, InputFacts, FormedShape
<1>3. Mask(p) \in PredicateShape
  BY <1>2 DEF Mask, PredicateShape
<1> QED  BY <1>1, <1>2, <1>3 DEF Predicate

\* A managed role that changes nothing can be taken out of a predicate.
LEMMA MaskExact ==
    ASSUME NEW p \in PredicateShape, NEW members \in SUBSET Roles,
           \A r \in Managed : ~SourceRoleChangesBit(p, r)
    PROVE  EvaluateSourceBit(Mask(p), members) <=> EvaluateSourceBit(p, members)
<1>1. p.P \subseteq Roles /\ p.N \subseteq Roles /\ p.G \subseteq Roles /\ p.c \in BOOLEAN
  BY DEF PredicateShape
<1>2. /\ Mask(p).P = p.P \ Managed /\ Mask(p).N = p.N \ Managed
      /\ Mask(p).G = p.G \ Managed /\ Mask(p).c = p.c
  BY DEF Mask, PredicateShape
<1>3. CASE \E r \in Managed : r \in p.P
  <2>1. p.c /\ p.N \subseteq p.P
    BY <1>3 DEF SourceRoleChangesBit
  <2>2. EvaluateSourceBit(p, members)
    BY <2>1 DEF EvaluateSourceBit
  <2>3. EvaluateSourceBit(Mask(p), members)
    BY <1>2, <2>1 DEF EvaluateSourceBit
  <2> QED  BY <2>2, <2>3
<1>4. CASE p.P \cap Managed = {} /\ \E r \in Managed : r \in p.N \ p.P
  <2>1. ~p.c /\ p.G \subseteq p.P \cup p.N
    BY <1>4 DEF SourceRoleChangesBit
  <2>2. EvaluateSourceBit(p, members) <=> p.P \cap members # {}
    BY <2>1 DEF EvaluateSourceBit
  <2>3. p.P \ Managed = p.P
    BY <1>4
  <2>4. (p.G \ Managed) \subseteq p.P \cup (p.N \ Managed)
    BY <2>1
  <2>5. EvaluateSourceBit(Mask(p), members) <=> p.P \cap members # {}
    BY <1>2, <2>1, <2>3, <2>4 DEF EvaluateSourceBit
  <2> QED  BY <2>2, <2>5
<1>5. CASE p.P \cap Managed = {} /\ p.N \cap Managed = {}
  <2>1. p.P \ Managed = p.P /\ p.N \ Managed = p.N
    BY <1>5
  <2>2. CASE p.c
    BY <1>2, <2>1, <2>2 DEF EvaluateSourceBit
  <2>3. CASE ~p.c
    <3>1. p.G \cap Managed = {}
      BY <1>5, <2>3 DEF SourceRoleChangesBit
    <3>2. p.G \ Managed = p.G
      BY <3>1
    <3> QED  BY <1>2, <2>1, <3>2 DEF EvaluateSourceBit
  <2> QED  BY <2>2, <2>3
<1> QED  BY <1>3, <1>4, <1>5

\* The predicates of selected facts, masked or not, say what Discord gives.
LEMMA PredicateExact ==
    ASSUME input \in InputShape, NEW facts \in SourceFacts, ResolveSelectedPredicates(facts),
           NEW b \in Bits, NEW members \in SUBSET Roles
    PROVE  EvaluateSourceBit(Predicate(facts, b), members) <=> SourceAllows(facts[b], members)
<1>1. PICK p : p = FormSourceBit(input.admins, facts[b])
  OBVIOUS
<1>2. facts[b] \in Facts /\ input.admins \subseteq Roles \cup {EveryoneRole}
  BY InputFacts
<1>3. p \in PredicateShape
  BY <1>1, <1>2, FormedShape
<1>4. EvaluateSourceBit(p, members) <=> SourceAllows(facts[b], members)
  BY <1>1, <1>2, FormedExactly
<1>5. CASE ~input.thread
  BY <1>1, <1>4, <1>5 DEF Predicate
<1>6. CASE input.thread
  <2>1. FormCheckedPredicates(facts, {"threadsend", "send", "view", "attach"})
    BY <1>6 DEF ResolveSelectedPredicates, ResolvePublicThreadScope
  <2>2. b \in {"threadsend", "send", "view", "attach"}
    BY DEF Bits
  <2>3. \A r \in Managed : ~SourceRoleChangesBit(p, r)
    BY <1>1, <2>1, <2>2 DEF FormCheckedPredicates, ManagedRoleChanges
  <2>4. EvaluateSourceBit(Mask(p), members) <=> EvaluateSourceBit(p, members)
    BY <1>3, <2>3, MaskExact
  <2> QED  BY <1>1, <1>4, <1>6, <2>4 DEF Predicate
<1> QED  BY <1>5, <1>6

LEMMA SourceExact ==
    ASSUME input \in InputShape, NEW facts \in SourceFacts, ResolveSelectedPredicates(facts),
           NEW members \in SUBSET Roles
    PROVE  /\ members \in Seers(facts) <=> (input.bit = "view" \/ SourceAllows(facts["view"], members))
           /\ members \in Holders(facts) <=> \A b \in Needed : SourceAllows(facts[b], members)
<1>1. "view" \in Bits /\ "send" \in Bits /\ "threadsend" \in Bits /\ Required(input.bit) \subseteq Bits
  BY InputFacts DEF Bits
<1>2. members \in Seers(facts) <=> (input.bit = "view" \/ SourceAllows(facts["view"], members))
  BY <1>1, PredicateExact DEF Seers
<1>3. members \in Holders(facts) <=> \A b \in Required(input.bit) : SourceAllows(facts[b], members)
  BY <1>1, PredicateExact DEF Holders
<1>4. CASE ~input.thread
  <2>1. Needed = Required(input.bit)
    BY <1>4 DEF Needed
  <2> QED  BY <1>2, <1>3, <2>1
<1>5. CASE input.thread
  <2>1. Predicate(facts, "threadsend") = Predicate(facts, "send")
    BY <1>5 DEF ResolveSelectedPredicates, ResolvePublicThreadScope
  <2>2. SourceAllows(facts["threadsend"], members) <=> SourceAllows(facts["send"], members)
    <3>1. EvaluateSourceBit(Predicate(facts, "threadsend"), members) <=> SourceAllows(facts["threadsend"], members)
      BY <1>1, PredicateExact
    <3>2. EvaluateSourceBit(Predicate(facts, "send"), members) <=> SourceAllows(facts["send"], members)
      BY <1>1, PredicateExact
    <3> QED  BY <2>1, <3>1, <3>2
  <2>3. Needed = {IF b = "send" THEN "threadsend" ELSE b : b \in Required(input.bit)}
    BY <1>5 DEF Needed
  <2>4. (\A b \in Needed : SourceAllows(facts[b], members))
          <=> \A b \in Required(input.bit) : SourceAllows(facts[IF b = "send" THEN "threadsend" ELSE b], members)
    BY <2>3
  <2>5. \A b \in Required(input.bit) :
            SourceAllows(facts[IF b = "send" THEN "threadsend" ELSE b], members)
              <=> SourceAllows(facts[b], members)
    BY <2>2
  <2> QED  BY <1>2, <1>3, <2>4, <2>5
<1> QED  BY <1>4, <1>5

LEMMA RequiredShape ==
    ASSUME input \in InputShape, NEW facts \in SourceFacts
    PROVE  /\ {Predicate(facts, b) : b \in {"view"}} \in SUBSET PredicateShape
           /\ IsFiniteSet({Predicate(facts, b) : b \in {"view"}})
           /\ {Predicate(facts, b) : b \in Required(input.bit)} \in SUBSET PredicateShape
           /\ IsFiniteSet({Predicate(facts, b) : b \in Required(input.bit)})
           /\ {Predicate(facts, b) : b \in {"view"} \cup Required(input.bit)} \in SUBSET PredicateShape
           /\ IsFiniteSet({Predicate(facts, b) : b \in {"view"} \cup Required(input.bit)})
<1>1. ASSUME NEW x \in Bits, NEW y \in Bits, NEW z \in Bits
      PROVE  /\ {Predicate(facts, b) : b \in {x, y, z}} \in SUBSET PredicateShape
             /\ IsFiniteSet({Predicate(facts, b) : b \in {x, y, z}})
  <2>1. {Predicate(facts, b) : b \in {x, y, z}}
          = ({Predicate(facts, x)} \cup {Predicate(facts, y)}) \cup {Predicate(facts, z)}
    OBVIOUS
  <2>2. IsFiniteSet({Predicate(facts, x)})
    BY FS_Singleton
  <2>3. IsFiniteSet({Predicate(facts, x)} \cup {Predicate(facts, y)})
    BY <2>2, FS_AddElement
  <2>4. IsFiniteSet(({Predicate(facts, x)} \cup {Predicate(facts, y)}) \cup {Predicate(facts, z)})
    BY <2>3, FS_AddElement
  <2>5. {Predicate(facts, b) : b \in {x, y, z}} \in SUBSET PredicateShape
    BY PredicateType
  <2> QED  BY <2>1, <2>4, <2>5
<1>2. PICK bit : bit = input.bit
  OBVIOUS
<1>3. bit \in Bits /\ "send" \in Bits /\ "view" \in Bits
  BY <1>2, InputFacts DEF Bits
<1>4. {"view"} = {"view", "view", "view"}
  OBVIOUS
<1>5. /\ Required(bit) = {bit, bit, bit} \/ Required(bit) = {bit, "send", "send"}
      /\ \/ {"view"} \cup Required(bit) = {"view", bit, bit}
         \/ {"view"} \cup Required(bit) = {"view", bit, "send"}
  BY DEF Required
<1>6. /\ {Predicate(facts, b) : b \in {"view"}} \in SUBSET PredicateShape
      /\ IsFiniteSet({Predicate(facts, b) : b \in {"view"}})
  BY <1>1, <1>3, <1>4
<1>7. /\ {Predicate(facts, b) : b \in Required(bit)} \in SUBSET PredicateShape
      /\ IsFiniteSet({Predicate(facts, b) : b \in Required(bit)})
  <2>1. CASE Required(bit) = {bit, bit, bit}
    BY <1>1, <1>3, <2>1
  <2>2. CASE Required(bit) = {bit, "send", "send"}
    BY <1>1, <1>3, <2>2
  <2> QED  BY <1>5, <2>1, <2>2
<1>8. /\ {Predicate(facts, b) : b \in {"view"} \cup Required(bit)} \in SUBSET PredicateShape
      /\ IsFiniteSet({Predicate(facts, b) : b \in {"view"} \cup Required(bit)})
  <2>1. CASE {"view"} \cup Required(bit) = {"view", bit, bit}
    BY <1>1, <1>3, <2>1
  <2>2. CASE {"view"} \cup Required(bit) = {"view", bit, "send"}
    BY <1>1, <1>3, <2>2
  <2> QED  BY <1>5, <2>1, <2>2
<1> QED  BY <1>2, <1>6, <1>7, <1>8

Query(dflt, granting, absent, ones, hidden) ==
    IF input.bit = "view" THEN ConstantResult(View, absent, ones)
    ELSE VisibleBitQuery(RequiredPredicates, dflt, granting, absent, ones, hidden)

\* What the answer to a query says about the members of the cube: a constant
\* answer is right of all who see the channel, no answer means that there are
\* both, and where nobody sees it the default or the wanted answer is given.
LEMMA QueryExact ==
    ASSUME input \in InputShape, NEW dflt \in BOOLEAN, NEW granting \in SUBSET Roles,
           NEW absent \in SUBSET Roles, NEW ones \in SUBSET Roles, absent \cap ones = {}, NEW hidden,
           NEW answer, answer = Query(dflt, granting, absent, ones, hidden),
           NEW viewers, viewers = Cube(absent, ones) \cap Seers(input.facts)
    PROVE  /\ answer = Undecided =>
                 /\ viewers \cap Holders(input.facts) # {} /\ ~(viewers \subseteq Holders(input.facts))
           /\ answer # Undecided /\ viewers # {} =>
                 \/ answer = "true" /\ viewers \subseteq Holders(input.facts)
                 \/ answer = "false" /\ viewers \cap Holders(input.facts) = {}
           /\ viewers = {} => answer = (IF hidden # Undecided THEN hidden
                                     ELSE Answer(dflt \/ granting \cap ones # {}))
<1> DEFINE S == Seers(input.facts)
           H == Holders(input.facts)
<1>1. input.facts \in SourceFacts /\ "view" \in Bits /\ ones \in Cube(absent, ones)
  BY InputFacts, CubeSome DEF Bits
<1>2. View \in PredicateShape
  BY <1>1, PredicateType DEF View
<1>3. Cube(absent, ones) \subseteq SUBSET Roles
  BY DEF Cube
<1>4. CASE input.bit = "view"
  <2>1. answer = ConstantResult(View, absent, ones)
    BY <1>4 DEF Query
  <2>2. viewers = Cube(absent, ones)
    BY <1>3, <1>4 DEF Seers
  <2>3. Required(input.bit) = {"view"}
    BY <1>4 DEF Required
  <2>4. \A M \in Cube(absent, ones) : M \in H <=> EvaluateSourceBit(View, M)
    BY <1>3, <2>3 DEF Holders, View
  <2>5. /\ answer \in {"true", "false", Undecided}
        /\ answer = "true" <=> \A M \in Cube(absent, ones) : EvaluateSourceBit(View, M)
        /\ answer = "false" <=> \A M \in Cube(absent, ones) : ~EvaluateSourceBit(View, M)
    BY <1>2, <2>1, ConstantResultExact
  <2>6. answer = "true" <=> viewers \subseteq H
    BY <2>2, <2>4, <2>5
  <2>7. answer = "false" <=> viewers \cap H = {}
    BY <2>2, <2>4, <2>5
  <2>8. viewers # {}
    BY <1>1, <2>2
  <2>9. "true" # Undecided /\ "false" # Undecided
    BY DEF Undecided
  <2> QED  BY <2>5, <2>6, <2>7, <2>8, <2>9
<1>5. CASE input.bit # "view"
  <2> DEFINE q == [i \in 1..(Cardinality(RequiredPredicates) + 1) |->
                      IF i = 1 THEN <<View, TRUE>> ELSE Allowed(RequiredPredicates)[i - 1]]
             allow == ConjunctionPossible(q, absent, ones)
             deny == \E p \in RequiredPredicates :
                         ConjunctionPossible(<< <<View, TRUE>>, <<p, FALSE>> >>, absent, ones)
  <2>1. RequiredPredicates \in SUBSET PredicateShape /\ IsFiniteSet(RequiredPredicates)
    BY <1>1, RequiredShape DEF RequiredPredicates
  <2>2. answer = (CASE allow /\ deny -> Undecided
                    [] allow # deny -> Answer(allow)
                    [] OTHER -> IF hidden # Undecided THEN hidden
                                ELSE Answer(dflt \/ granting \cap ones # {}))
    BY <1>5 DEF Query, VisibleBitQuery
  <2>3. \A M \in Cube(absent, ones) : M \in S <=> EvaluateSourceBit(View, M)
    BY <1>3, <1>5 DEF Seers, View
  <2>4. \A M \in Cube(absent, ones) : M \in H <=> \A p \in RequiredPredicates : EvaluateSourceBit(p, M)
    BY <1>3 DEF Holders, RequiredPredicates
  <2>5. allow <=> \E M \in Cube(absent, ones) :
                      EvaluateSourceBit(View, M) /\ \A p \in RequiredPredicates : EvaluateSourceBit(p, M)
    BY <1>2, <2>1, FirstAndAll
  <2>6. allow <=> viewers \cap H # {}
    BY <2>3, <2>4, <2>5
  <2>7. deny <=> \E p \in RequiredPredicates : \E M \in Cube(absent, ones) :
                      EvaluateSourceBit(View, M) /\ ~EvaluateSourceBit(p, M)
    BY <1>2, <2>1, FirstNotSecond
  <2>8. deny <=> ~(viewers \subseteq H)
    BY <2>3, <2>4, <2>7
  <2> HIDE DEF allow, deny
  <2>9. allow \in BOOLEAN /\ deny \in BOOLEAN
    BY <1>2, <2>1, FirstAndAll DEF allow, deny
  <2>10. CASE allow /\ deny
    <3>1. answer = Undecided
      BY <2>2, <2>10
    <3> QED  BY <2>6, <2>8, <2>10, <3>1
  <2>11. CASE allow /\ ~deny
    <3>1. answer = Answer(TRUE)
      BY <2>2, <2>9, <2>11
    <3> QED  BY <2>6, <2>8, <2>11, <3>1 DEF Answer, Undecided
  <2>12. CASE ~allow /\ deny
    <3>1. answer = Answer(FALSE)
      BY <2>2, <2>9, <2>12
    <3> QED  BY <2>6, <2>8, <2>12, <3>1 DEF Answer, Undecided
  <2>13. CASE ~allow /\ ~deny
    <3>1. answer = IF hidden # Undecided THEN hidden ELSE Answer(dflt \/ granting \cap ones # {})
      BY <2>2, <2>9, <2>13
    <3>2. viewers = {}
      BY <2>6, <2>8, <2>13
    <3>3. Answer(dflt \/ granting \cap ones # {}) # Undecided
      BY DEF Answer, Undecided
    <3>4. answer # Undecided
      BY <3>1, <3>3
    <3> QED  BY <3>1, <3>2, <3>4
  <2> QED  BY <2>10, <2>11, <2>12, <2>13
<1> QED  BY <1>4, <1>5

\* With the wanted answer for the members nobody sees, the query decides whether
\* all members of the cube have it.
LEMMA QueryWanted ==
    ASSUME input \in InputShape, NEW dflt \in BOOLEAN, NEW granting \in SUBSET Roles,
           NEW absent \in SUBSET Roles, NEW ones \in SUBSET Roles, absent \cap ones = {},
           NEW wanted \in BOOLEAN
    PROVE  Query(dflt, granting, absent, ones, Answer(wanted)) = Answer(wanted)
             <=> \A M \in Cube(absent, ones) \cap Seers(input.facts) :
                     M \in Holders(input.facts) <=> wanted
<1>1. PICK answer, viewers : /\ answer = Query(dflt, granting, absent, ones, Answer(wanted))
                          /\ viewers = Cube(absent, ones) \cap Seers(input.facts)
  OBVIOUS
<1>2. Answer(wanted) # Undecided /\ "true" # "false"
  BY DEF Answer, Undecided
<1>3. /\ answer = Undecided =>
            /\ viewers \cap Holders(input.facts) # {} /\ ~(viewers \subseteq Holders(input.facts))
      /\ answer # Undecided /\ viewers # {} =>
            \/ answer = "true" /\ viewers \subseteq Holders(input.facts)
            \/ answer = "false" /\ viewers \cap Holders(input.facts) = {}
      /\ viewers = {} => answer = Answer(wanted)
  BY <1>1, <1>2, QueryExact
<1>4. CASE wanted
  <2>1. Answer(wanted) = "true"
    BY <1>4 DEF Answer
  <2> QED  BY <1>1, <1>2, <1>3, <1>4, <2>1
<1>5. CASE ~wanted
  <2>1. Answer(wanted) = "false"
    BY <1>5 DEF Answer
  <2> QED  BY <1>1, <1>2, <1>3, <1>5, <2>1
<1> QED  BY <1>4, <1>5

-----------------------------------------------------------------------------
(* What an encoding gives, cube by cube: the members whose highest overridden *)
(* role is r, and the members without an overridden role.                    *)

Higher(D, r) == {x \in D : x > r}
CellsRight(facts, D, cells, gone) ==
    \A r \in D : \A M \in Cube(Higher(D, r) \cup gone, {r}) \cap Seers(facts) :
        M \in Holders(facts) <=> cells[r] = Allow
RestRight(facts, D, granting, dflt, gone) ==
    \A M \in Cube(D \cup gone, {}) \cap Seers(facts) :
        M \in Holders(facts) <=> dflt \/ granting \cap M # {}

\* A valid calculation has a target without effects of its own.
Given(cells, granting, dflt, M) ==
    LET decided == Overridden(cells) \cap M
    IN IF decided # {}
       THEN \E r \in decided : decided \cap Above(r) = {} /\ cells[r] = Allow
       ELSE dflt \/ granting \cap M # {}

LEMMA GivenTarget ==
    ASSUME ~TargetEffects, NEW cells, NEW dflt \in BOOLEAN, NEW granting \in SUBSET Ordinary,
           NEW M \in SUBSET Roles, NEW foreign
    PROVE  TargetAllows(cells, granting, dflt, M \ Managed, foreign) <=> Given(cells, granting, dflt, M)
<1>1. input.native = Neutral /\ input.denies = {}
  BY DEF TargetEffects
<1>2. Overridden(cells) \cap (M \ Managed) = Overridden(cells) \cap M
  BY DEF Overridden, Ordinary
<1>3. granting \cap (M \ Managed) = granting \cap M
  BY DEF Ordinary
<1> QED  BY <1>1, <1>2, <1>3 DEF TargetAllows, Given

LEMMA GivenByCell ==
    ASSUME NEW cells, NEW granting, NEW dflt \in BOOLEAN, NEW gone \in SUBSET Roles, NEW r \in Overridden(cells),
           NEW M \in Cube(Higher(Overridden(cells), r) \cup gone, {r})
    PROVE  Given(cells, granting, dflt, M) <=> cells[r] = Allow
<1>1. PICK D : D = Overridden(cells)
  OBVIOUS
<1>2. D \subseteq Ordinary /\ D \subseteq Roles
  BY <1>1 DEF Overridden, Ordinary
<1>3. r \in D /\ r \in M /\ \A x \in D \cap M : ~(x > r)
  BY <1>1 DEF Cube, Higher
<1>4. \A x \in D : x \in Int
  BY <1>2, RoleCountAssumption DEF Roles
<1>5. (D \cap M) \cap Above(r) = {}
  BY <1>3 DEF Above
<1>6. ASSUME NEW x \in D \cap M, (D \cap M) \cap Above(x) = {} PROVE x = r
  <2>1. ~(r > x)
    BY <1>2, <1>3, <1>6 DEF Above
  <2> QED  BY <1>3, <1>4, <2>1
<1> QED  BY <1>1, <1>3, <1>5, <1>6 DEF Given

LEMMA CubesCover ==
    ASSUME NEW D \in SUBSET Roles, NEW gone \in SUBSET Roles, NEW M \in SUBSET (Roles \ gone)
    PROVE  M \in Cube(D \cup gone, {}) \/ \E r \in D : M \in Cube(Higher(D, r) \cup gone, {r})
<1>1. CASE D \cap M = {}
  BY <1>1 DEF Cube
<1>2. CASE D \cap M # {}
  <2>1. PICK r \in D \cap M : \A x \in D \cap M : ~(x > r)
    BY <1>2, HighestRole
  <2>2. M \in Cube(Higher(D, r) \cup gone, {r})
    BY <2>1 DEF Cube, Higher
  <2> QED  BY <2>1, <2>2
<1> QED  BY <1>1, <1>2

\* An encoding is exact when it is right in each of its cubes.
LEMMA ExactMeans ==
    ASSUME input \in InputShape, ~TargetEffects, NEW facts \in SourceFacts,
           ResolveSelectedPredicates(facts), ~input.members,
           NEW cells, NEW granting \in SUBSET Ordinary, NEW dflt \in BOOLEAN, NEW gone \in SUBSET Roles
    PROVE  Exact(facts, cells, granting, dflt, gone)
             <=> /\ CellsRight(facts, Overridden(cells), cells, gone)
                 /\ RestRight(facts, Overridden(cells), granting, dflt, gone)
<1> DEFINE D == Overridden(cells)
           Fit(M) == M \in Holders(facts) <=> Given(cells, granting, dflt, M)
<1>1. D \in SUBSET Roles
  BY DEF Overridden, Ordinary
<1>2. Exact(facts, cells, granting, dflt, gone)
        <=> \A M \in SUBSET (Roles \ gone) : M \in Seers(facts) => Fit(M)
  <2>1. \A M \in SUBSET (Roles \ gone) : M \in SUBSET Roles
    OBVIOUS
  <2>2. \A M \in SUBSET (Roles \ gone), foreign \in BOOLEAN :
            TargetAllows(cells, granting, dflt, M \ Managed, foreign) <=> Given(cells, granting, dflt, M)
    BY <2>1, GivenTarget
  <2>3. \A M \in SUBSET (Roles \ gone) :
            /\ M \in Seers(facts) <=> (input.bit = "view" \/ SourceAllows(facts["view"], M))
            /\ M \in Holders(facts) <=> \A b \in Needed : SourceAllows(facts[b], M)
    BY <2>1, SourceExact
  <2>4. BOOLEAN # {}
    OBVIOUS
  <2>5. ASSUME NEW M \in SUBSET (Roles \ gone), NEW foreign \in BOOLEAN
        PROVE  (input.bit = "view" \/ SourceAllows(facts["view"], M) =>
                   (TargetAllows(cells, granting, dflt, M \ Managed, foreign)
                      <=> \A b \in Needed : SourceAllows(facts[b], M)))
               <=> (M \in Seers(facts) => Fit(M))
    <3>1. TargetAllows(cells, granting, dflt, M \ Managed, foreign) <=> Given(cells, granting, dflt, M)
      BY <2>2
    <3>2. M \in Seers(facts) <=> (input.bit = "view" \/ SourceAllows(facts["view"], M))
      BY <2>3
    <3>3. M \in Holders(facts) <=> \A b \in Needed : SourceAllows(facts[b], M)
      BY <2>3
    <3> QED  BY <3>1, <3>2, <3>3
  <2> HIDE DEF Fit
  <2> QED  BY <2>4, <2>5 DEF Exact
<1>3. Seers(facts) \subseteq SUBSET Roles
  BY DEF Seers
<1>4. ASSUME NEW r \in D, NEW M \in Cube(Higher(D, r) \cup gone, {r})
      PROVE  M \in SUBSET (Roles \ gone) /\ (Fit(M) <=> (M \in Holders(facts) <=> cells[r] = Allow))
  <2>1. M \in SUBSET (Roles \ gone)
    BY DEF Cube
  <2>2. Given(cells, granting, dflt, M) <=> cells[r] = Allow
    BY GivenByCell
  <2> QED  BY <2>1, <2>2
<1>5. ASSUME NEW M \in Cube(D \cup gone, {})
      PROVE  M \in SUBSET (Roles \ gone)
             /\ (Fit(M) <=> (M \in Holders(facts) <=> dflt \/ granting \cap M # {}))
  <2>1. M \in SUBSET (Roles \ gone)
    BY DEF Cube
  <2>2. Given(cells, granting, dflt, M) <=> dflt \/ granting \cap M # {}
    <3>1. D \cap M = {}
      BY DEF Cube
    <3> QED  BY <3>1 DEF Given
  <2> QED  BY <2>1, <2>2
<1>6. \A M \in SUBSET (Roles \ gone) :
          M \in Cube(D \cup gone, {}) \/ \E r \in D : M \in Cube(Higher(D, r) \cup gone, {r})
  BY <1>1, CubesCover
<1> HIDE DEF D, Fit
<1>7. (\A M \in SUBSET (Roles \ gone) : M \in Seers(facts) => Fit(M))
        <=> /\ CellsRight(facts, D, cells, gone)
            /\ RestRight(facts, D, granting, dflt, gone)
  <2>1. ASSUME \A M \in SUBSET (Roles \ gone) : M \in Seers(facts) => Fit(M)
        PROVE  CellsRight(facts, D, cells, gone) /\ RestRight(facts, D, granting, dflt, gone)
    BY <1>4, <1>5, <2>1 DEF CellsRight, RestRight
  <2>2. ASSUME CellsRight(facts, D, cells, gone), RestRight(facts, D, granting, dflt, gone),
               NEW M \in SUBSET (Roles \ gone), M \in Seers(facts)
        PROVE  Fit(M)
    <3>1. CASE M \in Cube(D \cup gone, {})
      BY <1>5, <2>2, <3>1 DEF RestRight
    <3>2. CASE \E r \in D : M \in Cube(Higher(D, r) \cup gone, {r})
      BY <1>4, <2>2, <3>2 DEF CellsRight
    <3> QED  BY <1>6, <3>1, <3>2
  <2> QED  BY <2>1, <2>2
<1> QED  BY <1>2, <1>7 DEF D

-----------------------------------------------------------------------------
(* The comparisons with a fallback, and with a whole encoding, are exact.    *)

\* All members of a cube who see the channel have the bit, or none has it.
Uniform(facts, absent, ones, wanted) ==
    \A M \in Cube(absent, ones) \cap Seers(facts) : M \in Holders(facts) <=> wanted

RestUniform(facts, D, granting, dflt, gone) ==
    IF dflt THEN Uniform(facts, D \cup gone, {}, TRUE)
    ELSE /\ Uniform(facts, (D \cup granting) \cup gone, {}, FALSE)
         /\ \A r \in granting \ D : Uniform(facts, D \cup gone, {r}, TRUE)

LEMMA RestByCubes ==
    ASSUME NEW facts, NEW D \in SUBSET Roles, NEW gone \in SUBSET Roles,
           NEW granting \in SUBSET Roles, NEW dflt \in BOOLEAN
    PROVE  RestRight(facts, D, granting, dflt, gone) <=> RestUniform(facts, D, granting, dflt, gone)
<1>1. CASE dflt
  BY <1>1 DEF RestRight, RestUniform, Uniform
<1>2. CASE ~dflt
  <2>1. \A M : M \in Cube((D \cup granting) \cup gone, {})
                  <=> M \in Cube(D \cup gone, {}) /\ granting \cap M = {}
    BY DEF Cube
  <2>2. \A r \in granting \ D : \A M : M \in Cube(D \cup gone, {r})
                  <=> M \in Cube(D \cup gone, {}) /\ r \in M
    BY DEF Cube
  <2>3. \A M \in Cube(D \cup gone, {}) : granting \cap M # {} => \E r \in granting \ D : r \in M
    BY DEF Cube
  <2>4. ASSUME RestRight(facts, D, granting, dflt, gone)
        PROVE  /\ Uniform(facts, (D \cup granting) \cup gone, {}, FALSE)
               /\ \A r \in granting \ D : Uniform(facts, D \cup gone, {r}, TRUE)
    <3>1. Uniform(facts, (D \cup granting) \cup gone, {}, FALSE)
      BY <1>2, <2>1, <2>4 DEF RestRight, Uniform
    <3>2. ASSUME NEW r \in granting \ D PROVE Uniform(facts, D \cup gone, {r}, TRUE)
      BY <1>2, <2>2, <2>4 DEF RestRight, Uniform
    <3> QED  BY <3>1, <3>2
  <2>5. ASSUME Uniform(facts, (D \cup granting) \cup gone, {}, FALSE),
               \A r \in granting \ D : Uniform(facts, D \cup gone, {r}, TRUE)
        PROVE  RestRight(facts, D, granting, dflt, gone)
    <3>1. ASSUME NEW M \in Cube(D \cup gone, {}) \cap Seers(facts)
          PROVE  M \in Holders(facts) <=> granting \cap M # {}
      <4>1. CASE granting \cap M = {}
        BY <2>1, <2>5, <4>1 DEF Uniform
      <4>2. CASE granting \cap M # {}
        <5>1. PICK r \in granting \ D : r \in M
          BY <2>3, <4>2
        <5>2. M \in Cube(D \cup gone, {r}) \cap Seers(facts)
          BY <2>2, <5>1
        <5> QED  BY <2>5, <4>2, <5>2 DEF Uniform
      <4> QED  BY <4>1, <4>2
    <3> QED  BY <1>2, <3>1 DEF RestRight
  <2> QED  BY <1>2, <2>4, <2>5 DEF RestUniform
<1> QED  BY <1>1, <1>2

\* The query that is compared with the wanted answer.
Agrees(dflt, granting, gone, absent, ones, wanted) ==
    \/ ones \cap gone # {}
    \/ IF input.bit = "view"
       THEN ConstantResult(View, absent \cup gone, ones) = wanted
       ELSE VisibleBitQuery(RequiredPredicates, dflt, granting, absent \cup gone, ones, wanted) = wanted

LEMMA AgreesExact ==
    ASSUME input \in InputShape, NEW dflt \in BOOLEAN, NEW granting \in SUBSET Roles,
           NEW gone \in SUBSET Roles, NEW absent \in SUBSET Roles, NEW ones \in SUBSET Roles,
           absent \cap ones = {}, NEW wanted \in BOOLEAN
    PROVE  Agrees(dflt, granting, gone, absent, ones, Answer(wanted))
             <=> Uniform(input.facts, absent \cup gone, ones, wanted)
<1>1. CASE ones \cap gone # {}
  <2>1. Cube(absent \cup gone, ones) = {}
    BY <1>1 DEF Cube
  <2> QED  BY <1>1, <2>1 DEF Agrees, Uniform
<1>2. CASE ones \cap gone = {}
  <2>1. PICK away : away = absent \cup gone
    OBVIOUS
  <2>2. away \in SUBSET Roles /\ away \cap ones = {}
    BY <1>2, <2>1
  <2>3. Query(dflt, granting, away, ones, Answer(wanted)) = Answer(wanted)
          <=> Uniform(input.facts, away, ones, wanted)
    BY <2>2, QueryWanted DEF Uniform
  <2>4. Agrees(dflt, granting, gone, absent, ones, Answer(wanted))
          <=> Query(dflt, granting, away, ones, Answer(wanted)) = Answer(wanted)
    BY <1>2, <2>1 DEF Agrees, Query
  <2> QED  BY <2>1, <2>3, <2>4
<1> QED  BY <1>1, <1>2

\* The readback accepts an encoding when it is right in each of its cubes.
LEMMA MatchesExact ==
    ASSUME input \in InputShape, NEW cells \in [Roles -> Cells], NEW granting \in SUBSET Roles,
           NEW dflt \in BOOLEAN, NEW gone \in SUBSET Roles
    PROVE  MatchesSourceAccess(cells, granting, dflt, gone)
             <=> /\ CellsRight(input.facts, Overridden(cells), cells, gone)
                 /\ RestRight(input.facts, Overridden(cells), granting, dflt, gone)
<1>1. PICK D : D = Overridden(cells)
  OBVIOUS
<1>2. D \in SUBSET Roles /\ \A r \in D : D \cap Above(r) = Higher(D, r)
  BY <1>1 DEF Overridden, Ordinary, Above, Higher
<1>3. Answer(TRUE) = "true" /\ Answer(FALSE) = "false"
  BY DEF Answer
<1>4. MatchesSourceAccess(cells, granting, dflt, gone)
        <=> /\ \A r \in D : Agrees(dflt, granting, gone, D \cap Above(r), {r}, Answer(cells[r] = Allow))
            /\ IF dflt THEN Agrees(dflt, granting, gone, D, {}, Answer(TRUE))
               ELSE /\ Agrees(dflt, granting, gone, D \cup granting, {}, Answer(FALSE))
                    /\ \A r \in granting \ D : Agrees(dflt, granting, gone, D, {r}, Answer(TRUE))
  BY <1>1, <1>3 DEF MatchesSourceAccess, EncodingMatches, FallbackMatches, Agrees
<1>5. ASSUME NEW r \in D
      PROVE  Agrees(dflt, granting, gone, D \cap Above(r), {r}, Answer(cells[r] = Allow))
               <=> Uniform(input.facts, Higher(D, r) \cup gone, {r}, cells[r] = Allow)
  <2>1. RoleCount \in Nat /\ r \in Int /\ ~(r > r)
    BY <1>2, RoleCountAssumption DEF Roles
  <2>2. Higher(D, r) \in SUBSET Roles /\ {r} \in SUBSET Roles /\ Higher(D, r) \cap {r} = {}
    BY <1>2, <2>1 DEF Higher
  <2>3. PICK wanted \in BOOLEAN : wanted = (cells[r] = Allow)
    OBVIOUS
  <2>4. Agrees(dflt, granting, gone, Higher(D, r), {r}, Answer(wanted))
          <=> Uniform(input.facts, Higher(D, r) \cup gone, {r}, wanted)
    BY <2>2, AgreesExact
  <2> QED  BY <1>2, <2>3, <2>4
<1>6. Agrees(dflt, granting, gone, D, {}, Answer(TRUE)) <=> Uniform(input.facts, D \cup gone, {}, TRUE)
  BY <1>2, AgreesExact
<1>7. Agrees(dflt, granting, gone, D \cup granting, {}, Answer(FALSE))
        <=> Uniform(input.facts, (D \cup granting) \cup gone, {}, FALSE)
  <2>1. PICK away : away = D \cup granting
    OBVIOUS
  <2>2. away \in SUBSET Roles
    BY <1>2, <2>1
  <2>3. Agrees(dflt, granting, gone, away, {}, Answer(FALSE)) <=> Uniform(input.facts, away \cup gone, {}, FALSE)
    BY <2>2, AgreesExact
  <2> QED  BY <2>1, <2>3
<1>8. ASSUME NEW r \in granting \ D
      PROVE  Agrees(dflt, granting, gone, D, {r}, Answer(TRUE)) <=> Uniform(input.facts, D \cup gone, {r}, TRUE)
  <2>1. {r} \in SUBSET Roles /\ D \cap {r} = {}
    OBVIOUS
  <2> QED  BY <1>2, <2>1, AgreesExact
<1>9. CellsRight(input.facts, D, cells, gone)
        <=> \A r \in D : Uniform(input.facts, Higher(D, r) \cup gone, {r}, cells[r] = Allow)
  BY DEF CellsRight, Uniform
<1>10. RestRight(input.facts, D, granting, dflt, gone) <=> RestUniform(input.facts, D, granting, dflt, gone)
  BY <1>2, RestByCubes
<1>11. (\A r \in D : Agrees(dflt, granting, gone, D \cap Above(r), {r}, Answer(cells[r] = Allow)))
         <=> CellsRight(input.facts, D, cells, gone)
  BY <1>5, <1>9
<1>12. (IF dflt THEN Agrees(dflt, granting, gone, D, {}, Answer(TRUE))
        ELSE /\ Agrees(dflt, granting, gone, D \cup granting, {}, Answer(FALSE))
             /\ \A r \in granting \ D : Agrees(dflt, granting, gone, D, {r}, Answer(TRUE)))
         <=> RestRight(input.facts, D, granting, dflt, gone)
  BY <1>6, <1>7, <1>8, <1>10 DEF RestUniform
<1> QED  BY <1>1, <1>4, <1>11, <1>12

\* A synthesis fits when the grants and the default are right where no override decides.
LEMMA FitsExact ==
    ASSUME input \in InputShape, zeros \in SUBSET Roles, grants \in SUBSET Roles, base \in BOOLEAN
    PROVE  Fits <=> RestRight(input.facts, zeros, grants, base, {})
<1>1. Fits <=> IF base THEN Ask(zeros, {}) = "true"
               ELSE /\ Ask(zeros \cup grants, {}) = "false"
                    /\ \A r \in grants \ zeros : Ask(zeros, {r}) = "true"
  BY DEF Fits, FallbackMatches
<1>2. ASSUME NEW absent \in SUBSET Roles, NEW ones \in SUBSET Roles, absent \cap ones = {},
             NEW wanted \in BOOLEAN, wanted <=> base \/ grants \cap ones # {}
      PROVE  Ask(absent, ones) = Answer(wanted) <=> Uniform(input.facts, absent, ones, wanted)
  <2>1. PICK answer, viewers : /\ answer = Query(base, grants, absent, ones, Undecided)
                            /\ viewers = Cube(absent, ones) \cap Seers(input.facts)
    OBVIOUS
  <2>2. Ask(absent, ones) = answer
    BY <2>1 DEF Ask, Query
  <2>3. Answer(wanted) # Undecided /\ "true" # "false"
    BY DEF Answer, Undecided
  <2>4. /\ answer = Undecided =>
              /\ viewers \cap Holders(input.facts) # {} /\ ~(viewers \subseteq Holders(input.facts))
        /\ answer # Undecided /\ viewers # {} =>
              \/ answer = "true" /\ viewers \subseteq Holders(input.facts)
              \/ answer = "false" /\ viewers \cap Holders(input.facts) = {}
        /\ viewers = {} => answer = Answer(base \/ grants \cap ones # {})
    BY <1>2, <2>1, <2>3, QueryExact
  <2>5. Answer(base \/ grants \cap ones # {}) = Answer(wanted)
    BY <1>2
  <2>6. Uniform(input.facts, absent, ones, wanted)
          <=> \A M \in viewers : M \in Holders(input.facts) <=> wanted
    BY <2>1 DEF Uniform
  <2>7. CASE wanted
    <3>1. Answer(wanted) = "true"
      BY <2>7 DEF Answer
    <3> QED  BY <2>2, <2>3, <2>4, <2>5, <2>6, <2>7, <3>1
  <2>8. CASE ~wanted
    <3>1. Answer(wanted) = "false"
      BY <2>8 DEF Answer
    <3> QED  BY <2>2, <2>3, <2>4, <2>5, <2>6, <2>8, <3>1
  <2> QED  BY <2>7, <2>8
<1>3. Answer(TRUE) = "true" /\ Answer(FALSE) = "false"
  BY DEF Answer
<1>4. CASE base
  <2>1. Ask(zeros, {}) = "true" <=> Uniform(input.facts, zeros, {}, TRUE)
    BY <1>2, <1>3, <1>4
  <2>2. zeros \cup {} = zeros
    OBVIOUS
  <2>3. RestRight(input.facts, zeros, grants, base, {}) <=> Uniform(input.facts, zeros, {}, TRUE)
    BY <1>4, <2>2, RestByCubes DEF RestUniform
  <2> QED  BY <1>1, <1>4, <2>1, <2>3
<1>5. CASE ~base
  <2>1. Ask(zeros \cup grants, {}) = "false" <=> Uniform(input.facts, zeros \cup grants, {}, FALSE)
    <3>1. PICK absent : absent = zeros \cup grants
      OBVIOUS
    <3>2. absent \in SUBSET Roles
      BY <3>1
    <3>3. Ask(absent, {}) = Answer(FALSE) <=> Uniform(input.facts, absent, {}, FALSE)
      BY <1>2, <1>5, <3>2
    <3> QED  BY <1>3, <3>1, <3>3
  <2>2. \A r \in grants \ zeros : Ask(zeros, {r}) = "true" <=> Uniform(input.facts, zeros, {r}, TRUE)
    <3> TAKE r \in grants \ zeros
    <3>1. {r} \in SUBSET Roles /\ zeros \cap {r} = {} /\ grants \cap {r} # {}
      OBVIOUS
    <3>2. Ask(zeros, {r}) = Answer(TRUE) <=> Uniform(input.facts, zeros, {r}, TRUE)
      BY <1>2, <3>1
    <3> QED  BY <1>3, <3>2
  <2>3. zeros \cup {} = zeros /\ (zeros \cup grants) \cup {} = zeros \cup grants
    OBVIOUS
  <2>4. RestRight(input.facts, zeros, grants, base, {}) <=> RestUniform(input.facts, zeros, grants, base, {})
    BY RestByCubes
  <2> QED  BY <1>1, <1>5, <2>1, <2>2, <2>3, <2>4 DEF RestUniform
<1> QED  BY <1>4, <1>5

-----------------------------------------------------------------------------
(* The inductive invariant of the calculation.                               *)

\* An encoding of the overridden roles of cells would be exact.
Carries(cells, granting, dflt) ==
    /\ CellsRight(input.facts, Overridden(cells), cells, {})
    /\ RestRight(input.facts, Overridden(cells), granting, dflt, {})

\* Nothing is calculated before the inputs are found valid, or after they are not.
Validated ==
    /\ stage \notin {"read", "invalid"} => ValidateCalculationInputs
    /\ stage = "invalid" => ~ValidateCalculationInputs

\* The visited roles are the ones of the highest priorities; zeros are the roles
\* with an override, and an override gives what the source gives where it decides.
Visited == \A r \in left, x \in Ordinary \ left : x > r
Overrides == \A r \in Ordinary : r \in zeros <=> cell[r] # Neutral
Unvisited == left \cap zeros = {}
Synthesized == Visited /\ Overrides /\ Unvisited /\ CellsRight(input.facts, zeros, cell, {})

\* Whatever encoding is exact has no override that synthesis has passed over.
Forced == \A cells \in [Roles -> Cells] :
              Carries(cells, grants, base) => Overridden(cells) \ left \subseteq zeros

\* No encoding with this default is exact.
Hopeless(dflt) == \A cells \in [Roles -> Cells] : ~Carries(cells, grants, dflt)

Searching == stage \in {"first", "second"} => Forced
Tried ==
    /\ stage = "first" => base = PreferredBase
    /\ stage = "second" => base = ~PreferredBase /\ Hopeless(PreferredBase)
    /\ stage = "unsupported" => \A dflt \in BOOLEAN : Hopeless(dflt)

Compared == common # Undecided => stage = "planned" /\ common = Answer(ProveCommonChannelPlan)

CalculationIInv ==
    /\ CalculationTypeOK
    /\ grants \subseteq Ordinary
    /\ Validated
    /\ stage \in {"first", "second", "planned"} => Synthesized
    /\ Searching
    /\ Tried
    /\ stage = "planned" => RestRight(input.facts, zeros, grants, base, {})
    /\ Compared

\* The facts do not change while the calculation is at work on them.
LEMMA SameInput ==
    ASSUME input' = input
    PROVE  /\ Managed' = Managed /\ Ordinary' = Ordinary
           /\ Seers(input.facts)' = Seers(input.facts) /\ Holders(input.facts)' = Holders(input.facts)
           /\ PreferredBase' = PreferredBase
           /\ ValidateCalculationInputs' = ValidateCalculationInputs
           /\ ProveCommonChannelPlan' = ProveCommonChannelPlan
<1>1. Managed' = Managed /\ Ordinary' = Ordinary
  BY DEF Managed, Ordinary
<1>2. \A p : Mask(p)' = Mask(p)
  BY <1>1 DEF Mask
<1>3. \A facts, b : Predicate(facts, b)' = Predicate(facts, b)
  BY <1>2 DEF Predicate
<1>4. Seers(input.facts)' = Seers(input.facts) /\ Holders(input.facts)' = Holders(input.facts)
  BY <1>3 DEF Seers, Holders
<1>5. RequiredPredicates' = RequiredPredicates
  BY <1>3 DEF RequiredPredicates
<1>6. PreferredBase' = PreferredBase
  BY <1>5 DEF PreferredBase
<1>7. \A facts, bits : FormCheckedPredicates(facts, bits)' = FormCheckedPredicates(facts, bits)
  BY <1>1 DEF FormCheckedPredicates, ManagedRoleChanges
<1>8. \A facts : ResolveSelectedPredicates(facts)' = ResolveSelectedPredicates(facts)
  BY <1>3, <1>7 DEF ResolveSelectedPredicates, ResolvePublicThreadScope, BuildSourcePredicates
<1>9. ValidateCalculationInputs' = ValidateCalculationInputs
  BY <1>8 DEF ValidateCalculationInputs, TargetEffects
<1>10. ProveCommonChannelPlan' = ProveCommonChannelPlan
  BY <1>3 DEF ProveCommonChannelPlan, OtherPredicate
<1> QED  BY <1>1, <1>4, <1>6, <1>9, <1>10

LEMMA SameRight ==
    ASSUME input' = input
    PROVE  /\ \A D, cells, gone : CellsRight(input.facts, D, cells, gone)' = CellsRight(input.facts, D, cells, gone)
           /\ \A D, granting, dflt, gone :
                 RestRight(input.facts, D, granting, dflt, gone)' = RestRight(input.facts, D, granting, dflt, gone)
           /\ \A cells : Overridden(cells)' = Overridden(cells)
           /\ \A cells, granting, dflt : Carries(cells, granting, dflt)' = Carries(cells, granting, dflt)
<1>1. Ordinary' = Ordinary /\ Seers(input.facts)' = Seers(input.facts)
      /\ Holders(input.facts)' = Holders(input.facts)
  BY SameInput
<1>2. \A D, cells, gone : CellsRight(input.facts, D, cells, gone)' = CellsRight(input.facts, D, cells, gone)
  BY <1>1 DEF CellsRight
<1>3. \A D, granting, dflt, gone :
          RestRight(input.facts, D, granting, dflt, gone)' = RestRight(input.facts, D, granting, dflt, gone)
  BY <1>1 DEF RestRight
<1>4. \A cells : Overridden(cells)' = Overridden(cells)
  BY <1>1 DEF Overridden
<1>5. \A cells, granting, dflt : Carries(cells, granting, dflt)' = Carries(cells, granting, dflt)
  BY <1>2, <1>3, <1>4 DEF Carries
<1> QED  BY <1>2, <1>3, <1>4, <1>5

-----------------------------------------------------------------------------
(* Each step keeps it.                                                       *)

LEMMA CalculationInitHolds == CalculationInit => CalculationIInv
<1> SUFFICES ASSUME CalculationInit PROVE CalculationIInv
  OBVIOUS
<1>1. input \in InputShape /\ input.grants \cap input.managed = {}
  BY InputsAssumption DEF CalculationInit
<1>2. CalculationTypeOK
  BY <1>1 DEF CalculationInit, CalculationTypeOK, Cells, InputShape
<1>3. grants \subseteq Ordinary
  BY <1>1 DEF CalculationInit, InputShape, Ordinary, Managed
<1>4. stage = "read" /\ common = Undecided
  BY DEF CalculationInit
<1> QED  BY <1>2, <1>3, <1>4 DEF CalculationIInv, Validated, Searching, Tried, Compared

\* At its start synthesis has decided nothing.
LEMMA StartHolds ==
    ASSUME input \in InputShape, input' = input, NEW dflt \in BOOLEAN, Start(dflt)
    PROVE  /\ base' = dflt /\ base' \in BOOLEAN
           /\ left' \subseteq Ordinary' /\ zeros' \subseteq Ordinary' /\ cell' \in [Roles -> Cells]
           /\ Synthesized' /\ Forced'
<1>1. /\ base' = dflt /\ left' = Ordinary /\ zeros' = {} /\ cell' = [r \in Roles |-> Neutral]
      /\ Ordinary' = Ordinary /\ Ordinary \subseteq Roles
  BY SameInput, InputFacts DEF Start
<1>2. Visited' /\ Overrides' /\ Unvisited'
  BY <1>1 DEF Visited, Overrides, Unvisited
<1>3. CellsRight(input.facts, zeros, cell, {})'
  BY <1>1 DEF CellsRight
<1>4. Forced'
  <2>1. \A cells : Overridden(cells)' \subseteq Ordinary'
    BY DEF Overridden
  <2> QED  BY <1>1, <2>1 DEF Forced
<1> QED  BY <1>1, <1>2, <1>3, <1>4 DEF Synthesized, Cells

LEMMA ValidMembers ==
    ASSUME ValidateCalculationInputs
    PROVE  /\ ~TargetEffects /\ ~input.members
           /\ ResolveSelectedPredicates(input.facts) /\ ResolveSelectedPredicates(input.other)
BY DEF ValidateCalculationInputs, ResolveSelectedPredicates, ResolvePublicThreadScope,
       BuildSourcePredicates, FormCheckedPredicates

LEMMA CompileKeeps ==
    ASSUME CalculationIInv, CompileSupportedBits PROVE CalculationIInv'
<1>1. /\ stage = "read" /\ stage' = "first" /\ UNCHANGED <<input, grants, common>>
      /\ Start(PreferredBase) /\ ValidateCalculationInputs
  BY DEF CompileSupportedBits
<1>2. CalculationTypeOK /\ input \in InputShape /\ grants \subseteq Ordinary /\ common = Undecided
  BY <1>1 DEF CalculationIInv, CalculationTypeOK, Compared
<1>3. PICK dflt \in BOOLEAN : dflt = PreferredBase
  BY DEF PreferredBase
<1>4. /\ base' = dflt /\ base' \in BOOLEAN
      /\ left' \subseteq Ordinary' /\ zeros' \subseteq Ordinary' /\ cell' \in [Roles -> Cells]
      /\ Synthesized' /\ Forced'
  BY <1>1, <1>2, <1>3, StartHolds
<1>5. /\ Ordinary' = Ordinary /\ PreferredBase' = PreferredBase
      /\ ValidateCalculationInputs' = ValidateCalculationInputs
  BY <1>1, SameInput
<1>6. CalculationTypeOK'
  BY <1>1, <1>2, <1>4 DEF CalculationTypeOK
<1>7. Validated' /\ Searching' /\ Tried' /\ Compared'
  BY <1>1, <1>2, <1>3, <1>4, <1>5 DEF Validated, Searching, Tried, Compared
<1> QED  BY <1>1, <1>2, <1>4, <1>5, <1>6, <1>7 DEF CalculationIInv

LEMMA RefuseKeeps ==
    ASSUME CalculationIInv, RefuseCalculation PROVE CalculationIInv'
<1>1. /\ stage = "read" /\ stage' = "invalid" /\ ~ValidateCalculationInputs
      /\ UNCHANGED <<input, base, left, zeros, cell, grants, common>>
  BY DEF RefuseCalculation
<1>2. CalculationTypeOK /\ grants \subseteq Ordinary /\ common = Undecided
  BY <1>1 DEF CalculationIInv, Compared
<1>3. Ordinary' = Ordinary /\ ValidateCalculationInputs' = ValidateCalculationInputs
  BY <1>1, SameInput
<1>4. CalculationTypeOK'
  BY <1>1, <1>2, <1>3 DEF CalculationTypeOK
<1> QED  BY <1>1, <1>2, <1>3, <1>4 DEF CalculationIInv, Validated, Searching, Tried, Compared

\* While the encoding and the grants stay, so does what is known of them.
LEMMA SameEncoding ==
    ASSUME UNCHANGED <<input, base, left, zeros, cell, grants>>
    PROVE  /\ Ordinary' = Ordinary
           /\ Synthesized' <=> Synthesized
           /\ Forced' <=> Forced
           /\ \A dflt : Hopeless(dflt)' <=> Hopeless(dflt)
           /\ RestRight(input.facts, zeros, grants, base, {})'
                <=> RestRight(input.facts, zeros, grants, base, {})
<1>1. Ordinary' = Ordinary
  BY SameInput
<1>2. CellsRight(input.facts, zeros, cell, {})' <=> CellsRight(input.facts, zeros, cell, {})
  <2>1. Seers(input.facts)' = Seers(input.facts) /\ Holders(input.facts)' = Holders(input.facts)
    BY SameInput
  <2> QED  BY <2>1 DEF CellsRight
<1>3. Synthesized' <=> Synthesized
  BY <1>1, <1>2 DEF Synthesized, Visited, Overrides, Unvisited
<1>4. \A cells, granting, dflt : Carries(cells, granting, dflt)' = Carries(cells, granting, dflt)
  BY SameRight
<1>5. \A cells : Overridden(cells)' = Overridden(cells)
  BY SameRight
<1>6. Forced' <=> Forced
  <2>1. \A cells : Carries(cells, grants, base)' = Carries(cells, grants, base)
    BY <1>4 DEF Carries
  <2> QED  BY <1>5, <2>1 DEF Forced
<1>7. \A dflt : Hopeless(dflt)' <=> Hopeless(dflt)
  <2>1. \A cells, dflt : Carries(cells, grants, dflt)' = Carries(cells, grants, dflt)
    BY <1>4
  <2> QED  BY <2>1 DEF Hopeless
<1>8. RestRight(input.facts, zeros, grants, base, {})'
        <=> RestRight(input.facts, zeros, grants, base, {})
  <2>1. Seers(input.facts)' = Seers(input.facts) /\ Holders(input.facts)' = Holders(input.facts)
    BY SameInput
  <2> QED  BY <2>1 DEF RestRight
<1> QED  BY <1>1, <1>3, <1>6, <1>7, <1>8

\* Visiting the highest role left keeps what the overrides above it decide, and
\* passes over the role only where no encoding could override it.
LEMMA VisitKeeps ==
    ASSUME CalculationIInv, SynthesizeRole PROVE Synthesized' /\ Forced' /\ CalculationTypeOK'
<1>1. PICK r \in left :
         /\ left \cap Above(r) = {}
         /\ left' = left \ {r}
         /\ IF Ask(zeros, {r}) = Undecided THEN UNCHANGED <<zeros, cell>>
            ELSE /\ zeros' = zeros \cup {r}
                 /\ cell' = [cell EXCEPT ![r] = Operation(Ask(zeros, {r}) = "true")]
  BY DEF SynthesizeRole
<1>2. stage \in {"first", "second"} /\ UNCHANGED <<input, stage, base, grants, common>>
  BY DEF SynthesizeRole
<1>3. /\ CalculationTypeOK /\ Synthesized /\ Forced /\ input \in InputShape
      /\ grants \subseteq Ordinary /\ base \in BOOLEAN
  BY <1>2 DEF CalculationIInv, Searching, CalculationTypeOK
<1>4. /\ Ordinary' = Ordinary /\ left \subseteq Ordinary /\ zeros \subseteq Ordinary
      /\ r \in Ordinary /\ Ordinary \subseteq Roles /\ cell \in [Roles -> Cells]
  BY <1>2, <1>3, SameInput, InputFacts DEF CalculationTypeOK
<1>5. \A x \in Ordinary : x \in Int
  BY <1>4, RoleCountAssumption DEF Roles
<1>6. \A b \in BOOLEAN : Operation(b) \in Cells \ {Neutral} /\ (Operation(b) = Allow <=> b)
  BY DEF Operation, Cells, Allow, Deny, Neutral
<1>7. r \notin zeros /\ \A x \in zeros : x > r
  BY <1>3, <1>4 DEF Synthesized, Visited, Unvisited
<1>8. PICK answer, viewers : /\ answer = Query(base, grants, zeros, {r}, Undecided)
                          /\ viewers = Cube(zeros, {r}) \cap Seers(input.facts)
  OBVIOUS
<1>9. Ask(zeros, {r}) = answer
  BY <1>8 DEF Ask, Query
<1>10. /\ answer = Undecided =>
             /\ viewers \cap Holders(input.facts) # {} /\ ~(viewers \subseteq Holders(input.facts))
       /\ answer # Undecided /\ viewers # {} =>
             \/ answer = "true" /\ viewers \subseteq Holders(input.facts)
             \/ answer = "false" /\ viewers \cap Holders(input.facts) = {}
  <2>1. PICK ones, dflt, granting : ones = {r} /\ dflt = base /\ granting = grants
    OBVIOUS
  <2>2. /\ granting \in SUBSET Roles /\ zeros \in SUBSET Roles /\ ones \in SUBSET Roles
        /\ zeros \cap ones = {} /\ dflt \in BOOLEAN
    BY <1>3, <1>4, <1>7, <2>1
  <2>3. /\ answer = Query(dflt, granting, zeros, ones, Undecided)
        /\ viewers = Cube(zeros, ones) \cap Seers(input.facts)
    BY <1>8, <2>1
  <2> QED  BY <1>3, <2>2, <2>3, QueryExact
<1>11. Visited'
  <2> SUFFICES ASSUME NEW a \in left', NEW x \in Ordinary \ left' PROVE a < x
    BY <1>4 DEF Visited
  <2>1. CASE x = r
    <3>1. a \in left /\ a # r /\ ~(a > r)
      BY <1>1, <1>4 DEF Above
    <3> QED BY <1>4, <1>5, <2>1, <3>1
  <2>2. CASE x # r
    BY <1>1, <1>3, <2>2 DEF Synthesized, Visited
  <2> QED BY <2>1, <2>2
<1>12. Seers(input.facts)' = Seers(input.facts) /\ Holders(input.facts)' = Holders(input.facts)
  BY <1>2, SameInput
<1>13. \A cells : Overridden(cells)' = Overridden(cells)
                  /\ (Carries(cells, grants, base)' <=> Carries(cells, grants, base))
  BY <1>2, SameRight
<1>14. CASE answer = Undecided
  <2>1. zeros' = zeros /\ cell' = cell
    BY <1>1, <1>9, <1>14
  <2>2. Overrides' /\ Unvisited'
    BY <1>1, <1>3, <1>4, <2>1 DEF Synthesized, Overrides, Unvisited
  <2>3. CellsRight(input.facts, zeros, cell, {})'
    BY <1>3, <1>12, <2>1 DEF Synthesized, CellsRight
  <2>4. ASSUME NEW cells \in [Roles -> Cells], Carries(cells, grants, base), r \in Overridden(cells)
        PROVE  FALSE
    <3>1. PICK D : D = Overridden(cells)
      OBVIOUS
    <3>2. D \subseteq Ordinary /\ D \ left \subseteq zeros
      BY <1>3, <2>4, <3>1 DEF Forced, Overridden
    <3>3. Higher(D, r) \subseteq zeros
      BY <1>1, <3>2 DEF Higher, Above
    <3>4. \A M \in Cube(zeros, {r}) : M \in Cube(Higher(D, r) \cup {}, {r})
      BY <3>3 DEF Cube
    <3>5. \A M \in Cube(Higher(D, r) \cup {}, {r}) \cap Seers(input.facts) :
              M \in Holders(input.facts) <=> cells[r] = Allow
      BY <2>4, <3>1 DEF Carries, CellsRight
    <3>6. \A M \in viewers : M \in Holders(input.facts) <=> cells[r] = Allow
      BY <1>8, <3>4, <3>5
    <3> QED  BY <1>10, <1>14, <3>6
  <2>5. Forced'
    <3>1. ASSUME NEW cells \in [Roles -> Cells], Carries(cells, grants, base)'
          PROVE  Overridden(cells)' \ left' \subseteq zeros'
      <4>1. Carries(cells, grants, base)
        BY <1>13, <3>1
      <4>2. r \notin Overridden(cells)
        BY <2>4, <4>1
      <4>3. Overridden(cells) \ left \subseteq zeros
        BY <1>3, <4>1 DEF Forced
      <4> QED  BY <1>1, <1>13, <2>1, <4>2, <4>3
    <3> QED  BY <3>1 DEF Forced
  <2>6. CalculationTypeOK'
    BY <1>1, <1>2, <1>3, <1>4, <2>1 DEF CalculationTypeOK
  <2> QED  BY <1>11, <2>2, <2>3, <2>5, <2>6 DEF Synthesized
<1>15. CASE answer # Undecided
  <2>1. zeros' = zeros \cup {r} /\ cell' = [cell EXCEPT ![r] = Operation(answer = "true")]
    BY <1>1, <1>9, <1>15
  <2>2. /\ cell'[r] = Operation(answer = "true") /\ cell' \in [Roles -> Cells]
        /\ \A x \in Roles \ {r} : cell'[x] = cell[x]
    BY <1>4, <1>6, <2>1
  <2>3. Overrides' /\ Unvisited'
    BY <1>1, <1>3, <1>4, <1>6, <2>1, <2>2 DEF Synthesized, Overrides, Unvisited
  <2>4. ASSUME NEW x \in zeros'
        PROVE  \A M \in Cube(Higher(zeros', x) \cup {}, {x}) \cap Seers(input.facts) :
                   M \in Holders(input.facts) <=> cell'[x] = Allow
    <3>1. CASE x = r
      <4>1. Higher(zeros', r) \cup {} = zeros
        BY <1>4, <1>5, <1>7, <2>1 DEF Higher
      <4>2. cell'[r] = Allow <=> answer = "true"
        BY <1>6, <2>2
      <4>3. \A M \in viewers : M \in Holders(input.facts) <=> answer = "true"
        BY <1>10, <1>15
      <4> QED  BY <1>8, <3>1, <4>1, <4>2, <4>3
    <3>2. CASE x # r
      <4>1. x \in zeros /\ x \in Roles \ {r}
        BY <1>4, <2>1, <3>2
      <4>2. Higher(zeros', x) = Higher(zeros, x)
        BY <1>4, <1>5, <1>7, <2>1, <4>1 DEF Higher
      <4> QED  BY <1>3, <2>2, <4>1, <4>2 DEF Synthesized, CellsRight
    <3> QED  BY <3>1, <3>2
  <2>5. CellsRight(input.facts, zeros, cell, {})'
    BY <1>12, <2>4 DEF CellsRight
  <2>6. Forced'
    <3>1. ASSUME NEW cells \in [Roles -> Cells], Carries(cells, grants, base)'
          PROVE  Overridden(cells)' \ left' \subseteq zeros'
      <4>1. Overridden(cells) \ left \subseteq zeros
        BY <1>3, <1>13, <3>1 DEF Forced
      <4> QED  BY <1>1, <1>13, <2>1, <4>1
    <3> QED  BY <3>1 DEF Forced
  <2>7. CalculationTypeOK'
    BY <1>1, <1>2, <1>3, <1>4, <2>1, <2>2 DEF CalculationTypeOK
  <2> QED  BY <1>11, <2>3, <2>5, <2>6, <2>7 DEF Synthesized
<1> QED  BY <1>14, <1>15

LEMMA SynthesizeKeeps ==
    ASSUME CalculationIInv, SynthesizeRole PROVE CalculationIInv'
<1>1. /\ stage \in {"first", "second"} /\ UNCHANGED <<input, stage, base, grants, common>>
      /\ common = Undecided
  BY DEF SynthesizeRole, CalculationIInv, Compared
<1>2. Synthesized' /\ Forced' /\ CalculationTypeOK'
  BY VisitKeeps
<1>3. Ordinary' = Ordinary /\ ValidateCalculationInputs' = ValidateCalculationInputs
      /\ PreferredBase' = PreferredBase
  BY <1>1, SameInput
<1>4. \A dflt : Hopeless(dflt)' <=> Hopeless(dflt)
  BY <1>1, SameRight DEF Hopeless
<1>5. PICK dflt \in BOOLEAN : dflt = PreferredBase
  BY DEF PreferredBase
<1>6. Hopeless(PreferredBase)' <=> Hopeless(PreferredBase)
  <2>1. Hopeless(dflt)' <=> Hopeless(dflt)
    BY <1>4
  <2> QED  BY <1>3, <1>5, <2>1
<1>7. Tried'
  BY <1>1, <1>3, <1>6 DEF CalculationIInv, Tried
<1>8. grants' \subseteq Ordinary' /\ Validated' /\ Searching' /\ Compared'
  BY <1>1, <1>2, <1>3 DEF CalculationIInv, Validated, Searching, Compared
<1> QED  BY <1>1, <1>2, <1>7, <1>8 DEF CalculationIInv

LEMMA PlanKeeps ==
    ASSUME CalculationIInv, Plan PROVE CalculationIInv'
<1>1. /\ stage \in {"first", "second"} /\ stage' = "planned" /\ left = {} /\ Fits
      /\ UNCHANGED <<input, base, left, zeros, cell, grants, common>>
  BY DEF Plan
<1>2. /\ CalculationTypeOK /\ grants \subseteq Ordinary /\ Synthesized /\ common = Undecided
      /\ input \in InputShape /\ Validated
  BY <1>1 DEF CalculationIInv, Compared, CalculationTypeOK
<1>3. RestRight(input.facts, zeros, grants, base, {})
  <2>1. zeros \in SUBSET Roles /\ grants \in SUBSET Roles /\ base \in BOOLEAN
    BY <1>2, InputFacts DEF CalculationTypeOK
  <2> QED  BY <1>1, <1>2, <2>1, FitsExact
<1>4. /\ Ordinary' = Ordinary /\ Synthesized'
      /\ RestRight(input.facts, zeros, grants, base, {})'
  BY <1>1, <1>2, <1>3, SameEncoding
<1>5. ValidateCalculationInputs' = ValidateCalculationInputs
  BY <1>1, SameInput
<1>6. CalculationTypeOK'
  BY <1>1, <1>2, <1>4 DEF CalculationTypeOK
<1>7. Validated' /\ Searching' /\ Tried' /\ Compared'
  BY <1>1, <1>2, <1>5 DEF Validated, Searching, Tried, Compared
<1> QED  BY <1>1, <1>2, <1>4, <1>6, <1>7 DEF CalculationIInv

\* A synthesis that does not fit shows that nothing does with its default.
LEMMA UnfitHopeless ==
    ASSUME CalculationIInv, stage \in {"first", "second"}, left = {}, ~Fits PROVE Hopeless(base)
<1>1. /\ CalculationTypeOK /\ grants \subseteq Ordinary /\ Forced /\ input \in InputShape
  BY DEF CalculationIInv, Searching, CalculationTypeOK
<1>2. zeros \in SUBSET Roles /\ grants \in SUBSET Roles /\ base \in BOOLEAN
  BY <1>1, InputFacts DEF CalculationTypeOK
<1>3. ~RestRight(input.facts, zeros, grants, base, {})
  BY <1>1, <1>2, FitsExact
<1>4. ASSUME NEW cells \in [Roles -> Cells], Carries(cells, grants, base) PROVE FALSE
  <2>1. Overridden(cells) \subseteq zeros
    BY <1>1, <1>4 DEF Forced
  <2>2. \A M \in Cube(zeros \cup {}, {}) : M \in Cube(Overridden(cells) \cup {}, {})
    BY <2>1 DEF Cube
  <2> QED  BY <1>3, <1>4, <2>2 DEF Carries, RestRight
<1> QED  BY <1>4 DEF Hopeless

LEMMA OtherBaseKeeps ==
    ASSUME CalculationIInv, OtherBase PROVE CalculationIInv'
<1>1. /\ stage = "first" /\ stage' = "second" /\ left = {} /\ ~Fits
      /\ Start(~base) /\ UNCHANGED <<input, grants, common>>
  BY DEF OtherBase
<1>2. /\ CalculationTypeOK /\ grants \subseteq Ordinary /\ common = Undecided
      /\ input \in InputShape /\ Validated /\ base = PreferredBase /\ base \in BOOLEAN
  BY <1>1 DEF CalculationIInv, Compared, Tried, CalculationTypeOK
<1>3. Hopeless(base)
  BY <1>1, UnfitHopeless
<1>4. PICK dflt \in BOOLEAN : dflt = ~base
  BY <1>2
<1>5. /\ base' = dflt /\ base' \in BOOLEAN
      /\ left' \subseteq Ordinary' /\ zeros' \subseteq Ordinary' /\ cell' \in [Roles -> Cells]
      /\ Synthesized' /\ Forced'
  BY <1>1, <1>2, <1>4, StartHolds
<1>6. /\ Ordinary' = Ordinary /\ PreferredBase' = PreferredBase
      /\ ValidateCalculationInputs' = ValidateCalculationInputs
  BY <1>1, SameInput
<1>7. CalculationTypeOK'
  BY <1>1, <1>2, <1>5 DEF CalculationTypeOK
<1>8. Hopeless(PreferredBase)'
  <2>1. \A cells, x : Carries(cells, grants, x)' <=> Carries(cells, grants, x)
    BY <1>1, SameRight
  <2>2. PICK x : x = PreferredBase
    OBVIOUS
  <2>3. \A cells \in [Roles -> Cells] : ~Carries(cells, grants, x)
    BY <1>2, <1>3, <2>2 DEF Hopeless
  <2>4. \A cells \in [Roles -> Cells] : ~Carries(cells, grants, x)'
    BY <2>1, <2>3
  <2> QED  BY <1>6, <2>2, <2>4 DEF Hopeless
<1>9. Tried'
  BY <1>1, <1>2, <1>4, <1>5, <1>6, <1>8 DEF Tried
<1>10. Validated' /\ Searching' /\ Compared'
  BY <1>1, <1>2, <1>5, <1>6 DEF Validated, Searching, Compared
<1> QED  BY <1>1, <1>2, <1>5, <1>6, <1>7, <1>9, <1>10 DEF CalculationIInv

\* Where the member without roles sees the channel, only one default can be right.
LEMMA OnlyPreferred ==
    ASSUME input \in InputShape, input.bit = "view" \/ View.c,
           NEW cells, NEW dflt \in BOOLEAN, Carries(cells, grants, dflt)
    PROVE  dflt = PreferredBase
<1>1. \A p : EvaluateSourceBit(p, {}) <=> p.c
  BY DEF EvaluateSourceBit
<1>2. {} \in Seers(input.facts)
  BY <1>1 DEF Seers, View
<1>3. {} \in Holders(input.facts) <=> PreferredBase
  BY <1>1 DEF Holders, PreferredBase, RequiredPredicates
<1>4. {} \in Cube(Overridden(cells) \cup {}, {})
  BY DEF Cube
<1>5. {} \in Holders(input.facts) <=> dflt
  BY <1>2, <1>4 DEF Carries, RestRight
<1>6. PreferredBase \in BOOLEAN
  BY DEF PreferredBase
<1> QED  BY <1>3, <1>5, <1>6

LEMMA UnsupportedKeeps ==
    ASSUME CalculationIInv, Unsupported PROVE CalculationIInv'
<1>1. /\ stage \in {"first", "second"} /\ stage' = "unsupported" /\ left = {} /\ ~Fits
      /\ stage = "first" => input.bit = "view" \/ View.c
      /\ UNCHANGED <<input, base, left, zeros, cell, grants, common>>
  BY DEF Unsupported
<1>2. /\ CalculationTypeOK /\ grants \subseteq Ordinary /\ common = Undecided
      /\ input \in InputShape /\ Validated /\ Tried /\ base \in BOOLEAN
  BY <1>1 DEF CalculationIInv, Compared, CalculationTypeOK
<1>3. Hopeless(base)
  BY <1>1, UnfitHopeless
<1>4. ASSUME NEW dflt \in BOOLEAN PROVE Hopeless(dflt)
  <2>1. CASE dflt = base
    BY <1>3, <2>1
  <2>2. CASE dflt # base /\ stage = "second"
    <3>1. base = ~PreferredBase /\ Hopeless(PreferredBase)
      BY <1>2, <2>2 DEF Tried
    <3>2. PICK x \in BOOLEAN : x = PreferredBase
      BY DEF PreferredBase
    <3>3. dflt = x
      BY <1>2, <2>2, <3>1, <3>2
    <3> QED  BY <3>1, <3>2, <3>3
  <2>3. CASE dflt # base /\ stage = "first"
    <3>1. base = PreferredBase
      BY <1>2, <2>3 DEF Tried
    <3>2. \A cells : ~Carries(cells, grants, dflt)
      BY <1>1, <1>2, <2>3, <3>1, OnlyPreferred
    <3> QED  BY <3>2 DEF Hopeless
  <2> QED  BY <1>1, <2>1, <2>2, <2>3
<1>5. /\ Ordinary' = Ordinary /\ \A dflt : Hopeless(dflt)' <=> Hopeless(dflt)
  BY <1>1, SameEncoding
<1>6. ValidateCalculationInputs' = ValidateCalculationInputs
  BY <1>1, SameInput
<1>7. CalculationTypeOK'
  BY <1>1, <1>2, <1>5 DEF CalculationTypeOK
<1>8. Tried'
  BY <1>1, <1>4, <1>5 DEF Tried
<1>9. Validated' /\ Searching' /\ Compared'
  BY <1>1, <1>2, <1>6 DEF Validated, Searching, Compared
<1> QED  BY <1>1, <1>2, <1>5, <1>7, <1>8, <1>9 DEF CalculationIInv

LEMMA CommonKeeps ==
    ASSUME CalculationIInv, CommonIndexPlan PROVE CalculationIInv'
<1>1. /\ stage = "planned" /\ stage' = "planned" /\ common' = Answer(ProveCommonChannelPlan)
      /\ UNCHANGED <<input, base, left, zeros, cell, grants>>
  BY DEF CommonIndexPlan
<1>2. /\ CalculationTypeOK /\ grants \subseteq Ordinary /\ Validated /\ Synthesized
      /\ RestRight(input.facts, zeros, grants, base, {})
  BY <1>1 DEF CalculationIInv
<1>3. /\ Ordinary' = Ordinary /\ Synthesized'
      /\ RestRight(input.facts, zeros, grants, base, {})'
  BY <1>1, <1>2, SameEncoding
<1>4. /\ ValidateCalculationInputs' = ValidateCalculationInputs
      /\ ProveCommonChannelPlan' = ProveCommonChannelPlan
  BY <1>1, SameInput
<1>5. common' \in {"true", "false", Undecided}
  BY <1>1 DEF Answer
<1>6. CalculationTypeOK'
  BY <1>1, <1>2, <1>3, <1>5 DEF CalculationTypeOK
<1>7. Validated' /\ Searching' /\ Tried' /\ Compared'
  BY <1>1, <1>2, <1>4 DEF Validated, Searching, Tried, Compared
<1> QED  BY <1>1, <1>2, <1>3, <1>6, <1>7 DEF CalculationIInv

LEMMA DriftKeeps ==
    ASSUME CalculationIInv, Drift PROVE CalculationIInv'
<1>1. /\ stage = "planned" /\ stage' = "drifted" /\ common = Undecided
      /\ UNCHANGED <<input, left, zeros, common>>
  BY DEF Drift
<1>2. CalculationTypeOK /\ grants \subseteq Ordinary /\ Validated /\ input \in InputShape
  BY <1>1 DEF CalculationIInv, CalculationTypeOK
<1>3. /\ Ordinary' = Ordinary /\ Ordinary \subseteq Roles
      /\ ValidateCalculationInputs' = ValidateCalculationInputs
  BY <1>1, <1>2, SameInput, InputFacts
<1>4. cell' \in [Roles -> Cells] /\ base' \in BOOLEAN /\ grants' \subseteq Ordinary
  BY <1>2, <1>3 DEF Drift, CalculationTypeOK
<1>5. CalculationTypeOK'
  BY <1>1, <1>2, <1>3, <1>4 DEF CalculationTypeOK
<1> QED  BY <1>1, <1>2, <1>3, <1>4, <1>5 DEF CalculationIInv, Validated, Searching, Tried, Compared

LEMMA StaysKeeps ==
    ASSUME CalculationIInv, UNCHANGED calculationVars PROVE CalculationIInv'
<1>1. UNCHANGED <<input, stage, base, left, zeros, cell, grants, common>>
  BY DEF calculationVars
<1>2. /\ Ordinary' = Ordinary
      /\ Synthesized' <=> Synthesized
      /\ Forced' <=> Forced
      /\ \A dflt : Hopeless(dflt)' <=> Hopeless(dflt)
      /\ RestRight(input.facts, zeros, grants, base, {})'
           <=> RestRight(input.facts, zeros, grants, base, {})
  BY <1>1, SameEncoding
<1>3. /\ PreferredBase' = PreferredBase
      /\ ValidateCalculationInputs' = ValidateCalculationInputs
      /\ ProveCommonChannelPlan' = ProveCommonChannelPlan
  BY <1>1, SameInput
<1>4. Hopeless(PreferredBase)' <=> Hopeless(PreferredBase)
  <2>1. PICK x : x = PreferredBase
    OBVIOUS
  <2>2. Hopeless(x)' <=> Hopeless(x)
    BY <1>2
  <2>3. Hopeless(PreferredBase)' <=> Hopeless(x)'
    BY <1>3, <2>1 DEF Hopeless
  <2> QED  BY <2>1, <2>2, <2>3
<1>5. CalculationTypeOK'
  BY <1>1, <1>2 DEF CalculationIInv, CalculationTypeOK
<1>6. Tried'
  BY <1>1, <1>2, <1>3, <1>4 DEF CalculationIInv, Tried
<1> QED  BY <1>1, <1>2, <1>3, <1>5, <1>6 DEF CalculationIInv, Validated, Searching, Compared

LEMMA CalculationKeeps == CalculationIInv /\ [CalculationNext]_calculationVars => CalculationIInv'
BY CompileKeeps, RefuseKeeps, SynthesizeKeeps, PlanKeeps, OtherBaseKeeps, UnsupportedKeeps,
   CommonKeeps, DriftKeeps, StaysKeeps DEF CalculationNext

-----------------------------------------------------------------------------
(* What the invariant says of the promises.                                  *)

LEMMA CarriesExact ==
    ASSUME CalculationIInv, ValidateCalculationInputs, NEW cells, NEW dflt \in BOOLEAN
    PROVE  Exact(input.facts, cells, grants, dflt, {}) <=> Carries(cells, grants, dflt)
<1>1. input \in InputShape /\ input.facts \in SourceFacts /\ grants \in SUBSET Ordinary
  BY InputFacts DEF CalculationIInv, CalculationTypeOK
<1>2. ~TargetEffects /\ ~input.members /\ ResolveSelectedPredicates(input.facts)
  BY ValidMembers
<1>3. PICK granting, facts, gone : granting = grants /\ facts = input.facts /\ gone = {}
  OBVIOUS
<1>4. granting \in SUBSET Ordinary /\ facts \in SourceFacts /\ gone \in SUBSET Roles
      /\ ResolveSelectedPredicates(facts)
  BY <1>1, <1>2, <1>3
<1>5. Exact(facts, cells, granting, dflt, gone)
        <=> /\ CellsRight(facts, Overridden(cells), cells, gone)
            /\ RestRight(facts, Overridden(cells), granting, dflt, gone)
  BY <1>1, <1>2, <1>4, ExactMeans
<1> QED  BY <1>3, <1>5 DEF Carries

LEMMA OverriddenAre ==
    ASSUME CalculationIInv, Overrides PROVE Overridden(cell) = zeros
BY DEF CalculationIInv, CalculationTypeOK, Overrides, Overridden

LEMMA PlannedCarries ==
    ASSUME CalculationIInv, Planned PROVE Carries(cell, grants, base) /\ ValidateCalculationInputs
<1>1. Synthesized /\ RestRight(input.facts, zeros, grants, base, {}) /\ ValidateCalculationInputs
  BY DEF CalculationIInv, Planned, Validated
<1>2. Overridden(cell) = zeros
  BY <1>1, OverriddenAre DEF Synthesized
<1> QED  BY <1>1, <1>2 DEF Synthesized, Carries

LEMMA PlanHolds == CalculationIInv => PlanExact
<1> SUFFICES ASSUME CalculationIInv, Planned PROVE Exact(input.facts, cell, grants, base, {})
  BY DEF PlanExact
<1>1. Carries(cell, grants, base) /\ ValidateCalculationInputs
  BY PlannedCarries
<1>2. base \in BOOLEAN
  BY DEF CalculationIInv, CalculationTypeOK
<1> QED  BY <1>1, <1>2, CarriesExact

\* A role that is said to change a bit changes it for some member.
LEMMA ChangeShows ==
    ASSUME NEW p \in PredicateShape, NEW r \in Roles, SourceRoleChangesBit(p, r)
    PROVE  \E M \in SUBSET Roles : ~(EvaluateSourceBit(p, M) <=> EvaluateSourceBit(p, M \cup {r}))
<1>1. p.P \subseteq Roles /\ p.N \subseteq Roles /\ p.G \subseteq Roles /\ p.c \in BOOLEAN
  BY DEF PredicateShape
<1> DEFINE Shows(M) == ~(EvaluateSourceBit(p, M) <=> EvaluateSourceBit(p, M \cup {r}))
<1>2. CASE r \in p.P /\ ~p.c
  <2>1. Shows({})
    BY <1>2 DEF EvaluateSourceBit
  <2> QED  BY <2>1
<1>3. CASE r \in p.P /\ p.N \ p.P # {}
  <2>1. PICK n \in p.N \ p.P : TRUE
    BY <1>3
  <2>2. p.P \cap {n} = {} /\ p.N \cap {n} # {} /\ p.P \cap ({n} \cup {r}) # {}
    BY <1>3, <2>1
  <2>3. Shows({n})
    BY <2>2 DEF EvaluateSourceBit
  <2> QED  BY <1>1, <2>3
<1>4. CASE r \in p.N \ p.P /\ p.c
  <2>1. p.P \cap ({} \cup {r}) = {} /\ p.N \cap ({} \cup {r}) # {}
    BY <1>4
  <2>2. Shows({})
    BY <1>4, <2>1 DEF EvaluateSourceBit
  <2> QED  BY <2>2
<1>5. CASE r \in p.N \ p.P /\ p.G \ (p.P \cup p.N) # {}
  <2>1. PICK g \in p.G \ (p.P \cup p.N) : TRUE
    BY <1>5
  <2>2. /\ p.N \cap {g} = {} /\ p.G \cap {g} # {}
        /\ p.P \cap ({g} \cup {r}) = {} /\ p.N \cap ({g} \cup {r}) # {}
    BY <1>5, <2>1
  <2>3. Shows({g})
    BY <2>2 DEF EvaluateSourceBit
  <2> QED  BY <1>1, <2>3
<1>6. CASE r \in p.G \ (p.P \cup p.N) /\ ~p.c
  <2>1. p.N \cap ({} \cup {r}) = {} /\ p.G \cap ({} \cup {r}) # {}
    BY <1>6
  <2>2. Shows({})
    BY <1>6, <2>1 DEF EvaluateSourceBit
  <2> QED  BY <2>2
<1> QED  BY <1>2, <1>3, <1>4, <1>5, <1>6 DEF SourceRoleChangesBit

\* A managed role that changes the view bit leaves no exact encoding.
LEMMA ManagedHopeless ==
    ASSUME CalculationIInv, input.bit = "view", ~input.thread, ~ResolveSelectedPredicates(input.facts),
           NEW cells, NEW dflt, Exact(input.facts, cells, grants, dflt, {})
    PROVE  FALSE
<1>1. /\ input \in InputShape /\ input.facts["view"] \in Facts
      /\ Managed \subseteq Roles /\ input.admins \subseteq Roles \cup {EveryoneRole}
  BY InputFacts DEF CalculationIInv, CalculationTypeOK, Bits
<1>2. ~input.members
  BY DEF Exact
<1>3. PICK p : p = FormSourceBit(input.admins, input.facts["view"])
  OBVIOUS
<1>4. PICK r \in Managed : SourceRoleChangesBit(p, r)
  BY <1>2, <1>3 DEF ResolveSelectedPredicates, BuildSourcePredicates, FormCheckedPredicates, ManagedRoleChanges
<1>5. p \in PredicateShape /\ r \in Roles
  BY <1>1, <1>3, FormedShape
<1>6. PICK M \in SUBSET Roles : ~(EvaluateSourceBit(p, M) <=> EvaluateSourceBit(p, M \cup {r}))
  BY <1>4, <1>5, ChangeShows
<1>7. \A members \in SUBSET Roles :
          TargetAllows(cells, grants, dflt, members \ Managed, FALSE) <=> EvaluateSourceBit(p, members)
  <2> TAKE members \in SUBSET Roles
  <2>1. Needed = {"view"}
    BY DEF Needed, Required
  <2>2. members \in SUBSET (Roles \ {}) /\ FALSE \in BOOLEAN
    OBVIOUS
  <2>3. TargetAllows(cells, grants, dflt, members \ Managed, FALSE)
          <=> SourceAllows(input.facts["view"], members)
    BY <2>1, <2>2 DEF Exact
  <2>4. EvaluateSourceBit(p, members) <=> SourceAllows(input.facts["view"], members)
    BY <1>1, <1>3, FormedExactly
  <2> QED  BY <2>3, <2>4
<1>8. PICK more : more = M \cup {r}
  OBVIOUS
<1>9. more \in SUBSET Roles /\ more \ Managed = M \ Managed
  BY <1>5, <1>8
<1>10. TargetAllows(cells, grants, dflt, M \ Managed, FALSE) <=> EvaluateSourceBit(p, M)
  BY <1>7
<1>11. TargetAllows(cells, grants, dflt, more \ Managed, FALSE) <=> EvaluateSourceBit(p, more)
  BY <1>7, <1>9
<1> QED  BY <1>6, <1>8, <1>9, <1>10, <1>11

LEMMA NoNeedlessHolds == CalculationIInv => NoNeedlessRefusal
<1> SUFFICES ASSUME CalculationIInv,
                    \/ stage = "unsupported"
                    \/ /\ stage = "invalid" /\ input.bit = "view" /\ ~TargetEffects
                       /\ input.other = input.facts /\ ~input.thread,
                    NEW cells \in [Roles -> Cells], NEW dflt \in BOOLEAN,
                    Exact(input.facts, cells, grants, dflt, {})
             PROVE  FALSE
  BY DEF NoNeedlessRefusal
<1>1. CASE stage = "unsupported"
  <2>1. ValidateCalculationInputs /\ Hopeless(dflt)
    BY <1>1 DEF CalculationIInv, Validated, Tried
  <2>2. Carries(cells, grants, dflt)
    BY <2>1, CarriesExact
  <2> QED  BY <2>1, <2>2 DEF Hopeless
<1>2. CASE /\ stage = "invalid" /\ input.bit = "view" /\ ~TargetEffects
           /\ input.other = input.facts /\ ~input.thread
  <2>1. ~ValidateCalculationInputs
    BY <1>2 DEF CalculationIInv, Validated
  <2>2. ~ResolveSelectedPredicates(input.facts)
    BY <1>2, <2>1 DEF ValidateCalculationInputs
  <2> QED  BY <1>2, <2>2, ManagedHopeless
<1> QED  BY <1>1, <1>2

LEMMA CheckHolds == CalculationIInv => CheckAgrees
<1> SUFFICES ASSUME CalculationIInv, stage \in {"planned", "drifted"}, NEW gone \in SUBSET Ordinary
             PROVE  MatchesSourceAccess(cell, grants, base, gone)
                      <=> Exact(input.facts, cell, grants, base, gone)
  BY DEF CheckAgrees
<1>1. /\ input \in InputShape /\ input.facts \in SourceFacts /\ Ordinary \subseteq Roles
      /\ cell \in [Roles -> Cells] /\ base \in BOOLEAN /\ grants \in SUBSET Ordinary
  BY InputFacts DEF CalculationIInv, CalculationTypeOK
<1>2. ~TargetEffects /\ ~input.members /\ ResolveSelectedPredicates(input.facts)
  BY ValidMembers DEF CalculationIInv, Validated
<1>3. PICK granting, facts, cells, dflt :
          granting = grants /\ facts = input.facts /\ cells = cell /\ dflt = base
  OBVIOUS
<1>4. /\ granting \in SUBSET Ordinary /\ granting \in SUBSET Roles /\ facts \in SourceFacts
      /\ gone \in SUBSET Roles /\ cells \in [Roles -> Cells] /\ dflt \in BOOLEAN
      /\ ResolveSelectedPredicates(facts)
  BY <1>1, <1>2, <1>3
<1>5. Exact(facts, cells, granting, dflt, gone)
        <=> /\ CellsRight(facts, Overridden(cells), cells, gone)
            /\ RestRight(facts, Overridden(cells), granting, dflt, gone)
  BY <1>1, <1>2, <1>4, ExactMeans
<1>6. MatchesSourceAccess(cells, granting, dflt, gone)
        <=> /\ CellsRight(input.facts, Overridden(cells), cells, gone)
            /\ RestRight(input.facts, Overridden(cells), granting, dflt, gone)
  BY <1>1, <1>4, MatchesExact
<1> QED  BY <1>3, <1>5, <1>6

LEMMA DifferExact ==
    ASSUME NEW allowed \in SUBSET PredicateShape, IsFiniteSet(allowed),
           NEW rejected \in SUBSET PredicateShape
    PROVE  Differ(allowed, rejected)
             <=> \E M \in SUBSET Roles : /\ \A p \in allowed : EvaluateSourceBit(p, M)
                                         /\ ~\A d \in rejected : EvaluateSourceBit(d, M)
<1> DEFINE Asks(d) == ConjunctionPossible(
               [i \in 1..(Cardinality(allowed) + 1) |->
                   IF i <= Cardinality(allowed) THEN Allowed(allowed)[i] ELSE <<d, FALSE>>],
               {}, {})
<1>1. ASSUME NEW d \in rejected
      PROVE  Asks(d) <=> \E M \in SUBSET Roles :
                  ~EvaluateSourceBit(d, M) /\ \A p \in allowed : EvaluateSourceBit(p, M)
  <2>1. d \in PredicateShape
    OBVIOUS
  <2> QED  BY <2>1, AllButLast
<1>2. Differ(allowed, rejected) <=> \E d \in rejected : Asks(d)
  BY DEF Differ
<1> HIDE DEF Asks
<1> QED  BY <1>1, <1>2

\* Everything that the bits need.
HasAll(facts, bits, members) == \A b \in bits : EvaluateSourceBit(Predicate(facts, b), members)

\* Two sources share a plan when all members have the bits in both or in neither.
LEMMA CommonMeans ==
    ASSUME input \in InputShape
    PROVE  ProveCommonChannelPlan
             <=> \A bits \in {{"view"}, {"view"} \cup Required(input.bit)}, M \in SUBSET Roles :
                    HasAll(input.facts, bits, M) <=> HasAll(input.other, bits, M)
<1>1. ASSUME NEW bits \in {{"view"}, {"view"} \cup Required(input.bit)}
      PROVE  LET mine == {Predicate(input.facts, b) : b \in bits}
                 theirs == {OtherPredicate(b) : b \in bits}
             IN  (~Differ(mine, theirs) /\ ~Differ(theirs, mine))
                   <=> \A M \in SUBSET Roles : HasAll(input.facts, bits, M) <=> HasAll(input.other, bits, M)
  <2>1. PICK mine, theirs : /\ mine = {Predicate(input.facts, b) : b \in bits}
                            /\ theirs = {OtherPredicate(b) : b \in bits}
    OBVIOUS
  <2>2. input.facts \in SourceFacts /\ input.other \in SourceFacts
    BY InputFacts
  <2>3. theirs = {Predicate(input.other, b) : b \in bits}
    BY <2>1 DEF OtherPredicate
  <2>4. /\ mine \in SUBSET PredicateShape /\ IsFiniteSet(mine)
        /\ theirs \in SUBSET PredicateShape /\ IsFiniteSet(theirs)
    BY <2>1, <2>2, <2>3, RequiredShape
  <2>5. \A M : (\A p \in mine : EvaluateSourceBit(p, M)) <=> HasAll(input.facts, bits, M)
    BY <2>1 DEF HasAll
  <2>6. \A M : (\A p \in theirs : EvaluateSourceBit(p, M)) <=> HasAll(input.other, bits, M)
    BY <2>3 DEF HasAll
  <2>7. Differ(mine, theirs)
          <=> \E M \in SUBSET Roles : HasAll(input.facts, bits, M) /\ ~HasAll(input.other, bits, M)
    BY <2>4, <2>5, <2>6, DifferExact
  <2>8. Differ(theirs, mine)
          <=> \E M \in SUBSET Roles : HasAll(input.other, bits, M) /\ ~HasAll(input.facts, bits, M)
    BY <2>4, <2>5, <2>6, DifferExact
  <2> QED  BY <2>1, <2>7, <2>8
<1> QED  BY <1>1 DEF ProveCommonChannelPlan

\* A plan that carries the first source carries a source with the same predicates.
LEMMA CommonCarries ==
    ASSUME CalculationIInv, Planned, ProveCommonChannelPlan
    PROVE  Exact(input.other, cell, grants, base, {})
<1>1. /\ input \in InputShape /\ input.other \in SourceFacts /\ Ordinary \subseteq Roles
      /\ base \in BOOLEAN /\ grants \in SUBSET Ordinary
  BY InputFacts DEF CalculationIInv, CalculationTypeOK
<1>2. Carries(cell, grants, base) /\ ValidateCalculationInputs
  BY PlannedCarries
<1>3. ~TargetEffects /\ ~input.members /\ ResolveSelectedPredicates(input.other)
  BY <1>2, ValidMembers
<1>4. \A M \in SUBSET Roles :
          /\ HasAll(input.facts, {"view"}, M) <=> HasAll(input.other, {"view"}, M)
          /\ HasAll(input.facts, {"view"} \cup Required(input.bit), M)
               <=> HasAll(input.other, {"view"} \cup Required(input.bit), M)
  BY <1>1, CommonMeans
<1>5. \A facts, M : HasAll(facts, {"view"}, M) <=> EvaluateSourceBit(Predicate(facts, "view"), M)
  BY DEF HasAll
<1>6. \A facts, M : HasAll(facts, {"view"} \cup Required(input.bit), M)
                      <=> /\ EvaluateSourceBit(Predicate(facts, "view"), M)
                          /\ HasAll(facts, Required(input.bit), M)
  BY DEF HasAll
<1>7. \A facts : \A M \in SUBSET Roles : M \in Holders(facts) <=> HasAll(facts, Required(input.bit), M)
  BY DEF Holders, HasAll
<1>8. ASSUME NEW M \in Seers(input.other)
      PROVE  M \in Seers(input.facts) /\ (M \in Holders(input.facts) <=> M \in Holders(input.other))
  <2>1. M \in SUBSET Roles
    BY DEF Seers
  <2>2. CASE input.bit = "view"
    <3>1. Required(input.bit) = {"view"} /\ M \in Seers(input.facts)
      BY <2>1, <2>2 DEF Required, Seers
    <3> QED  BY <1>4, <1>7, <2>1, <3>1
  <2>3. CASE input.bit # "view"
    <3>1. EvaluateSourceBit(Predicate(input.other, "view"), M)
      BY <2>3 DEF Seers
    <3>2. EvaluateSourceBit(Predicate(input.facts, "view"), M)
      BY <1>4, <1>5, <2>1, <3>1
    <3>3. M \in Seers(input.facts)
      BY <2>1, <3>2 DEF Seers
    <3>4. HasAll(input.facts, Required(input.bit), M) <=> HasAll(input.other, Required(input.bit), M)
      BY <1>4, <1>6, <2>1, <3>1, <3>2
    <3> QED  BY <1>7, <2>1, <3>3, <3>4
  <2> QED  BY <2>2, <2>3
<1>9. CellsRight(input.other, Overridden(cell), cell, {})
  BY <1>2, <1>8 DEF Carries, CellsRight
<1>10. RestRight(input.other, Overridden(cell), grants, base, {})
  BY <1>2, <1>8 DEF Carries, RestRight
<1>11. PICK granting, facts, cells, dflt, gone :
           granting = grants /\ facts = input.other /\ cells = cell /\ dflt = base /\ gone = {}
  OBVIOUS
<1>12. /\ granting \in SUBSET Ordinary /\ facts \in SourceFacts /\ dflt \in BOOLEAN
       /\ gone \in SUBSET Roles /\ ResolveSelectedPredicates(facts)
  BY <1>1, <1>3, <1>11
<1>13. Exact(facts, cells, granting, dflt, gone)
         <=> /\ CellsRight(facts, Overridden(cells), cells, gone)
             /\ RestRight(facts, Overridden(cells), granting, dflt, gone)
  BY <1>1, <1>3, <1>12, ExactMeans
<1> QED  BY <1>9, <1>10, <1>11, <1>13

\* Sources that are told apart give some member different access.
LEMMA DifferenceShows ==
    ASSUME input \in InputShape, ValidateCalculationInputs, ~ProveCommonChannelPlan
    PROVE  \E members \in SUBSET Roles, bits \in {{"view"}, {"view"} \cup Needed} :
               (\A b \in bits : SourceAllows(input.facts[b], members))
                 # (\A b \in bits : SourceAllows(input.other[b], members))
<1>1. input.facts \in SourceFacts /\ input.other \in SourceFacts /\ "view" \in Bits
  BY InputFacts DEF Bits
<1>2. ResolveSelectedPredicates(input.facts) /\ ResolveSelectedPredicates(input.other)
  BY ValidMembers
<1>3. PICK bits \in {{"view"}, {"view"} \cup Required(input.bit)}, M \in SUBSET Roles :
          ~(HasAll(input.facts, bits, M) <=> HasAll(input.other, bits, M))
  BY CommonMeans
<1>4. ASSUME NEW facts \in SourceFacts, ResolveSelectedPredicates(facts)
      PROVE  /\ HasAll(facts, {"view"}, M) <=> \A b \in {"view"} : SourceAllows(facts[b], M)
             /\ HasAll(facts, {"view"} \cup Required(input.bit), M)
                  <=> \A b \in {"view"} \cup Needed : SourceAllows(facts[b], M)
  <2>1. EvaluateSourceBit(Predicate(facts, "view"), M) <=> SourceAllows(facts["view"], M)
    BY <1>1, <1>4, PredicateExact
  <2>2. M \in Holders(facts) <=> \A b \in Needed : SourceAllows(facts[b], M)
    BY <1>4, SourceExact
  <2>3. M \in Holders(facts) <=> HasAll(facts, Required(input.bit), M)
    BY DEF Holders, HasAll
  <2>4. HasAll(facts, {"view"}, M) <=> EvaluateSourceBit(Predicate(facts, "view"), M)
    BY DEF HasAll
  <2>5. HasAll(facts, {"view"} \cup Required(input.bit), M)
          <=> /\ EvaluateSourceBit(Predicate(facts, "view"), M)
              /\ HasAll(facts, Required(input.bit), M)
    BY DEF HasAll
  <2> QED  BY <2>1, <2>2, <2>3, <2>4, <2>5
<1>5. CASE bits = {"view"}
  <2>1. ~((\A b \in {"view"} : SourceAllows(input.facts[b], M))
            <=> (\A b \in {"view"} : SourceAllows(input.other[b], M)))
    BY <1>1, <1>2, <1>3, <1>4, <1>5
  <2>2. (\A b \in {"view"} : SourceAllows(input.facts[b], M))
          # (\A b \in {"view"} : SourceAllows(input.other[b], M))
    BY <2>1
  <2> QED  BY <2>2
<1>6. CASE bits = {"view"} \cup Required(input.bit)
  <2>1. ~((\A b \in {"view"} \cup Needed : SourceAllows(input.facts[b], M))
            <=> (\A b \in {"view"} \cup Needed : SourceAllows(input.other[b], M)))
    BY <1>1, <1>2, <1>3, <1>4, <1>6
  <2>2. (\A b \in {"view"} \cup Needed : SourceAllows(input.facts[b], M))
          # (\A b \in {"view"} \cup Needed : SourceAllows(input.other[b], M))
    BY <2>1
  <2> QED  BY <2>2
<1> QED  BY <1>3, <1>5, <1>6

LEMMA CommonHolds == CalculationIInv => CommonExact
<1> SUFFICES ASSUME CalculationIInv, Planned PROVE CommonExact
  BY DEF CommonExact
<1>1. input \in InputShape /\ ValidateCalculationInputs
  BY PlannedCarries DEF CalculationIInv, CalculationTypeOK
<1>2. common = "true" \/ common = "false" => common = Answer(ProveCommonChannelPlan)
  BY DEF CalculationIInv, Compared, Undecided
<1>3. common = "true" => ProveCommonChannelPlan
  BY <1>2 DEF Answer
<1>4. common = "false" => ~ProveCommonChannelPlan
  BY <1>2 DEF Answer
<1>5. common = "true" => Exact(input.other, cell, grants, base, {})
  BY <1>3, CommonCarries
<1>6. common = "false" =>
          \E members \in SUBSET Roles, bits \in {{"view"}, {"view"} \cup Needed} :
              (\A b \in bits : SourceAllows(input.facts[b], members))
                # (\A b \in bits : SourceAllows(input.other[b], members))
  BY <1>1, <1>4, DifferenceShows
<1> QED  BY <1>5, <1>6 DEF CommonExact

-----------------------------------------------------------------------------
\* The inductive invariant: what synthesis has fixed so far is what every exact
\* encoding would fix, for any number of roles and any inputs.
THEOREM CalculationInvariant == CalculationSpec => []CalculationIInv
BY CalculationInitHolds, CalculationKeeps, PTL DEF CalculationSpec

\* The type invariant of the calculation, for any number of roles.
THEOREM TypeCorrect == CalculationSpec => []CalculationTypeOK
<1>1. CalculationIInv => CalculationTypeOK
  BY DEF CalculationIInv
<1> QED  BY <1>1, CalculationInvariant, PTL

\* Every plan of compile_supported_bits, for every bit, gives every possible
\* member exactly the access of the source: greedy synthesis is sound.
THEOREM AccessPreserved == CalculationSpec => []PlanExact
BY CalculationInvariant, PlanHolds, PTL

\* Greedy synthesis is complete: it gives a bit up only when no overrides and no
\* default could carry it, whatever order somebody might try.
THEOREM RefusedOnlyIfHopeless == CalculationSpec => []NoNeedlessRefusal
BY CalculationInvariant, NoNeedlessHolds, PTL

\* The readback of an encoding, drifted or not, and the comparison of two
\* sources of an index decide exactly what they are asked.
THEOREM ComparisonsDecide == CalculationSpec => []ComparisonsExact
<1>1. CalculationIInv => ComparisonsExact
  BY CheckHolds, CommonHolds DEF ComparisonsExact
<1> QED  BY <1>1, CalculationInvariant, PTL
=============================================================================
