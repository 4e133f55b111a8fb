---------------------------- MODULE RollbackProofs ----------------------------
(***************************************************************************)
(* Proofs about ServerLock and Rollback, for any programs, any starts and  *)
(* faults, and any channels, roles, emoji and categories.                  *)
(***************************************************************************)
EXTENDS RollbackProps, FiniteSetTheorems, TLAPS

-----------------------------------------------------------------------------
(* The lock.                                                               *)

LockStage == {"idle", "asked", "locked", "unlocked", "releasing"}

\* The part of TypeOK that is about the lock.
LockTypes ==
    /\ desc \in Seq(Marker) /\ aged \subseteq Marker /\ left \subseteq Marker
    /\ stage \in [Instance -> LockStage]
    /\ read \in [Instance -> Seq(Marker)] /\ marker \in [Instance -> Marker \union {<<>>}]
    /\ force \in [Instance -> BOOLEAN] /\ unsure \in BOOLEAN
    /\ starts \in 0..MaxStarts /\ faults \in 0..MaxFaults

\* MarkerExplained, of the one marker there is.
Explained ==
    \A m \in Marker : desc = <<m>> =>
        m \in left \/ \E p \in Instance : marker[p] = m /\ ~Idle(p)

LockAll == LockTypes /\ LockInv /\ HolderInv /\ Explained

LEMMA MarkerShape ==
    /\ \A m \in Marker : m[1] \in Instance /\ m[2] \in 1..MaxStarts /\ m[2] \in Nat
    /\ \A p \in Instance, n \in 1..MaxStarts : <<p, n>> \in Marker
    /\ \A p, n : <<p, n>>[1] = p /\ <<p, n>>[2] = n
    /\ <<>> \notin Marker
<1>1. <<>> \notin Marker
  <2> SUFFICES ASSUME <<>> \in Marker PROVE FALSE
    OBVIOUS
  <2>1. PICK p \in Instance, n \in 1..MaxStarts : <<>> = <<p, n>>
    BY DEF Marker
  <2>2. Len(<<>>) = Len(<<p, n>>)
    BY <2>1
  <2>. QED  BY <2>2
<1>. QED  BY <1>1, ServerLockAssumption DEF Marker

\* A text without a marker, and one with one.
LEMMA SingleShape ==
    /\ Single(<<>>)
    /\ \A m \in Marker : /\ Single(<<m>>) /\ <<m>> # <<>> /\ Head(<<m>>) = m /\ Tail(<<m>>) = <<>>
                         /\ DOMAIN <<m>> = {1} /\ <<m>>[1] = m
                         /\ <<m>> \in Seq(Marker)
    /\ \A m, n \in Marker : <<m>> = <<n>> => m = n
    /\ DOMAIN <<>> = {} /\ <<>> \in Seq(Marker)
  BY DEF Single

\* What Replaced leaves of a text with one marker at most.
LEMMA ReplacedShape ==
    ASSUME NEW p \in Instance, Single(read[p]), NEW m \in Marker
    PROVE  Replaced(p, m) = <<m>>
<1>1. <<>> \o <<m>> = <<m>>
  OBVIOUS
<1>2. CASE read[p] = <<>>
  BY <1>1, <1>2 DEF Replaced
<1>3. CASE \E n \in Marker : read[p] = <<n>>
  <2>1. PICK n \in Marker : read[p] = <<n>>
    BY <1>3
  <2>2. Tail(read[p]) = <<>> /\ read[p] # <<>>
    BY <2>1, SingleShape
  <2>. QED  BY <1>1, <2>2 DEF Replaced
<1>. QED  BY <1>2, <1>3 DEF Single

LEMMA ExplainedShape ==
    ASSUME Single(desc)
    PROVE  MarkerExplained <=> Explained
<1>1. CASE desc = <<>>
  BY <1>1, SingleShape DEF MarkerExplained, Explained
<1>2. CASE \E m \in Marker : desc = <<m>>
  <2>1. PICK m \in Marker : desc = <<m>>
    BY <1>2
  <2>2. DOMAIN desc = {1} /\ desc[1] = m /\ \A n \in Marker : desc = <<n>> => n = m
    BY <2>1, SingleShape
  <2>. QED  BY <2>1, <2>2 DEF MarkerExplained, Explained
<1>. QED  BY <1>1, <1>2 DEF Single

LEMMA ExplainedNext ==
    ASSUME Single(desc)', Explained'
    PROVE  MarkerExplained'
<1>1. CASE desc' = <<>>
  BY <1>1, SingleShape DEF MarkerExplained
<1>2. CASE \E m \in Marker : desc' = <<m>>
  <2>1. PICK m \in Marker : desc' = <<m>>
    BY <1>2
  <2>2. DOMAIN desc' = {1} /\ desc'[1] = m
    BY <2>1, SingleShape
  <2>. QED  BY <2>1, <2>2 DEF MarkerExplained, Explained
<1>. QED  BY <1>1, <1>2 DEF Single

-----------------------------------------------------------------------------
(* What a step of one program leaves alone.                                *)

OthersStay(p) ==
    \A q \in Instance : q # p =>
        stage'[q] = stage[q] /\ read'[q] = read[q] /\ marker'[q] = marker[q]

LEMMA GoesShape ==
    ASSUME LockTypes, NEW p \in Instance, NEW s \in LockStage, Goes(p, s)
    PROVE  /\ stage' \in [Instance -> LockStage] /\ stage'[p] = s
           /\ \A q \in Instance : q # p => stage'[q] = stage[q]
  BY DEF Goes, LockTypes

LEMMA RestsShape ==
    ASSUME LockTypes, NEW p \in Instance, NEW s \in LockStage, Rests(p, s)
    PROVE  /\ stage' \in [Instance -> LockStage] /\ stage'[p] = s
           /\ read' \in [Instance -> Seq(Marker)] /\ read'[p] = <<>>
           /\ force' \in [Instance -> BOOLEAN]
           /\ \A q \in Instance : q # p => stage'[q] = stage[q] /\ read'[q] = read[q]
<1>1. /\ stage' \in [Instance -> LockStage] /\ stage'[p] = s
      /\ \A q \in Instance : q # p => stage'[q] = stage[q]
  BY GoesShape DEF Rests
<1>2. /\ read' \in [Instance -> Seq(Marker)] /\ read'[p] = <<>>
      /\ \A q \in Instance : q # p => read'[q] = read[q]
  BY SingleShape DEF Rests, LockTypes
<1>3. force' \in [Instance -> BOOLEAN]
  BY DEF Rests, LockTypes
<1>. QED  BY <1>1, <1>2, <1>3

\* Stages, apart.
LEMMA StageShape ==
    ASSUME LockAll, NEW p \in Instance
    PROVE  /\ stage[p] \in LockStage
           /\ Holding(p) <=> stage[p] = "locked"
           /\ Idle(p) <=> stage[p] = "idle"
           /\ stage[p] \in {"locked", "releasing"} =>
                 marker[p] \in Marker /\ marker[p][1] = p /\ marker[p][2] <= starts
           /\ stage[p] \notin {"locked", "releasing"} => marker[p] = <<>>
           /\ starts \in Nat
  BY ServerLockAssumption DEF LockAll, LockTypes, LockInv, Holding, Idle
\* LockAll, one program at a time.
LockOf(q) ==
    /\ Single(read[q])
    /\ IF stage[q] \in {"locked", "releasing"}
       THEN marker[q] \in Marker /\ marker[q][1] = q /\ marker[q][2] <= starts
       ELSE marker[q] = <<>>
    /\ stage[q] = "asked" => starts > 0 /\ \A m \in left : m[1] = q => m[2] < starts
    /\ stage[q] = "releasing" /\ read[q] = <<>> => desc # <<marker[q]>>
    /\ stage[Rollback] # "unlocked"

HeldBy(q) ==
    /\ desc = <<marker[q]>> /\ marker[q] \notin left
    /\ \A p \in Instance : stage[p] = "asked" => read[p] = <<marker[q]>>

LEMMA LockParts ==
    /\ LockInv <=> /\ Single(desc) /\ \A m \in left : m[2] <= starts
                   /\ \A q \in Instance : LockOf(q)
    /\ HolderInv <=> (~unsure => \A q \in Instance : Holding(q) => HeldBy(q))
  BY DEF LockInv, LockOf, HolderInv, HeldBy, Instance

LEMMA LockPartsNext ==
    /\ LockInv' <=> /\ Single(desc)' /\ \A m \in left' : m[2] <= starts'
                    /\ \A q \in Instance : LockOf(q)'
    /\ HolderInv' <=> (~unsure' => \A q \in Instance : Holding(q)' => HeldBy(q)')
  BY DEF LockInv, LockOf, HolderInv, HeldBy, Instance

LEMMA AskLock ==
    ASSUME LockAll, NEW p \in Instance, NEW forced \in BOOLEAN, Ask(p, forced)
    PROVE  LockAll'
<1>. USE ServerLockAssumption
<1>1. /\ stage' \in [Instance -> LockStage] /\ stage'[p] = "asked" /\ stage[p] = "idle"
      /\ \A q \in Instance : q # p => stage'[q] = stage[q]
  BY GoesShape DEF Ask, LockAll, LockStage, Idle
<1>2. /\ read' \in [Instance -> Seq(Marker)] /\ read'[p] = desc
      /\ \A q \in Instance : q # p => read'[q] = read[q]
  BY DEF Ask, LockAll, LockTypes
<1>3. /\ desc' = desc /\ aged' = aged /\ marker' = marker /\ faults' = faults /\ left' = left
      /\ starts' = starts + 1 /\ starts < MaxStarts /\ (~unsure' => ~unsure)
  BY DEF Ask
<1>4. force' \in [Instance -> BOOLEAN] /\ unsure' \in BOOLEAN
  BY DEF Ask, LockAll, LockTypes, Overlaps
<1>5. LockTypes'
  BY <1>1, <1>2, <1>3, <1>4 DEF LockAll, LockTypes
<1>6. LockInv'
  <2>1. /\ starts \in Nat /\ Single(desc) /\ (\A m \in left : m[2] <= starts /\ m[2] \in Nat)
        /\ \A q \in Instance : LockOf(q)
    BY LockParts, MarkerShape DEF LockAll, LockTypes
  <2>2. ASSUME NEW q \in Instance PROVE LockOf(q)'
    <3>1. LockOf(q) /\ (marker[q] \in Marker => marker[q][2] \in Nat)
      BY <2>1, MarkerShape
    <3>2. stage'[Rollback] # "unlocked"
      BY <1>1, <2>1 DEF Instance, LockOf
    <3>3. CASE q = p
      BY <3>1, <3>2, <3>3, <2>1, <1>1, <1>2, <1>3 DEF LockOf
    <3>4. CASE q # p
      BY <3>1, <3>2, <3>4, <2>1, <1>1, <1>2, <1>3 DEF LockOf
    <3>. QED  BY <3>3, <3>4
  <2>3. Single(desc)' /\ \A m \in left' : m[2] <= starts'
    BY <2>1, <1>3 DEF Single
  <2>. QED  BY <2>2, <2>3, LockPartsNext
<1>7. HolderInv'
  <2> SUFFICES ASSUME ~unsure', NEW q \in Instance, Holding(q)' PROVE HeldBy(q)'
    BY LockPartsNext
  <2>1. q # p /\ HeldBy(q)
    BY <1>1, <1>3, LockParts DEF Holding, LockAll
  <2>. QED  BY <2>1, <1>1, <1>2, <1>3 DEF HeldBy
<1>8. Explained'
  BY <1>1, <1>3 DEF Explained, LockAll, Idle
<1>. QED  BY <1>5, <1>6, <1>7, <1>8 DEF LockAll

\* A program that ends its acquisition, its release or its life without writing the
\* text: its marker, if it had one, is left behind.
LEMMA GivesUpLock ==
    ASSUME LockAll, NEW p \in Instance, NEW s \in {"idle", "unlocked"},
           s = "unlocked" => p # Rollback /\ marker[p] = <<>>,
           Rests(p, s), marker' = [marker EXCEPT ![p] = <<>>],
           desc' = desc, aged' = aged, unsure' = unsure,
           left' = left \union (IF marker[p] = <<>> THEN {} ELSE {marker[p]}),
           starts' \in starts..MaxStarts, faults' \in 0..MaxFaults
    PROVE  LockAll'
<1>. USE ServerLockAssumption
<1>1. /\ stage' \in [Instance -> LockStage] /\ stage'[p] = s
      /\ read' \in [Instance -> Seq(Marker)] /\ read'[p] = <<>>
      /\ force' \in [Instance -> BOOLEAN]
      /\ \A q \in Instance : q # p => stage'[q] = stage[q] /\ read'[q] = read[q]
  BY RestsShape DEF LockAll, LockStage
<1>2. /\ marker' \in [Instance -> Marker \union {<<>>}] /\ marker'[p] = <<>>
      /\ \A q \in Instance : q # p => marker'[q] = marker[q]
  BY DEF LockAll, LockTypes
<1>3. marker[p] \in Marker \/ marker[p] = <<>>
  BY DEF LockAll, LockTypes
<1>4. /\ left' \subseteq Marker /\ left \subseteq left'
      /\ \A m \in left' : m \in left \/ (m = marker[p] /\ marker[p] \in Marker)
      /\ marker[p] \in Marker => marker[p] \in left'
  BY <1>3, MarkerShape DEF LockAll, LockTypes
<1>5. starts \in Nat /\ starts' \in 0..MaxStarts /\ starts <= starts' /\ starts' \in Nat
  BY DEF LockAll, LockTypes
<1>6. /\ Single(desc) /\ (\A m \in left : m[2] <= starts /\ m[2] \in Nat)
      /\ \A q \in Instance : LockOf(q)
  BY LockParts, MarkerShape DEF LockAll, LockTypes
<1>7. marker[p] \in Marker =>
          marker[p][1] = p /\ marker[p][2] <= starts /\ marker[p][2] \in Nat
  BY <1>6, MarkerShape DEF LockOf
<1>8. LockTypes'
  BY <1>1, <1>2, <1>4, <1>5 DEF LockAll, LockTypes
<1>9. LockInv'
  <2>1. ASSUME NEW m \in left' PROVE m[2] <= starts'
    BY <1>4, <1>5, <1>6, <1>7
  <2>2. ASSUME NEW q \in Instance PROVE LockOf(q)'
    <3>1. stage'[Rollback] # "unlocked"
      BY <1>1, <1>6 DEF Instance, LockOf
    <3>2. CASE q = p
      BY <3>1, <3>2, <1>1, <1>2, SingleShape DEF LockOf
    <3>3. CASE q # p
      <4>1. stage'[q] = stage[q] /\ read'[q] = read[q] /\ marker'[q] = marker[q]
        BY <3>3, <1>1, <1>2
      <4>2. LockOf(q) /\ (marker[q] \in Marker => marker[q][2] \in Nat)
        BY <1>6, MarkerShape
      <4>3. \A m \in left' : m[1] = q => m \in left
        BY <3>3, <1>4, <1>7
      <4>4. stage[q] = "asked" => starts' > 0 /\ \A m \in left' : m[1] = q => m[2] < starts'
        BY <4>2, <4>3, <1>5, <1>6 DEF LockOf
      <4>. QED  BY <3>1, <4>1, <4>2, <4>4, <1>5 DEF LockOf
    <3>. QED  BY <3>2, <3>3
  <2>3. Single(desc)'
    BY <1>6 DEF Single
  <2>. QED  BY <2>1, <2>2, <2>3, LockPartsNext
<1>10. HolderInv'
  <2> SUFFICES ASSUME ~unsure', NEW q \in Instance, Holding(q)' PROVE HeldBy(q)'
    BY LockPartsNext
  <2>1. q # p /\ stage[q] = "locked" /\ HeldBy(q)
    BY <1>1, LockParts DEF Holding, LockAll
  <2>2. marker'[q] = marker[q] /\ marker[q] \in Marker /\ marker[q][1] = q
    BY <2>1, <1>2, <1>6 DEF LockOf
  <2>3. marker'[q] \notin left'
    BY <2>1, <2>2, <1>4, <1>7 DEF HeldBy
  <2>. QED  BY <2>1, <2>2, <2>3, <1>1 DEF HeldBy
<1>11. Explained'
  <2> SUFFICES ASSUME NEW m \in Marker, desc' = <<m>>, m \notin left'
               PROVE  \E q \in Instance : marker'[q] = m /\ stage'[q] # "idle"
    BY DEF Explained, Idle
  <2>1. PICK q \in Instance : marker[q] = m /\ stage[q] # "idle"
    BY <1>4 DEF Explained, LockAll, Idle
  <2>2. q # p
    BY <2>1, <1>4
  <2>. QED  BY <2>1, <2>2, <1>1, <1>2
<1>. QED  BY <1>8, <1>9, <1>10, <1>11 DEF LockAll

\* Marks unchanged are marks set to what they were.
LEMMA NoMarkShape ==
    ASSUME LockAll, NEW p \in Instance, marker[p] = <<>>
    PROVE  marker = [marker EXCEPT ![p] = <<>>]
  BY DEF LockAll, LockTypes

LEMMA FaultShape ==
    ASSUME LockAll, Fault
    PROVE  faults' \in 0..MaxFaults
  BY ServerLockAssumption DEF LockAll, LockTypes, Fault

LEMMA AskFailsLock ==
    ASSUME LockAll, NEW p \in Instance, AskFails(p)
    PROVE  LockAll'
<1>1. marker[p] = <<>>
  BY StageShape DEF AskFails
<1>2. starts' \in starts..MaxStarts /\ faults' \in 0..MaxFaults
  BY FaultShape, StageShape, ServerLockAssumption DEF AskFails, LockAll, LockTypes
<1>3. PICK s \in {"idle", "unlocked"} : s = IF p = Rollback THEN "idle" ELSE "unlocked"
  OBVIOUS
<1>4. /\ Rests(p, s) /\ (s = "unlocked" => p # Rollback)
      /\ desc' = desc /\ aged' = aged /\ unsure' = unsure /\ marker' = marker /\ left' = left
  BY <1>3 DEF AskFails, Lockless
<1>5. /\ marker' = [marker EXCEPT ![p] = <<>>]
      /\ left' = left \union (IF marker[p] = <<>> THEN {} ELSE {marker[p]})
  BY <1>1, <1>4, NoMarkShape
<1>. QED  BY <1>1, <1>2, <1>4, <1>5, GivesUpLock

LEMMA RefusedLock ==
    ASSUME LockAll, NEW p \in Instance, Refused(p)
    PROVE  LockAll'
<1>1. marker[p] = <<>>
  BY StageShape DEF Refused
<1>2. starts' \in starts..MaxStarts /\ faults' \in 0..MaxFaults
  BY StageShape, ServerLockAssumption DEF Refused, LockAll, LockTypes
<1>4. /\ Rests(p, "idle")
      /\ desc' = desc /\ aged' = aged /\ unsure' = unsure /\ marker' = marker /\ left' = left
  BY DEF Refused
<1>5. /\ marker' = [marker EXCEPT ![p] = <<>>]
      /\ left' = left \union (IF marker[p] = <<>> THEN {} ELSE {marker[p]})
  BY <1>1, <1>4, NoMarkShape
<1>. QED  BY <1>1, <1>2, <1>4, <1>5, GivesUpLock

LEMMA ReleaseFailsLock ==
    ASSUME LockAll, NEW p \in Instance, ReleaseFails(p)
    PROVE  LockAll'
<1>1. marker[p] \in Marker
  BY StageShape DEF ReleaseFails
<1>2. starts' \in starts..MaxStarts /\ faults' \in 0..MaxFaults
  BY FaultShape, StageShape, ServerLockAssumption DEF ReleaseFails, LockAll, LockTypes
<1>4. /\ Rests(p, "idle") /\ desc' = desc /\ aged' = aged /\ unsure' = unsure
      /\ marker' = [marker EXCEPT ![p] = <<>>]
      /\ left' = left \union {marker[p]}
  BY DEF ReleaseFails
<1>5. left' = left \union (IF marker[p] = <<>> THEN {} ELSE {marker[p]})
  BY <1>1, <1>4, MarkerShape
<1>. QED  BY <1>2, <1>4, <1>5, GivesUpLock

LEMMA DieLock ==
    ASSUME LockAll, NEW p \in Instance, Die(p)
    PROVE  LockAll'
<1>1. starts' \in starts..MaxStarts /\ faults' \in 0..MaxFaults
  BY FaultShape, ServerLockAssumption DEF Die, LockAll, LockTypes
<1>2. /\ Rests(p, "idle") /\ desc' = desc /\ aged' = aged /\ unsure' = unsure
      /\ marker' = [marker EXCEPT ![p] = <<>>]
      /\ left' = left \union (IF marker[p] = <<>> THEN {} ELSE {marker[p]})
  BY DEF Die
<1>. QED  BY <1>1, <1>2, GivesUpLock

\* What every step of the lock may use of LockAll.
LEMMA LockFacts ==
    ASSUME LockAll
    PROVE  /\ starts \in Nat /\ Single(desc) /\ desc \in Seq(Marker)
           /\ \A m \in left : m \in Marker /\ m[2] <= starts /\ m[2] \in Nat
           /\ \A q \in Instance :
                 /\ LockOf(q)
                 /\ stage[q] \in {"locked", "releasing"} =>
                       marker[q] \in Marker /\ marker[q][1] = q /\ marker[q][2] <= starts
                 /\ Single(read[q])
           /\ ~unsure => \A q \in Instance : Holding(q) => HeldBy(q)
<1>1. starts \in Nat /\ desc \in Seq(Marker)
  BY ServerLockAssumption DEF LockAll, LockTypes
<1>2. Single(desc) /\ \A q \in Instance : LockOf(q)
  BY LockParts DEF LockAll
<1>3. \A m \in left : m \in Marker /\ m[2] <= starts /\ m[2] \in Nat
  BY LockParts, MarkerShape DEF LockAll, LockTypes
<1>4. \A q \in Instance :
         /\ stage[q] \in {"locked", "releasing"} =>
               marker[q] \in Marker /\ marker[q][1] = q /\ marker[q][2] <= starts
         /\ Single(read[q])
  BY <1>2 DEF LockOf
<1>5. ~unsure => \A q \in Instance : Holding(q) => HeldBy(q)
  BY LockParts DEF LockAll
<1>. QED  BY <1>1, <1>2, <1>3, <1>4, <1>5

\* The program's own marker: its number is new.
LEMMA OwnShape ==
    ASSUME LockAll, NEW p \in Instance, stage[p] = "asked"
    PROVE  /\ OwnMarker(p) \in Marker /\ OwnMarker(p)[1] = p /\ OwnMarker(p)[2] = starts
           /\ OwnMarker(p) \notin left
           /\ Replaced(p, OwnMarker(p)) = <<OwnMarker(p)>>
           /\ marker[p] = <<>>
<1>1. starts \in Nat /\ starts > 0 /\ starts <= MaxStarts /\ MaxStarts \in Nat
  BY ServerLockAssumption DEF LockAll, LockTypes, LockInv
<1>2. OwnMarker(p) \in Marker /\ OwnMarker(p)[1] = p /\ OwnMarker(p)[2] = starts
  BY <1>1, MarkerShape DEF OwnMarker
<1>3. \A m \in left : m[1] = p => m[2] < starts /\ m[2] \in Nat
  BY MarkerShape DEF LockAll, LockTypes, LockInv
<1>4. Replaced(p, OwnMarker(p)) = <<OwnMarker(p)>>
  BY <1>2, ReplacedShape, LockFacts
<1>5. marker[p] = <<>>
  BY StageShape
<1>. QED  BY <1>1, <1>2, <1>3, <1>4, <1>5

\* A holder named by the text a program has read is one it would take the lock from.
LEMMA TakesOverHolder ==
    ASSUME LockAll, NEW p \in Instance, NEW q \in Instance, stage[p] = "asked",
           ~unsure, Holding(q)
    PROVE  TakesOver(p)
<1>1. HeldBy(q) /\ marker[q] \in Marker
  BY LockFacts DEF Holding
<1>2. read[p] = <<marker[q]>> /\ marker[q] \notin left
  BY <1>1 DEF HeldBy
<1>3. read[p] # <<>> /\ Head(read[p]) = marker[q]
  BY <1>1, <1>2, SingleShape
<1>. QED  BY <1>2, <1>3 DEF TakesOver

LEMMA AcquireLock ==
    ASSUME LockAll, NEW p \in Instance, Acquire(p)
    PROVE  LockAll'
<1>. USE ServerLockAssumption
<1>1. /\ stage' \in [Instance -> LockStage] /\ stage'[p] = "locked" /\ stage[p] = "asked"
      /\ read' \in [Instance -> Seq(Marker)] /\ read'[p] = <<>>
      /\ force' \in [Instance -> BOOLEAN]
      /\ \A q \in Instance : q # p => stage'[q] = stage[q] /\ read'[q] = read[q]
  BY RestsShape DEF Acquire, MayWrite, LockAll, LockStage
<1>. DEFINE own == OwnMarker(p)
<1>2. /\ own \in Marker /\ own[1] = p /\ own[2] = starts /\ own \notin left
      /\ desc' = <<own>>
  BY <1>1, OwnShape DEF Acquire
<1>3. /\ marker' \in [Instance -> Marker \union {<<>>}] /\ marker'[p] = own
      /\ \A q \in Instance : q # p => marker'[q] = marker[q]
  BY <1>2 DEF Acquire, LockAll, LockTypes
<1>4. /\ aged' = aged /\ starts' = starts /\ faults' = faults /\ left' = left
      /\ unsure' \in BOOLEAN
      /\ ~unsure' => ~unsure /\ ~Overlaps(p) /\ ~TakesOver(p)
  BY DEF Acquire, LockAll, LockTypes, Overlaps, TakesOver
<1>. HIDE DEF own
<1>5. LockTypes'
  BY <1>1, <1>2, <1>3, <1>4, SingleShape DEF LockAll, LockTypes
<1>6. LockInv'
  <2>1. ASSUME NEW q \in Instance PROVE LockOf(q)'
    <3>1. stage'[Rollback] # "unlocked"
      BY <1>1, LockFacts DEF Instance, LockOf
    <3>2. CASE q = p
      BY <3>1, <3>2, <1>1, <1>2, <1>3, <1>4, SingleShape, LockFacts DEF LockOf
    <3>3. CASE q # p
      <4>1. stage'[q] = stage[q] /\ read'[q] = read[q] /\ marker'[q] = marker[q]
        BY <3>3, <1>1, <1>3
      <4>2. LockOf(q)
        BY LockFacts
      <4>3. stage[q] = "releasing" => desc' # <<marker[q]>>
        BY <3>3, <1>2, LockFacts, SingleShape
      <4>. QED  BY <3>1, <4>1, <4>2, <4>3, <1>4 DEF LockOf
    <3>. QED  BY <3>2, <3>3
  <2>2. Single(desc)' /\ \A m \in left' : m[2] <= starts'
    BY <1>2, <1>4, LockFacts DEF Single
  <2>. QED  BY <2>1, <2>2, LockPartsNext
<1>7. HolderInv'
  <2> SUFFICES ASSUME ~unsure', NEW q \in Instance, Holding(q)' PROVE HeldBy(q)'
    BY LockPartsNext
  <2>1. q = p
    BY <1>1, <1>4, TakesOverHolder DEF Holding
  <2>2. \A r \in Instance : stage'[r] # "asked"
    BY <1>1, <1>4 DEF Overlaps, AtRest
  <2>. QED  BY <2>1, <2>2, <1>2, <1>3, <1>4 DEF HeldBy
<1>8. Explained'
  <2>1. stage'[p] # "idle" /\ marker'[p] = own /\ \A m \in Marker : desc' = <<m>> => m = own
    BY <1>1, <1>2, <1>3, SingleShape
  <2>. QED  BY <2>1 DEF Explained, Idle
<1>. QED  BY <1>5, <1>6, <1>7, <1>8 DEF LockAll

LEMMA AcquireFailsLock ==
    ASSUME LockAll, NEW p \in Instance, AcquireFails(p)
    PROVE  LockAll'
<1>. USE ServerLockAssumption
<1>0. stage[p] = "asked" /\ faults' \in 0..MaxFaults /\ marker[p] = <<>>
  BY FaultShape, OwnShape DEF AcquireFails, MayWrite
<1>s. PICK s \in {"idle", "unlocked"} : s = IF p = Rollback THEN "idle" ELSE "unlocked"
  OBVIOUS
<1>r. Rests(p, s) /\ (s = "unlocked" => p # Rollback)
  BY <1>s DEF AcquireFails, Lockless
<1>1. /\ stage' \in [Instance -> LockStage] /\ stage'[p] = s
      /\ read' \in [Instance -> Seq(Marker)] /\ read'[p] = <<>>
      /\ force' \in [Instance -> BOOLEAN]
      /\ \A q \in Instance : q # p => stage'[q] = stage[q] /\ read'[q] = read[q]
  BY <1>r, RestsShape DEF LockAll, LockStage
<1>4. aged' = aged /\ starts' = starts /\ marker' = marker
  BY DEF AcquireFails
<1>5. CASE UNCHANGED <<desc, left, unsure>>
  <2>1. /\ marker' = [marker EXCEPT ![p] = <<>>]
        /\ left' = left \union (IF marker[p] = <<>> THEN {} ELSE {marker[p]})
    BY <1>0, <1>4, <1>5, NoMarkShape
  <2>2. starts' \in starts..MaxStarts
    BY <1>4 DEF LockAll, LockTypes
  <2>3. (s = "unlocked" => p # Rollback /\ marker[p] = <<>>)
    BY <1>r, <1>0
  <2>4. desc' = desc /\ unsure' = unsure
    BY <1>5
  <2>. QED  BY <1>0, <1>r, <1>4, <2>1, <2>2, <2>3, <2>4, GivesUpLock
<1>6. CASE /\ desc' = Replaced(p, OwnMarker(p))
           /\ left' = left \union {OwnMarker(p)}
           /\ unsure' = (unsure \/ Overlaps(p) \/ TakesOver(p))
  <2>. DEFINE own == OwnMarker(p)
  <2>1. /\ own \in Marker /\ own[1] = p /\ own[2] = starts
        /\ desc' = <<own>> /\ left' = left \union {own}
    BY <1>0, <1>6, OwnShape
  <2>2. unsure' \in BOOLEAN /\ (~unsure' => ~unsure /\ ~TakesOver(p))
    BY <1>6 DEF LockAll, LockTypes, Overlaps, TakesOver
  <2>. HIDE DEF own
  <2>3. LockTypes'
    BY <1>0, <1>1, <1>4, <2>1, <2>2, SingleShape DEF LockAll, LockTypes
  <2>4. LockInv'
    <3>1. ASSUME NEW q \in Instance PROVE LockOf(q)'
      <4>1. stage'[Rollback] # "unlocked"
        BY <1>1, <1>r, LockFacts DEF Instance, LockOf
      <4>2. CASE q = p
        BY <4>1, <4>2, <1>0, <1>1, <1>4, SingleShape DEF LockOf
      <4>3. CASE q # p
        <5>1. stage'[q] = stage[q] /\ read'[q] = read[q] /\ marker'[q] = marker[q]
          BY <4>3, <1>1, <1>4
        <5>2. LockOf(q) /\ \A m \in left' : m[1] = q => m \in left
          BY <4>3, <2>1, LockFacts
        <5>3. stage[q] = "releasing" => desc' # <<marker[q]>>
          BY <4>3, <2>1, LockFacts, SingleShape
        <5>. QED  BY <4>1, <5>1, <5>2, <5>3, <1>4 DEF LockOf
      <4>. QED  BY <4>2, <4>3
    <3>2. Single(desc)' /\ \A m \in left' : m[2] <= starts'
      BY <2>1, <1>4, LockFacts DEF Single
    <3>. QED  BY <3>1, <3>2, LockPartsNext
  <2>5. HolderInv'
    <3> SUFFICES ASSUME ~unsure', NEW q \in Instance, Holding(q)' PROVE FALSE
      BY LockPartsNext
    <3>1. Holding(q)
      BY <1>1 DEF Holding
    <3>. QED  BY <1>0, <2>2, <3>1, TakesOverHolder
  <2>6. Explained'
    <3>1. \A m \in Marker : desc' = <<m>> => m \in left'
      BY <2>1, SingleShape
    <3>. QED  BY <3>1 DEF Explained
  <2>. QED  BY <2>3, <2>4, <2>5, <2>6 DEF LockAll
<1>. QED  BY <1>5, <1>6 DEF AcquireFails

LEMMA DescribeLock ==
    ASSUME LockAll, NEW p \in Instance, Describe(p)
    PROVE  LockAll'
<1>1. /\ stage[p] \in {"locked", "unlocked"} /\ desc' = Text(marker[p])
      /\ aged' = aged /\ stage' = stage /\ read' = read /\ marker' = marker /\ force' = force
      /\ starts' = starts /\ faults' = faults /\ left' = left
  BY DEF Describe
<1>2. /\ unsure' \in BOOLEAN
      /\ ~unsure' => ~unsure /\ \A i \in DOMAIN desc : desc[i] = marker[p]
  BY DEF Describe, LockAll, LockTypes
<1>3. \/ stage[p] = "unlocked" /\ desc' = <<>>
      \/ /\ stage[p] = "locked" /\ marker[p] \in Marker /\ marker[p][1] = p
         /\ desc' = <<marker[p]>>
  BY <1>1, StageShape, MarkerShape DEF Text
<1>4. LockTypes'
  BY <1>1, <1>2, <1>3, SingleShape DEF LockAll, LockTypes
<1>5. LockInv'
  <2>1. ASSUME NEW q \in Instance PROVE LockOf(q)'
    <3>1. LockOf(q) /\ (stage[q] = "releasing" => marker[q] \in Marker /\ marker[q][1] = q)
      BY LockFacts
    <3>2. stage[q] = "releasing" => desc' # <<marker[q]>>
      BY <1>3, <3>1, SingleShape
    <3>. QED  BY <1>1, <3>1, <3>2 DEF LockOf
  <2>2. Single(desc)' /\ \A m \in left' : m[2] <= starts'
    BY <1>1, <1>3, LockFacts DEF Single
  <2>. QED  BY <2>1, <2>2, LockPartsNext
<1>6. HolderInv'
  <2> SUFFICES ASSUME ~unsure', NEW q \in Instance, Holding(q)' PROVE HeldBy(q)'
    BY LockPartsNext
  <2>1. Holding(q) /\ HeldBy(q) /\ marker[q] \in Marker /\ marker[q][1] = q
    BY <1>1, <1>2, LockFacts DEF Holding
  <2>2. desc = <<marker[q]>> /\ 1 \in DOMAIN desc /\ desc[1] = marker[q]
    BY <2>1, SingleShape DEF HeldBy
  <2>3. marker[q] = marker[p]
    BY <1>2, <2>2
  <2>4. desc' = <<marker[q]>>
    BY <1>3, <2>1, <2>3, StageShape, MarkerShape
  <2>. QED  BY <2>1, <2>4, <1>1 DEF HeldBy
<1>7. Explained'
  <2>1. ASSUME NEW m \in Marker, desc' = <<m>> PROVE marker'[p] = m /\ stage'[p] # "idle"
    BY <2>1, <1>1, <1>3, SingleShape
  <2>. QED  BY <2>1 DEF Explained, Idle
<1>. QED  BY <1>4, <1>5, <1>6, <1>7 DEF LockAll

LEMMA AskReleaseLock ==
    ASSUME LockAll, NEW p \in Instance, AskRelease(p)
    PROVE  LockAll'
<1>1. /\ stage' \in [Instance -> LockStage] /\ stage'[p] = "releasing" /\ stage[p] = "locked"
      /\ \A q \in Instance : q # p => stage'[q] = stage[q]
  BY GoesShape DEF AskRelease, LockAll, LockStage, Holding
<1>2. /\ read' \in [Instance -> Seq(Marker)] /\ read'[p] = desc
      /\ \A q \in Instance : q # p => read'[q] = read[q]
  BY DEF AskRelease, LockAll, LockTypes
<1>3. /\ desc' = desc /\ aged' = aged /\ marker' = marker /\ force' = force
      /\ starts' = starts /\ faults' = faults /\ left' = left /\ unsure' = unsure
  BY DEF AskRelease
<1>4. LockTypes'
  BY <1>1, <1>2, <1>3 DEF LockAll, LockTypes
<1>5. LockInv'
  <2>1. ASSUME NEW q \in Instance PROVE LockOf(q)'
    <3>1. LockOf(q) /\ Single(desc) /\ stage'[Rollback] # "unlocked"
      BY <1>1, LockFacts DEF Instance, LockOf
    <3>2. CASE q = p
      <4>1. marker[p] \in Marker /\ (desc = <<>> => desc # <<marker[p]>>)
        BY <1>1, LockFacts, SingleShape
      <4>. QED  BY <3>1, <3>2, <4>1, <1>1, <1>2, <1>3 DEF LockOf
    <3>3. CASE q # p
      BY <3>1, <3>3, <1>1, <1>2, <1>3 DEF LockOf
    <3>. QED  BY <3>2, <3>3
  <2>2. Single(desc)' /\ \A m \in left' : m[2] <= starts'
    BY <1>3, LockFacts DEF Single
  <2>. QED  BY <2>1, <2>2, LockPartsNext
<1>6. HolderInv'
  <2> SUFFICES ASSUME ~unsure', NEW q \in Instance, Holding(q)' PROVE HeldBy(q)'
    BY LockPartsNext
  <2>1. HeldBy(q)
    BY <1>1, <1>3, LockFacts DEF Holding
  <2>. QED  BY <2>1, <1>1, <1>2, <1>3 DEF HeldBy
<1>7. Explained'
  BY <1>1, <1>3 DEF Explained, Idle, LockAll
<1>. QED  BY <1>4, <1>5, <1>6, <1>7 DEF LockAll

LEMMA ReleaseLock ==
    ASSUME LockAll, NEW p \in Instance, Release(p)
    PROVE  LockAll'
<1>1. /\ stage' \in [Instance -> LockStage] /\ stage'[p] = "idle" /\ stage[p] = "releasing"
      /\ read' \in [Instance -> Seq(Marker)] /\ read'[p] = <<>>
      /\ force' \in [Instance -> BOOLEAN]
      /\ \A q \in Instance : q # p => stage'[q] = stage[q] /\ read'[q] = read[q]
  BY RestsShape DEF Release, LockAll, LockStage
<1>2. /\ marker' \in [Instance -> Marker \union {<<>>}] /\ marker'[p] = <<>>
      /\ \A q \in Instance : q # p => marker'[q] = marker[q]
  BY DEF Release, LockAll, LockTypes
<1>3. /\ aged' = aged /\ starts' = starts /\ faults' = faults /\ left' = left
      /\ unsure' \in BOOLEAN
  BY DEF Release, LockAll, LockTypes
<1>4. \/ read[p] = <<>> /\ desc' = desc /\ desc # <<marker[p]>>
      \/ /\ read[p] # <<>> /\ desc' = <<>>
         /\ ~unsure' => desc = read[p] /\ Head(read[p]) = marker[p]
  <2>1. LockOf(p) /\ Single(read[p])
    BY LockFacts
  <2>2. CASE read[p] = <<>>
    BY <2>1, <2>2, <1>1 DEF Release, LockOf
  <2>3. CASE read[p] # <<>>
    BY <2>1, <2>3, SingleShape DEF Release, Single
  <2>. QED  BY <2>2, <2>3
<1>5. /\ marker[p] \in Marker /\ (~unsure' => ~unsure)
      /\ \A q \in Instance : Single(read[q])
  BY <1>1, LockFacts DEF Release
<1>6. LockTypes'
  BY <1>1, <1>2, <1>3, <1>4, SingleShape DEF LockAll, LockTypes
<1>7. LockInv'
  <2>1. ASSUME NEW q \in Instance PROVE LockOf(q)'
    <3>1. LockOf(q) /\ stage'[Rollback] # "unlocked"
      BY <1>1, LockFacts DEF Instance, LockOf
    <3>2. CASE q = p
      BY <3>1, <3>2, <1>1, <1>2, SingleShape DEF LockOf
    <3>3. CASE q # p
      <4>1. stage'[q] = stage[q] /\ read'[q] = read[q] /\ marker'[q] = marker[q]
        BY <3>3, <1>1, <1>2
      <4>2. stage[q] = "releasing" => marker[q] \in Marker
        BY LockFacts
      <4>3. stage[q] = "releasing" /\ read[q] = <<>> => desc' # <<marker[q]>>
        BY <3>1, <4>2, <1>4, SingleShape DEF LockOf
      <4>. QED  BY <3>1, <4>1, <4>3, <1>3 DEF LockOf
    <3>. QED  BY <3>2, <3>3
  <2>2. Single(desc)'
    BY <1>4, LockFacts DEF Single
  <2>3. \A m \in left' : m[2] <= starts'
    BY <1>3, LockFacts
  <2>. QED  BY <2>1, <2>2, <2>3, LockPartsNext
<1>8. HolderInv'
  <2> SUFFICES ASSUME ~unsure', NEW q \in Instance, Holding(q)' PROVE HeldBy(q)'
    BY LockPartsNext
  <2>1. q # p /\ Holding(q) /\ HeldBy(q) /\ marker[q] \in Marker /\ marker[q][1] = q
    BY <1>1, <1>5, LockFacts DEF Holding
  <2>2. marker[p] # marker[q]
    BY <2>1, <1>1, LockFacts
  <2>3. desc' = desc
    <3>1. CASE read[p] # <<>>
      <4>1. desc = read[p] /\ Head(read[p]) = marker[p] /\ desc = <<marker[q]>>
        BY <3>1, <2>1, <1>4 DEF HeldBy
      <4>2. Head(desc) = marker[q]
        BY <4>1, <2>1, SingleShape
      <4>. QED  BY <4>1, <4>2, <2>2
    <3>. QED  BY <3>1, <1>4
  <2>4. \A r \in Instance : stage'[r] = "asked" => stage[r] = "asked" /\ read'[r] = read[r]
    BY <1>1
  <2>. QED  BY <2>1, <2>3, <2>4, <1>2, <1>3 DEF HeldBy
<1>9. Explained'
  <2> SUFFICES ASSUME NEW m \in Marker, desc' = <<m>>, m \notin left'
               PROVE  \E q \in Instance : marker'[q] = m /\ stage'[q] # "idle"
    BY DEF Explained, Idle
  <2>1. desc' # <<>>
    BY SingleShape
  <2>2. desc' = desc /\ desc # <<marker[p]>>
    BY <2>1, <1>4
  <2>3. PICK q \in Instance : marker[q] = m /\ stage[q] # "idle"
    BY <2>2, <1>3 DEF Explained, LockAll, Idle
  <2>4. q # p
    BY <2>2, <2>3
  <2>. QED  BY <2>3, <2>4, <1>1, <1>2
<1>. QED  BY <1>6, <1>7, <1>8, <1>9 DEF LockAll

LEMMA LeaveUnlockedLock ==
    ASSUME LockAll, NEW p \in Instance, LeaveUnlocked(p)
    PROVE  LockAll'
<1>1. /\ stage' \in [Instance -> LockStage] /\ stage'[p] = "idle" /\ stage[p] = "unlocked"
      /\ \A q \in Instance : q # p => stage'[q] = stage[q]
  BY GoesShape DEF LeaveUnlocked, LockAll, LockStage
<1>2. /\ desc' = desc /\ aged' = aged /\ read' = read /\ marker' = marker /\ force' = force
      /\ starts' = starts /\ faults' = faults /\ left' = left /\ unsure' = unsure
      /\ marker[p] = <<>>
  BY <1>1, StageShape DEF LeaveUnlocked
<1>3. LockTypes'
  BY <1>1, <1>2 DEF LockAll, LockTypes
<1>4. LockInv'
  <2>1. ASSUME NEW q \in Instance PROVE LockOf(q)'
    <3>1. LockOf(q) /\ stage'[Rollback] # "unlocked"
      BY <1>1, LockFacts DEF Instance, LockOf
    <3>. QED  BY <3>1, <1>1, <1>2 DEF LockOf
  <2>2. Single(desc)' /\ \A m \in left' : m[2] <= starts'
    BY <1>2, LockFacts DEF Single
  <2>. QED  BY <2>1, <2>2, LockPartsNext
<1>5. HolderInv'
  <2> SUFFICES ASSUME ~unsure', NEW q \in Instance, Holding(q)' PROVE HeldBy(q)'
    BY LockPartsNext
  <2>1. HeldBy(q)
    BY <1>1, <1>2, LockFacts DEF Holding
  <2>. QED  BY <2>1, <1>1, <1>2 DEF HeldBy
<1>6. Explained'
  <2> SUFFICES ASSUME NEW m \in Marker, desc' = <<m>>, m \notin left'
               PROVE  \E q \in Instance : marker'[q] = m /\ stage'[q] # "idle"
    BY DEF Explained, Idle
  <2>1. PICK q \in Instance : marker[q] = m /\ stage[q] # "idle"
    BY <1>2 DEF Explained, LockAll, Idle
  <2>2. q # p
    BY <2>1, <1>2, MarkerShape
  <2>. QED  BY <2>1, <2>2, <1>1, <1>2
<1>. QED  BY <1>3, <1>4, <1>5, <1>6 DEF LockAll

\* Steps that leave the lock alone, a fault and a marker's age aside.
LEMMA QuietLock ==
    ASSUME LockAll, aged' \subseteq Marker, faults' \in 0..MaxFaults,
           UNCHANGED <<desc, stage, read, marker, force, starts, left, unsure>>
    PROVE  LockAll'
<1>1. LockTypes'
  BY DEF LockAll, LockTypes
<1>2. LockInv'
  <2>1. ASSUME NEW q \in Instance PROVE LockOf(q)'
    <3>1. LockOf(q)
      BY LockFacts
    <3>. QED  BY <3>1 DEF LockOf, Single
  <2>2. Single(desc)' /\ \A m \in left' : m[2] <= starts'
    BY LockFacts DEF Single
  <2>. QED  BY <2>1, <2>2, LockPartsNext
<1>3. HolderInv'
  <2> SUFFICES ASSUME ~unsure', NEW q \in Instance, Holding(q)' PROVE HeldBy(q)'
    BY LockPartsNext
  <2>1. HeldBy(q)
    BY LockFacts DEF Holding
  <2>. QED  BY <2>1 DEF HeldBy
<1>4. Explained'
  BY DEF Explained, LockAll, Idle
<1>. QED  BY <1>1, <1>2, <1>3, <1>4 DEF LockAll

LEMMA GrowOldLock ==
    ASSUME LockAll, GrowOld
    PROVE  LockAll'
<1>1. PICK i \in DOMAIN desc : aged' = aged \union {desc[i]}
  BY DEF GrowOld
<1>2. aged' \subseteq Marker
  BY <1>1 DEF LockAll, LockTypes
<1>3. faults' \in 0..MaxFaults
  BY FaultShape DEF GrowOld
<1>. QED  BY <1>2, <1>3, QuietLock DEF GrowOld

-----------------------------------------------------------------------------
(* The rollback.                                                           *)

PartName == {"none", "start", "gate", "channels", "roles", "emoji", "categories",
             "patch", "finish", "over", "stopped"}

\* The part of TypeOK that is about the rollback.
UndoTypes ==
    /\ live \subseteq Entity /\ cats \subseteq Category \union OtherCategory
    /\ disk \in Progress /\ mem \in Progress
    /\ part \in PartName
    /\ listed \subseteq Channel /\ chosen \subseteq Untracked /\ confirmed \subseteq Untracked
    /\ todo \subseteq Entity /\ busy \subseteq Entity
    /\ catsRead \subseteq Category \union OtherCategory
    /\ cancel \in BOOLEAN

UndoAll ==
    UndoTypes /\ PartInv /\ TargetInv /\ ReachedInv /\ OnlyTheirs /\ RecordedIsGone /\ CountedOnce

LEMMA TypesSplit ==
    /\ TypeOK <=> LockTypes /\ UndoTypes
    /\ TypeOK' <=> LockTypes' /\ UndoTypes'
  BY DEF TypeOK, LockTypes, UndoTypes, LockStage, PartName

LEMMA InvariantSplit ==
    /\ IInv => LockAll /\ UndoAll
    /\ LockAll' /\ UndoAll' => IInv'
<1>1. ASSUME IInv PROVE LockAll /\ UndoAll
  BY <1>1, TypesSplit, ExplainedShape DEF IInv, LockAll, UndoAll, LockInv
<1>2. ASSUME LockAll', UndoAll' PROVE IInv'
  BY <1>2, TypesSplit, ExplainedNext DEF IInv, LockAll, UndoAll, LockInv
<1>. QED  BY <1>1, <1>2

\* The ids: kinds apart, and the migration's own apart from its users'.
LEMMA EntityShape ==
    /\ Mapped \subseteq Entity /\ Untracked \subseteq Entity
    /\ Role \subseteq Entity /\ Emoji \subseteq Entity
    /\ Mapped \subseteq Channel /\ Untracked \subseteq Channel /\ Channel \subseteq Entity
    /\ Elsewhere \subseteq Mapped
    /\ \A x : ~(x \in Mapped /\ x \in Untracked)
    /\ \A x \in Channel : x \notin Role /\ x \notin Emoji
    /\ \A x : ~(x \in Category /\ x \in OtherCategory)
  BY RollbackAssumption DEF Entity, Channel

\* The record, field by field.
LEMMA ProgressShape ==
    ASSUME NEW p \in Progress
    PROVE  /\ p.done \subseteq Entity /\ p.failures \subseteq Entity \union {"<all>"}
           /\ p.channels \in Nat /\ p.suspects \in Nat /\ p.roles \in Nat /\ p.emoji \in Nat
           /\ p.cleaned \in BOOLEAN /\ p.completed \in BOOLEAN
  BY DEF Progress

\* What one deletion adds to the record.
LEMMA CountedShape ==
    ASSUME NEW p \in Progress, NEW e \in Entity
    PROVE  /\ Counted(p, e) \in Progress
           /\ Counted(p, e).done = p.done \union {e}
           /\ Counted(p, e).failures = p.failures
           /\ Counted(p, e).channels = p.channels + (IF e \in Mapped THEN 1 ELSE 0)
           /\ Counted(p, e).suspects = p.suspects + (IF e \in Untracked THEN 1 ELSE 0)
           /\ Counted(p, e).roles = p.roles + (IF e \in Role THEN 1 ELSE 0)
           /\ Counted(p, e).emoji = p.emoji + (IF e \in Emoji THEN 1 ELSE 0)
<1>. DEFINE one(S) == IF e \in S THEN 1 ELSE 0
<1>1. \A S : one(S) \in Nat
  OBVIOUS
<1>. HIDE DEF one
<1>2. Counted(p, e) = [p EXCEPT !.channels = @ + one(Mapped), !.suspects = @ + one(Untracked),
                                !.roles = @ + one(Role), !.emoji = @ + one(Emoji),
                                !.done = @ \union {e}]
  BY DEF Counted, one
<1>3. /\ p.channels + one(Mapped) \in Nat /\ p.suspects + one(Untracked) \in Nat
      /\ p.roles + one(Role) \in Nat /\ p.emoji + one(Emoji) \in Nat
      /\ p.done \union {e} \in SUBSET Entity
  BY <1>1, ProgressShape
<1>4. Counted(p, e) \in Progress
  BY <1>2, <1>3 DEF Progress
<1>5. /\ Counted(p, e).done = p.done \union {e}
      /\ Counted(p, e).failures = p.failures
      /\ Counted(p, e).channels = p.channels + one(Mapped)
      /\ Counted(p, e).suspects = p.suspects + one(Untracked)
      /\ Counted(p, e).roles = p.roles + one(Role)
      /\ Counted(p, e).emoji = p.emoji + one(Emoji)
  BY <1>2 DEF Progress
<1>. QED  BY <1>4, <1>5 DEF one

LEMMA FailedShape ==
    ASSUME NEW p \in Progress, NEW e \in Entity \union {"<all>"}
    PROVE  LET q == [p EXCEPT !.failures = @ \union {e}]
           IN  /\ q \in Progress /\ q.done = p.done /\ q.failures = p.failures \union {e}
               /\ q.channels = p.channels /\ q.suspects = p.suspects
               /\ q.roles = p.roles /\ q.emoji = p.emoji
  BY DEF Progress

LEMMA CleanedShape ==
    ASSUME NEW p \in Progress
    PROVE  LET q == [p EXCEPT !.cleaned = TRUE]
           IN  /\ q \in Progress /\ q.done = p.done /\ q.failures = p.failures
               /\ q.channels = p.channels /\ q.suspects = p.suspects
               /\ q.roles = p.roles /\ q.emoji = p.emoji
  BY DEF Progress

LEMMA CompletedShape ==
    ASSUME NEW p \in Progress
    PROVE  LET q == [p EXCEPT !.completed = TRUE]
           IN  /\ q \in Progress /\ q.done = p.done /\ q.failures = p.failures
               /\ q.channels = p.channels /\ q.suspects = p.suspects
               /\ q.roles = p.roles /\ q.emoji = p.emoji
  BY DEF Progress

\* One more member of a finite set counts once, in the kinds it is of.
LEMMA CountShape ==
    ASSUME NEW D, D \subseteq Entity, NEW e \in Entity, e \notin D, NEW S
    PROVE  /\ Cardinality(D \intersect S) \in Nat
           /\ Cardinality((D \union {e}) \intersect S)
                = Cardinality(D \intersect S) + (IF e \in S THEN 1 ELSE 0)
<1>1. IsFiniteSet(D \intersect S)
  <2>1. IsFiniteSet(Entity) /\ D \intersect S \subseteq Entity
    BY RollbackAssumption
  <2>. QED  BY <2>1, FS_Subset
<1>2. Cardinality(D \intersect S) \in Nat
  BY <1>1, FS_CardinalityType
<1>3. CASE e \in S
  <2>1. (D \union {e}) \intersect S = (D \intersect S) \union {e} /\ e \notin D \intersect S
    BY <1>3
  <2>2. Cardinality((D \intersect S) \union {e}) = Cardinality(D \intersect S) + 1
    BY <1>1, <2>1, FS_AddElement
  <2>. QED  BY <1>2, <1>3, <2>1, <2>2
<1>4. CASE e \notin S
  <2>1. (D \union {e}) \intersect S = D \intersect S
    BY <1>4
  <2>. QED  BY <1>2, <1>4, <2>1
<1>. QED  BY <1>3, <1>4

\* A record with the same things done and the same counters.
LEMMA CountedKeeps ==
    ASSUME CountedOnce, disk'.done = disk.done, disk'.channels = disk.channels,
           disk'.suspects = disk.suspects, disk'.roles = disk.roles, disk'.emoji = disk.emoji
    PROVE  CountedOnce'
  BY DEF CountedOnce

LEMMA CountedStep ==
    ASSUME CountedOnce, disk \in Progress, NEW e \in Entity, e \notin disk.done,
           disk' = Counted(disk, e)
    PROVE  CountedOnce'
<1>1. disk.done \subseteq Entity
  BY ProgressShape
<1>2. /\ disk'.done = disk.done \union {e}
      /\ disk'.channels = disk.channels + (IF e \in Mapped THEN 1 ELSE 0)
      /\ disk'.suspects = disk.suspects + (IF e \in Untracked THEN 1 ELSE 0)
      /\ disk'.roles = disk.roles + (IF e \in Role THEN 1 ELSE 0)
      /\ disk'.emoji = disk.emoji + (IF e \in Emoji THEN 1 ELSE 0)
  BY CountedShape
<1>3. \A S : Cardinality((disk.done \union {e}) \intersect S)
               = Cardinality(disk.done \intersect S) + (IF e \in S THEN 1 ELSE 0)
  BY <1>1, CountShape
<1>4. disk'.channels = Cardinality(disk'.done \intersect Mapped)
  BY <1>2, <1>3 DEF CountedOnce
<1>5. disk'.suspects = Cardinality(disk'.done \intersect Untracked)
  BY <1>2, <1>3 DEF CountedOnce
<1>6. disk'.roles = Cardinality(disk'.done \intersect Role)
  BY <1>2, <1>3 DEF CountedOnce
<1>7. disk'.emoji = Cardinality(disk'.done \intersect Emoji)
  BY <1>2, <1>3 DEF CountedOnce
<1>. QED  BY <1>4, <1>5, <1>6, <1>7 DEF CountedOnce

\* Steps of the lock that leave the rollback where it is.
LEMMA UndoStays ==
    ASSUME UndoAll, UNCHANGED <<undoing, live, cats, disk, confirmed>>,
           Idle(Rollback)' <=> Idle(Rollback),
           stage'[Rollback] = "asked" => part = "start",
           stage'[Rollback] = "releasing" => part \in {"over", "stopped"}
    PROVE  UndoAll'
<1>. USE DEF undoing, UndoAll
<1>1. UndoTypes'
  BY DEF UndoTypes
<1>2. PartInv'
  BY DEF PartInv, Idle
<1>3. TargetInv' /\ OnlyTheirs' /\ RecordedIsGone'
  BY DEF TargetInv, OnlyTheirs, RecordedIsGone
<1>4. ReachedInv'
  BY DEF ReachedInv, Owed, Settled, OwnChannels, PastEmoji
<1>5. CountedOnce'
  BY CountedKeeps
<1>. QED  BY <1>1, <1>2, <1>3, <1>4, <1>5

\* Nothing that survives every rollback is among the things to delete.
LEMMA TargetsTheirs ==
    ASSUME UndoAll
    PROVE  \A e \in todo \union busy :
              /\ e \notin Elsewhere /\ e \notin Untracked \ confirmed
              /\ e \notin mem.done /\ e \in Entity
<1>1. ASSUME NEW e \in todo \union busy PROVE e \notin Elsewhere /\ e \notin Untracked \ confirmed
  <2>1. e \in (Mapped \ Elsewhere) \union chosen \union Role \union Emoji
    BY DEF UndoAll, TargetInv
  <2>2. chosen \subseteq confirmed /\ chosen \subseteq Untracked
    BY DEF UndoAll, TargetInv, UndoTypes
  <2>. QED  BY <2>1, <2>2, EntityShape
<1>2. \A e \in todo \union busy : e \notin mem.done /\ e \in Entity
  BY DEF UndoAll, TargetInv, UndoTypes
<1>. QED  BY <1>1, <1>2

\* The end of the program: what it was doing is forgotten, and what it had in flight
\* may have taken effect.
LEMMA UndoForgets ==
    ASSUME UndoAll, Forget, Idle(Rollback)', stage'[Rollback] = "idle",
           live' \subseteq live, live \ busy \subseteq live',
           UNCHANGED <<cats, disk, confirmed>>
    PROVE  UndoAll'
<1>1. /\ part' = "none" /\ mem' = NoProgress /\ cancel' = FALSE
      /\ listed' = {} /\ chosen' = {} /\ todo' = {} /\ busy' = {} /\ catsRead' = {}
  BY DEF Forget
<1>2. NoProgress \in Progress
  BY DEF NoProgress, Progress
<1>3. UndoTypes'
  BY <1>1, <1>2 DEF UndoAll, UndoTypes, PartName
<1>4. PartInv'
  BY <1>1 DEF PartInv
<1>5. TargetInv'
  BY <1>1 DEF TargetInv
<1>6. ReachedInv'
  BY <1>1 DEF ReachedInv, PastEmoji
<1>7. OnlyTheirs'
  <2>1. Elsewhere \union (Untracked \ confirmed) \subseteq live
    BY DEF UndoAll, OnlyTheirs
  <2>2. \A e \in Elsewhere \union (Untracked \ confirmed) : e \notin busy
    BY TargetsTheirs
  <2>. QED  BY <2>1, <2>2 DEF UndoAll, OnlyTheirs
<1>8. RecordedIsGone'
  BY DEF UndoAll, RecordedIsGone
<1>9. CountedOnce'
  BY CountedKeeps DEF UndoAll
<1>. QED  BY <1>3, <1>4, <1>5, <1>6, <1>7, <1>8, <1>9 DEF UndoAll

LEMMA StartUndo ==
    ASSUME UndoAll, stage[Rollback] = "idle", stage'[Rollback] = "asked",
           mem' = disk, part' = "start", cancel' = FALSE,
           UNCHANGED <<listed, chosen, todo, busy, catsRead, live, cats, disk, confirmed>>
    PROVE  UndoAll'
<1>1. part = "none" /\ todo = {} /\ busy = {} /\ chosen = {}
  BY DEF UndoAll, PartInv, Idle
<1>2. UndoTypes'
  BY DEF UndoAll, UndoTypes, PartName
<1>3. PartInv'
  BY <1>1 DEF PartInv, Idle
<1>4. TargetInv'
  BY <1>1 DEF UndoAll, TargetInv
<1>5. ReachedInv'
  BY DEF ReachedInv, PastEmoji
<1>6. OnlyTheirs' /\ RecordedIsGone'
  BY DEF UndoAll, OnlyTheirs, RecordedIsGone
<1>7. CountedOnce'
  BY CountedKeeps DEF UndoAll
<1>. QED  BY <1>2, <1>3, <1>4, <1>5, <1>6, <1>7 DEF UndoAll

LEMMA ListUndo ==
    ASSUME UndoAll, List, stage'[Rollback] = stage[Rollback]
    PROVE  UndoAll'
<1>1. /\ listed' = (live \intersect Channel) \ Elsewhere /\ part' = "gate"
      /\ stage[Rollback] = "locked" /\ part = "start"
      /\ UNCHANGED <<chosen, todo, busy, catsRead, cancel, mem, live, cats, disk, confirmed>>
  BY DEF List, At, Holding
<1>2. UndoTypes'
  BY <1>1 DEF UndoAll, UndoTypes, PartName
<1>3. PartInv'
  BY <1>1 DEF UndoAll, PartInv, Idle
<1>4. TargetInv'
  BY <1>1 DEF UndoAll, TargetInv
<1>5. ReachedInv'
  BY <1>1 DEF ReachedInv, PastEmoji
<1>6. OnlyTheirs' /\ RecordedIsGone'
  BY <1>1 DEF UndoAll, OnlyTheirs, RecordedIsGone
<1>7. CountedOnce'
  BY <1>1, CountedKeeps DEF UndoAll
<1>. QED  BY <1>2, <1>3, <1>4, <1>5, <1>6, <1>7 DEF UndoAll

\* The rollback stops: it has not begun to delete.
LEMMA StopUndo ==
    ASSUME UndoAll, stage[Rollback] = "locked", stage'[Rollback] = "locked", part' = "stopped",
           UNCHANGED <<listed, chosen, todo, busy, catsRead, cancel, mem, live, cats, disk, confirmed>>
    PROVE  UndoAll'
<1>1. UndoTypes'
  BY DEF UndoAll, UndoTypes, PartName
<1>2. PartInv'
  BY DEF UndoAll, PartInv, Idle
<1>3. ReachedInv'
  BY DEF ReachedInv, PastEmoji
<1>4. TargetInv' /\ OnlyTheirs' /\ RecordedIsGone'
  BY DEF UndoAll, TargetInv, OnlyTheirs, RecordedIsGone
<1>5. CountedOnce'
  BY CountedKeeps DEF UndoAll
<1>. QED  BY <1>1, <1>2, <1>3, <1>4, <1>5 DEF UndoAll

LEMMA CancelUndo ==
    ASSUME UndoAll, Cancel, stage' = stage
    PROVE  UndoAll'
<1>1. /\ cancel' = TRUE
      /\ UNCHANGED <<part, listed, chosen, todo, busy, catsRead, mem, live, cats, disk, confirmed>>
  BY DEF Cancel
<1>2. UndoTypes'
  BY <1>1 DEF UndoAll, UndoTypes
<1>3. PartInv'
  BY <1>1 DEF UndoAll, PartInv, Idle
<1>4. ReachedInv'
  BY <1>1 DEF ReachedInv
<1>5. TargetInv' /\ OnlyTheirs' /\ RecordedIsGone'
  BY <1>1 DEF UndoAll, TargetInv, OnlyTheirs, RecordedIsGone
<1>6. CountedOnce'
  BY <1>1, CountedKeeps DEF UndoAll
<1>. QED  BY <1>2, <1>3, <1>4, <1>5, <1>6 DEF UndoAll

\* Nothing recorded exists, so a rollback owes no second deletion.
LEMMA ConfirmUndo ==
    ASSUME UndoAll, NEW S \in SUBSET Suspects, Confirm(S), stage' = stage
    PROVE  UndoAll'
<1>1. /\ stage[Rollback] = "locked" /\ part = "gate" /\ ~cancel
      /\ chosen' = S /\ confirmed' = confirmed \union S /\ part' = "channels"
      /\ todo' = ((Mapped \intersect listed) \union S) \ mem.done
      /\ UNCHANGED <<listed, busy, catsRead, cancel, mem, live, cats, disk>>
  BY DEF Confirm, At, Holding, Part, ChannelTargets
<1>2. /\ busy = {} /\ mem = disk /\ listed \intersect Elsewhere = {}
      /\ (live \intersect Channel) \ Elsewhere \subseteq listed
      /\ disk.done \intersect live = {}
  BY <1>1 DEF UndoAll, PartInv, TargetInv, RecordedIsGone, Idle
<1>3. S \subseteq listed /\ S \subseteq Untracked
  <2>1. S \subseteq listed /\ \A e \in S : e \notin Mapped
    BY DEF Suspects
  <2>. QED  BY <2>1 DEF UndoAll, UndoTypes, Channel
<1>4. todo' \subseteq Entity /\ todo' \subseteq (Mapped \ Elsewhere) \union S
  BY <1>1, <1>2, <1>3, EntityShape
<1>5. UndoTypes'
  BY <1>1, <1>3, <1>4 DEF UndoAll, UndoTypes, PartName
<1>6. PartInv'
  BY <1>1 DEF UndoAll, PartInv, Idle
<1>7. TargetInv'
  BY <1>1, <1>2, <1>4 DEF UndoAll, TargetInv
<1>8. ReachedInv'
  <2>1. ASSUME NEW e \in live, e \in (Mapped \ Elsewhere) \union S PROVE e \in todo'
    <3>1. e \notin mem.done
      BY <1>2
    <3>2. CASE e \in S
      BY <3>1, <3>2, <1>1
    <3>3. CASE e \in Mapped \ Elsewhere
      BY <3>1, <3>3, <1>1, <1>2, EntityShape
    <3>. QED  BY <2>1, <3>2, <3>3
  <2>2. Owed(OwnChannels)'
    BY <2>1, <1>1 DEF Owed, OwnChannels
  <2>. QED  BY <1>1, <2>2 DEF ReachedInv, PastEmoji
<1>9. OnlyTheirs' /\ RecordedIsGone'
  BY <1>1 DEF UndoAll, OnlyTheirs, RecordedIsGone
<1>10. CountedOnce'
  BY <1>1, CountedKeeps DEF UndoAll
<1>. QED  BY <1>5, <1>6, <1>7, <1>8, <1>9, <1>10 DEF UndoAll

LEMMA DeleteUndo ==
    ASSUME UndoAll, NEW e \in Entity, Delete(e), stage' = stage
    PROVE  UndoAll'
<1>1. /\ stage[Rollback] = "locked" /\ e \in todo /\ ~cancel
      /\ busy' = busy \union {e} /\ todo' = todo \ {e}
      /\ UNCHANGED <<part, listed, chosen, catsRead, cancel, mem, live, cats, disk, confirmed>>
  BY DEF Delete, Working, Holding
<1>2. todo' \union busy' = todo \union busy
  BY <1>1
<1>3. UndoTypes'
  BY <1>1 DEF UndoAll, UndoTypes
<1>4. PartInv'
  BY <1>1 DEF UndoAll, PartInv, Idle
<1>5. TargetInv'
  BY <1>1, <1>2 DEF UndoAll, TargetInv
<1>6. ReachedInv'
  <2>1. ASSUME NEW S, Owed(S) PROVE S \intersect live' \subseteq todo' \union busy' \union mem'.failures
    BY <2>1, <1>1 DEF Owed
  <2>2. ASSUME NEW S, Settled(S) PROVE S \intersect live' \subseteq mem'.failures
    BY <2>2, <1>1 DEF Settled
  <2>3. ReachedInv
    BY DEF UndoAll
  <2>. QED  BY <2>1, <2>2, <2>3, <1>1
            DEF ReachedInv, Owed, Settled, OwnChannels, PastEmoji
<1>7. OnlyTheirs' /\ RecordedIsGone'
  BY <1>1 DEF UndoAll, OnlyTheirs, RecordedIsGone
<1>8. CountedOnce'
  BY <1>1, CountedKeeps DEF UndoAll
<1>. QED  BY <1>3, <1>4, <1>5, <1>6, <1>7, <1>8 DEF UndoAll

\* A deletion that has ended: what is gone is gone, what is not is named as failed.
LEMMA EndedUndo ==
    ASSUME UndoAll, NEW e \in Entity, e \in busy, Working, stage' = stage,
           live' \in {live, live \ {e}}, busy' = busy \ {e},
           mem' \in Progress, disk' = mem', mem.failures \subseteq mem'.failures,
           e \in live' => e \in mem'.failures,
           mem'.done \subseteq mem.done \union {e}, mem'.done \intersect live' = {},
           CountedOnce',
           UNCHANGED <<part, listed, chosen, todo, catsRead, cancel, cats, confirmed>>
    PROVE  UndoAll'
<1>1. UndoTypes'
  BY DEF UndoAll, UndoTypes
<1>2. PartInv'
  <2>1. stage[Rollback] = "locked" /\ part \notin {"none", "start", "gate"}
    BY DEF UndoAll, PartInv, Working, Holding
  <2>. QED  BY <2>1 DEF UndoAll, PartInv, Idle
<1>3. TargetInv'
  BY DEF UndoAll, TargetInv
<1>4. ReachedInv'
  <2>1. ASSUME NEW S, Owed(S)
        PROVE  S \intersect live' \subseteq todo' \union busy' \union mem'.failures
    BY <2>1 DEF Owed
  <2>2. ASSUME NEW S, Settled(S) PROVE S \intersect live' \subseteq mem'.failures
    BY <2>2 DEF Settled
  <2>3. ReachedInv
    BY DEF UndoAll
  <2>. QED  BY <2>1, <2>2, <2>3
            DEF ReachedInv, Owed, Settled, OwnChannels, PastEmoji
<1>5. OnlyTheirs'
  <2>1. e \notin Elsewhere \union (Untracked \ confirmed)
    BY TargetsTheirs
  <2>. QED  BY <2>1 DEF UndoAll, OnlyTheirs
<1>6. RecordedIsGone'
  BY DEF RecordedIsGone
<1>. QED  BY <1>1, <1>2, <1>3, <1>4, <1>5, <1>6 DEF UndoAll

\* What a running rollback has in memory is in its file.
LEMMA RecordShape ==
    ASSUME UndoAll, stage[Rollback] # "idle"
    PROVE  /\ mem = disk /\ mem \in Progress /\ disk.done \intersect live = {}
           /\ mem.done \subseteq Entity
  BY ProgressShape DEF UndoAll, PartInv, Idle, UndoTypes, RecordedIsGone

LEMMA DeletedUndo ==
    ASSUME UndoAll, NEW e \in Entity, Deleted(e), stage' = stage
    PROVE  UndoAll'
<1>1. /\ Working /\ stage[Rollback] # "idle" /\ e \in busy
      /\ live' = live \ {e} /\ busy' = busy \ {e}
      /\ mem' = Counted(mem, e) /\ disk' = mem'
      /\ UNCHANGED <<part, listed, chosen, todo, catsRead, cancel, cats, confirmed>>
  BY DEF Deleted, Working, Idle, Save
<1>2. mem = disk /\ mem \in Progress /\ disk.done \intersect live = {}
  BY <1>1, RecordShape
<1>3. mem' \in Progress /\ mem'.done = mem.done \union {e} /\ mem'.failures = mem.failures
  BY <1>1, <1>2, CountedShape
<1>4. e \notin disk.done
  BY <1>1, <1>2, TargetsTheirs
<1>5. CountedOnce'
  BY <1>1, <1>2, <1>4, CountedStep DEF UndoAll
<1>6. mem'.done \intersect live' = {} /\ e \notin live'
  BY <1>1, <1>2, <1>3
<1>. QED  BY <1>1, <1>3, <1>5, <1>6, EndedUndo

LEMMA DeleteFailsUndo ==
    ASSUME UndoAll, NEW e \in Entity, DeleteFails(e), stage' = stage
    PROVE  UndoAll'
<1>1. /\ Working /\ stage[Rollback] # "idle" /\ e \in busy
      /\ live' \in {live, live \ {e}} /\ busy' = busy \ {e}
      /\ mem' = Failed(mem, e) /\ disk' = mem'
      /\ UNCHANGED <<part, listed, chosen, todo, catsRead, cancel, cats, confirmed>>
  BY DEF DeleteFails, Working, Idle, Save
<1>2. mem = disk /\ mem \in Progress /\ disk.done \intersect live = {}
  BY <1>1, RecordShape
<1>3. /\ mem' \in Progress /\ mem'.done = mem.done /\ mem'.failures = mem.failures \union {e}
      /\ mem'.channels = mem.channels /\ mem'.suspects = mem.suspects
      /\ mem'.roles = mem.roles /\ mem'.emoji = mem.emoji
  BY <1>1, <1>2, FailedShape DEF Failed
<1>4. CountedOnce'
  BY <1>1, <1>2, <1>3, CountedKeeps DEF UndoAll
<1>5. mem'.done \intersect live' = {} /\ e \in mem'.failures
  BY <1>1, <1>2, <1>3
<1>. QED  BY <1>1, <1>3, <1>4, <1>5, EndedUndo

\* A part is over when nothing of it is left, or the rollback was cancelled.
LEMMA NextPartUndo ==
    ASSUME UndoAll, NextPart, stage' = stage
    PROVE  UndoAll'
<1>1. /\ stage[Rollback] = "locked" /\ part \in {"channels", "roles", "emoji"}
      /\ busy = {} /\ (todo = {} \/ cancel)
      /\ UNCHANGED <<listed, chosen, busy, catsRead, cancel, mem, live, cats, disk, confirmed>>
  BY DEF NextPart, Working, Holding, PartOver
<1>2. \/ part = "channels" /\ part' = "roles" /\ todo' = Role \ mem.done
      \/ part = "roles" /\ part' = "emoji" /\ todo' = Emoji \ mem.done
      \/ part = "emoji" /\ part' \in {"finish", "categories"} /\ todo' = {}
         /\ (part' = "finish" => cancel)
  BY <1>1 DEF NextPart, Part, Remaining
<1>3. mem = disk /\ mem \in Progress /\ disk.done \intersect live = {}
  BY <1>1, RecordShape
<1>4. UndoTypes'
  BY <1>1, <1>2, EntityShape DEF UndoAll, UndoTypes, PartName
<1>5. PartInv'
  BY <1>1, <1>2 DEF UndoAll, PartInv, Idle
<1>6. TargetInv'
  BY <1>1, <1>2 DEF UndoAll, TargetInv
<1>7. ReachedInv'
  <2> SUFFICES ASSUME ~cancel PROVE ReachedInv'
    BY <1>1 DEF ReachedInv
  <2>1. \A S : Owed(S) => S \intersect live' \subseteq mem'.failures
    BY <1>1 DEF Owed
  <2>2. \A S : Settled(S) => S \intersect live' \subseteq mem'.failures
    BY <1>1 DEF Settled
  <2>3. \A S : todo' = S \ mem.done =>
                  S \intersect live' \subseteq todo' \union busy' \union mem'.failures
    BY <1>1, <1>3
  <2>4. OwnChannels' = OwnChannels
    BY <1>1 DEF OwnChannels
  <2>5. CASE part = "channels"
    <3>1. part' = "roles" /\ todo' = Role \ mem.done /\ Owed(OwnChannels)
      BY <2>5, <1>2 DEF UndoAll, ReachedInv
    <3>2. Settled(OwnChannels)' /\ Owed(Role)'
      BY <3>1, <2>1, <2>3, <2>4 DEF Settled, Owed
    <3>. QED  BY <3>1, <3>2 DEF ReachedInv, PastEmoji
  <2>6. CASE part = "roles"
    <3>1. part' = "emoji" /\ todo' = Emoji \ mem.done /\ Settled(OwnChannels) /\ Owed(Role)
      BY <2>6, <1>2 DEF UndoAll, ReachedInv, PastEmoji
    <3>2. Settled(OwnChannels)' /\ Settled(Role)' /\ Owed(Emoji)'
      BY <3>1, <2>1, <2>2, <2>3, <2>4 DEF Settled, Owed
    <3>. QED  BY <3>1, <3>2 DEF ReachedInv, PastEmoji
  <2>7. CASE part = "emoji"
    <3>1. part' = "categories" /\ Settled(OwnChannels) /\ Settled(Role) /\ Owed(Emoji)
      BY <2>7, <1>2 DEF UndoAll, ReachedInv, PastEmoji
    <3>2. Settled(OwnChannels)' /\ Settled(Role)' /\ Settled(Emoji)'
      BY <3>1, <2>1, <2>2, <2>4 DEF Settled
    <3>. QED  BY <3>1, <3>2 DEF ReachedInv, PastEmoji
  <2>. QED  BY <1>1, <2>5, <2>6, <2>7
<1>8. OnlyTheirs' /\ RecordedIsGone'
  BY <1>1 DEF UndoAll, OnlyTheirs, RecordedIsGone
<1>9. CountedOnce'
  BY <1>1, CountedKeeps DEF UndoAll
<1>. QED  BY <1>4, <1>5, <1>6, <1>7, <1>8, <1>9 DEF UndoAll

\* The steps after the last deletion.
LEMMA LaterUndo ==
    ASSUME UndoAll, stage[Rollback] = "locked", stage' = stage,
           part \in {"categories", "patch", "finish"}, part' \in {"patch", "finish", "over"},
           mem' \in Progress, disk' = mem', mem.failures \subseteq mem'.failures,
           mem'.done = mem.done, mem'.channels = mem.channels, mem'.suspects = mem.suspects,
           mem'.roles = mem.roles, mem'.emoji = mem.emoji,
           catsRead' \in {catsRead, cats}, part' = "patch" => catsRead' = cats,
           cats' \subseteq Category \union OtherCategory, OtherCategory \subseteq cats',
           ~cancel /\ part' \in {"finish", "over"} =>
               Category \intersect cats' = {} \/ "<all>" \in mem'.failures,
           UNCHANGED <<listed, chosen, todo, busy, cancel, live, confirmed>>
    PROVE  UndoAll'
<1>1. mem = disk /\ mem \in Progress /\ disk.done \intersect live = {}
  BY RecordShape
<1>2. UndoTypes'
  BY DEF UndoAll, UndoTypes, PartName
<1>3. PartInv'
  <2>1. OtherCategory \subseteq cats
    BY DEF UndoAll, OnlyTheirs
  <2>. QED  BY <2>1 DEF UndoAll, PartInv, Idle
<1>4. TargetInv'
  BY DEF UndoAll, TargetInv
<1>5. ReachedInv'
  <2> SUFFICES ASSUME ~cancel PROVE ReachedInv'
    BY DEF ReachedInv
  <2>1. \A S : Settled(S) => S \intersect live' \subseteq mem'.failures
    BY DEF Settled
  <2>2. OwnChannels' = OwnChannels
    BY DEF OwnChannels
  <2>3. Settled(OwnChannels) /\ Settled(Role) /\ Settled(Emoji)
    BY DEF UndoAll, ReachedInv, PastEmoji
  <2>4. Settled(OwnChannels)' /\ Settled(Role)' /\ Settled(Emoji)'
    BY <2>1, <2>2, <2>3 DEF Settled
  <2>. QED  BY <2>4 DEF ReachedInv, PastEmoji
<1>6. OnlyTheirs' /\ RecordedIsGone'
  BY <1>1 DEF UndoAll, OnlyTheirs, RecordedIsGone
<1>7. CountedOnce'
  BY <1>1, CountedKeeps DEF UndoAll
<1>. QED  BY <1>2, <1>3, <1>4, <1>5, <1>6, <1>7 DEF UndoAll

LEMMA FetchCategoriesUndo ==
    ASSUME UndoAll, FetchCategories, stage' = stage
    PROVE  UndoAll'
<1>1. /\ stage[Rollback] = "locked" /\ part = "categories" /\ part' = "patch" /\ catsRead' = cats
      /\ UNCHANGED <<listed, chosen, todo, busy, cancel, mem, live, cats, disk, confirmed>>
  BY DEF FetchCategories, At, Holding
<1>2. mem = disk /\ mem \in Progress
  BY <1>1, RecordShape
<1>3. cats \subseteq Category \union OtherCategory /\ OtherCategory \subseteq cats
  BY DEF UndoAll, UndoTypes, OnlyTheirs
<1>. QED  BY <1>1, <1>2, <1>3, LaterUndo

LEMMA PatchCategoriesUndo ==
    ASSUME UndoAll, PatchCategories, stage' = stage
    PROVE  UndoAll'
<1>1. /\ stage[Rollback] = "locked" /\ part = "patch" /\ part' = "finish"
      /\ cats' = catsRead \ Category
      /\ mem' = [mem EXCEPT !.cleaned = TRUE] /\ disk' = mem'
      /\ UNCHANGED <<listed, chosen, todo, busy, catsRead, cancel, live, confirmed>>
  BY DEF PatchCategories, At, Holding, Kept, Save
<1>2. mem = disk /\ mem \in Progress
  BY <1>1, RecordShape
<1>3. /\ mem' \in Progress /\ mem'.done = mem.done /\ mem'.failures = mem.failures
      /\ mem'.channels = mem.channels /\ mem'.suspects = mem.suspects
      /\ mem'.roles = mem.roles /\ mem'.emoji = mem.emoji
  BY <1>1, <1>2, CleanedShape
<1>4. OtherCategory \subseteq catsRead /\ catsRead \subseteq Category \union OtherCategory
  BY <1>1 DEF UndoAll, UndoTypes, PartInv
<1>5. /\ cats' \subseteq Category \union OtherCategory /\ OtherCategory \subseteq cats'
      /\ Category \intersect cats' = {}
  BY <1>1, <1>4, EntityShape
<1>. QED  BY <1>1, <1>3, <1>5, LaterUndo

LEMMA CategoriesFailUndo ==
    ASSUME UndoAll, CategoriesFail, stage' = stage
    PROVE  UndoAll'
<1>1. /\ stage[Rollback] = "locked" /\ part \in {"categories", "patch"} /\ part' = "finish"
      /\ mem' = [mem EXCEPT !.failures = @ \union {"<all>"}] /\ disk' = mem'
      /\ UNCHANGED <<listed, chosen, todo, busy, catsRead, cancel, live, cats, confirmed>>
  BY DEF CategoriesFail, At, Holding, Save
<1>2. mem = disk /\ mem \in Progress
  BY <1>1, RecordShape
<1>3. /\ mem' \in Progress /\ mem'.done = mem.done /\ mem'.failures = mem.failures \union {"<all>"}
      /\ mem'.channels = mem.channels /\ mem'.suspects = mem.suspects
      /\ mem'.roles = mem.roles /\ mem'.emoji = mem.emoji
  BY <1>1, <1>2, FailedShape
<1>4. cats \subseteq Category \union OtherCategory /\ OtherCategory \subseteq cats
  BY DEF UndoAll, UndoTypes, OnlyTheirs
<1>. QED  BY <1>1, <1>3, <1>4, LaterUndo

LEMMA FinishUndo ==
    ASSUME UndoAll, Finish, stage' = stage
    PROVE  UndoAll'
<1>1. /\ stage[Rollback] = "locked" /\ part = "finish" /\ part' = "over"
      /\ mem' = [mem EXCEPT !.completed = TRUE] /\ disk' = mem'
      /\ UNCHANGED <<listed, chosen, todo, busy, catsRead, cancel, live, cats, confirmed>>
  BY DEF Finish, At, Holding, Save
<1>2. mem = disk /\ mem \in Progress
  BY <1>1, RecordShape
<1>3. /\ mem' \in Progress /\ mem'.done = mem.done /\ mem'.failures = mem.failures
      /\ mem'.channels = mem.channels /\ mem'.suspects = mem.suspects
      /\ mem'.roles = mem.roles /\ mem'.emoji = mem.emoji
  BY <1>1, <1>2, CompletedShape
<1>4. cats \subseteq Category \union OtherCategory /\ OtherCategory \subseteq cats
  BY DEF UndoAll, UndoTypes, OnlyTheirs
<1>5. ~cancel => Category \intersect cats = {} \/ "<all>" \in mem.failures
  BY <1>1 DEF UndoAll, ReachedInv
<1>. QED  BY <1>1, <1>3, <1>4, <1>5, LaterUndo

-----------------------------------------------------------------------------
(* The steps of the whole.                                                 *)

\* What a program does with its own lock is nothing to the rollback.
LEMMA OthersUndo ==
    ASSUME LockAll, UndoAll, Others
    PROVE  LockAll' /\ UndoAll'
<1>1. UNCHANGED <<undoing, live, cats, disk, confirmed>>
  BY DEF Others
<1>2. Rollback \in Instance
  BY DEF Instance
<1>3. stage'[Rollback] = stage[Rollback] => UndoAll'
  <2> SUFFICES ASSUME stage'[Rollback] = stage[Rollback] PROVE UndoAll'
    OBVIOUS
  <2>1. /\ stage[Rollback] = "asked" => part = "start"
        /\ stage[Rollback] = "releasing" => part \in {"over", "stopped"}
    BY DEF UndoAll, PartInv
  <2>. QED  BY <1>1, <2>1, UndoStays DEF Idle
<1>4. CASE GrowOld
  BY <1>3, <1>4, GrowOldLock DEF GrowOld
<1>5. ASSUME NEW p \in Migrations,
             \/ \E forced \in BOOLEAN : Ask(p, forced)
             \/ AskFails(p) \/ Refused(p) \/ Acquire(p) \/ AcquireFails(p) \/ Describe(p)
             \/ AskRelease(p) \/ Release(p) \/ ReleaseFails(p) \/ LeaveUnlocked(p) \/ Die(p)
      PROVE  LockAll' /\ UndoAll'
  <2>1. p \in Instance /\ p # Rollback
    BY ServerLockAssumption DEF Instance
  <2>2. LockAll'
    BY <1>5, <2>1, AskLock, AskFailsLock, RefusedLock, AcquireLock, AcquireFailsLock,
       DescribeLock, AskReleaseLock, ReleaseLock, ReleaseFailsLock, LeaveUnlockedLock, DieLock
  <2>3. (\E s : Goes(p, s)) \/ stage' = stage
    BY <1>5 DEF Ask, AskFails, Refused, Acquire, AcquireFails, Describe, AskRelease, Release,
                ReleaseFails, LeaveUnlocked, Die, Rests, Lockless
  <2>4. stage'[Rollback] = stage[Rollback]
    BY <2>1, <2>3, <1>2 DEF Goes, LockAll, LockTypes
  <2>. QED  BY <1>3, <2>2, <2>4
<1>. QED  BY <1>4, <1>5 DEF Others

LEMMA StartKeeps ==
    ASSUME LockAll, UndoAll, Start
    PROVE  LockAll' /\ UndoAll'
<1>1. PICK forced \in BOOLEAN : Ask(Rollback, forced)
  BY DEF Start
<1>2. Rollback \in Instance
  BY DEF Instance
<1>3. stage[Rollback] = "idle" /\ stage'[Rollback] = "asked"
  BY <1>1, <1>2 DEF Ask, Idle, Goes, LockAll, LockTypes
<1>. QED  BY <1>1, <1>2, <1>3, AskLock, StartUndo DEF Start

LEMMA LockingKeeps ==
    ASSUME LockAll, UndoAll, Locking
    PROVE  LockAll' /\ UndoAll'
<1>1. Rollback \in Instance /\ UNCHANGED <<live, cats, disk, confirmed>>
  BY DEF Instance, Locking
<1>2. CASE AskFails(Rollback) /\ UNCHANGED undoing
  <2>1. stage[Rollback] = "idle" /\ stage'[Rollback] = "idle"
    BY <1>1, <1>2 DEF AskFails, Idle, Lockless, Rests, Goes, LockAll, LockTypes
  <2>. QED  BY <1>1, <1>2, <2>1, AskFailsLock, UndoStays DEF Idle
<1>3. CASE Refused(Rollback) /\ Forget
  <2>1. stage'[Rollback] = "idle"
    BY <1>1, <1>3 DEF Refused, Rests, Goes, LockAll, LockTypes
  <2>. QED  BY <1>1, <1>3, <2>1, RefusedLock, UndoForgets DEF Idle
<1>4. CASE Acquire(Rollback) /\ UNCHANGED undoing
  <2>1. stage[Rollback] = "asked" /\ stage'[Rollback] = "locked"
    BY <1>1, <1>4 DEF Acquire, MayWrite, Rests, Goes, LockAll, LockTypes
  <2>. QED  BY <1>1, <1>4, <2>1, AcquireLock, UndoStays DEF Idle
<1>5. CASE AcquireFails(Rollback) /\ Forget
  <2>1. stage'[Rollback] = "idle"
    BY <1>1, <1>5 DEF AcquireFails, Lockless, Rests, Goes, LockAll, LockTypes
  <2>. QED  BY <1>1, <1>5, <2>1, AcquireFailsLock, UndoForgets DEF Idle
<1>. QED  BY <1>2, <1>3, <1>4, <1>5 DEF Locking

LEMMA UnlockKeeps ==
    ASSUME LockAll, UndoAll, Unlock
    PROVE  LockAll' /\ UndoAll'
<1>1. /\ Rollback \in Instance /\ part \in {"over", "stopped"}
      /\ UNCHANGED <<live, cats, disk, confirmed>>
  BY DEF Instance, Unlock
<1>2. CASE AskRelease(Rollback) /\ UNCHANGED undoing
  <2>1. stage[Rollback] = "locked" /\ stage'[Rollback] = "releasing"
    BY <1>1, <1>2 DEF AskRelease, Holding, Goes, LockAll, LockTypes
  <2>. QED  BY <1>1, <1>2, <2>1, AskReleaseLock, UndoStays DEF Idle
<1>3. CASE Release(Rollback) /\ Forget
  <2>1. stage'[Rollback] = "idle"
    BY <1>1, <1>3 DEF Release, Rests, Goes, LockAll, LockTypes
  <2>. QED  BY <1>1, <1>3, <2>1, ReleaseLock, UndoForgets DEF Idle
<1>4. CASE ReleaseFails(Rollback) /\ Forget
  <2>1. stage'[Rollback] = "idle"
    BY <1>1, <1>4 DEF ReleaseFails, Rests, Goes, LockAll, LockTypes
  <2>. QED  BY <1>1, <1>4, <2>1, ReleaseFailsLock, UndoForgets DEF Idle
<1>. QED  BY <1>2, <1>3, <1>4 DEF Unlock

LEMMA DiesKeeps ==
    ASSUME LockAll, UndoAll, Dies
    PROVE  LockAll' /\ UndoAll'
<1>1. /\ Rollback \in Instance /\ Die(Rollback) /\ Forget
      /\ UNCHANGED <<cats, disk, confirmed>>
  BY DEF Instance, Dies
<1>2. live' \subseteq live /\ live \ busy \subseteq live'
  BY DEF Dies
<1>3. stage'[Rollback] = "idle"
  BY <1>1 DEF Die, Rests, Goes, LockAll, LockTypes
<1>. QED  BY <1>1, <1>2, <1>3, DieLock, UndoForgets DEF Idle

LEMMA UndoKeeps ==
    ASSUME LockAll, UndoAll, Undo
    PROVE  LockAll' /\ UndoAll'
<1>1. /\ UNCHANGED <<desc, aged, stage, read, marker, force, starts, left, unsure>>
      /\ (faults' = faults \/ Fault)
  BY DEF Undo, List, CancelledAtGate, Confirm, Delete, Deleted, DeleteFails, NextPart,
         FetchCategories, PatchCategories, CategoriesFail, Finish, ListFails, lockVars
<1>2. LockAll'
  <2>1. aged' \subseteq Marker /\ faults' \in 0..MaxFaults
    BY <1>1, FaultShape DEF LockAll, LockTypes
  <2>. QED  BY <1>1, <2>1, QuietLock
<1>3. CASE CancelledAtGate \/ ListFails
  <2>1. /\ stage[Rollback] = "locked" /\ part' = "stopped"
        /\ UNCHANGED <<listed, chosen, todo, busy, catsRead, cancel, mem, live, cats, disk, confirmed>>
    BY <1>3 DEF CancelledAtGate, ListFails, At, Holding
  <2>. QED  BY <1>1, <1>2, <2>1, StopUndo
<1>. QED  BY <1>1, <1>2, <1>3, ListUndo, ConfirmUndo, DeleteUndo, DeletedUndo, DeleteFailsUndo,
             NextPartUndo, FetchCategoriesUndo, PatchCategoriesUndo, CategoriesFailUndo,
             FinishUndo DEF Undo

LEMMA CancelKeeps ==
    ASSUME LockAll, UndoAll, Cancel
    PROVE  LockAll' /\ UndoAll'
<1>1. UNCHANGED lockVars
  BY DEF Cancel
<1>2. LockAll'
  BY <1>1, QuietLock DEF lockVars, LockAll, LockTypes
<1>. QED  BY <1>1, <1>2, CancelUndo DEF lockVars

LEMMA RollbackInit == Init => IInv
<1> SUFFICES ASSUME Init PROVE IInv
  OBVIOUS
<1>. USE ServerLockAssumption DEF Init, LockInit
<1>1. LockTypes
  <2>1. <<>> \in Seq(Marker)
    BY SingleShape
  <2>2. /\ desc \in Seq(Marker) /\ read \in [Instance -> Seq(Marker)]
        /\ marker \in [Instance -> Marker \union {<<>>}]
    BY <2>1
  <2>3. stage \in [Instance -> LockStage] /\ force \in [Instance -> BOOLEAN]
    BY DEF LockStage
  <2>4. aged \subseteq Marker /\ left \subseteq Marker /\ unsure \in BOOLEAN
    OBVIOUS
  <2>5. starts \in 0..MaxStarts /\ faults \in 0..MaxFaults
    OBVIOUS
  <2>. QED  BY <2>2, <2>3, <2>4, <2>5 DEF LockTypes
<1>2. LockInv
  BY SingleShape DEF LockInv, Instance
<1>3. HolderInv /\ MarkerExplained
  BY SingleShape DEF HolderInv, MarkerExplained, Holding
<1>4. NoProgress \in Progress /\ NoProgress.done = {}
  BY DEF NoProgress, Progress
<1>5. UndoTypes
  BY <1>4 DEF UndoTypes, PartName
<1>6. PartInv
  BY DEF PartInv, Idle, Instance
<1>7. TargetInv /\ ReachedInv
  BY DEF TargetInv, ReachedInv, PastEmoji
<1>8. OnlyTheirs /\ RecordedIsGone
  BY <1>4, EntityShape DEF OnlyTheirs, RecordedIsGone
<1>9. CountedOnce
  <2>1. \A S : disk.done \intersect S = {}
    BY <1>4
  <2>2. disk.channels = 0 /\ disk.suspects = 0 /\ disk.roles = 0 /\ disk.emoji = 0
    BY DEF NoProgress
  <2>. QED  BY <2>1, <2>2, FS_EmptySet DEF CountedOnce
<1>. QED  BY <1>1, <1>2, <1>3, <1>5, <1>6, <1>7, <1>8, <1>9, TypesSplit DEF IInv

LEMMA RollbackNext == IInv /\ [Next]_vars => IInv'
<1> SUFFICES ASSUME IInv, [Next]_vars PROVE IInv'
  OBVIOUS
<1>1. LockAll /\ UndoAll
  BY InvariantSplit
<1>2. CASE Start
  BY <1>1, <1>2, StartKeeps, InvariantSplit
<1>3. CASE Locking
  BY <1>1, <1>3, LockingKeeps, InvariantSplit
<1>4. CASE Undo
  BY <1>1, <1>4, UndoKeeps, InvariantSplit
<1>5. CASE Unlock
  BY <1>1, <1>5, UnlockKeeps, InvariantSplit
<1>6. CASE Cancel
  BY <1>1, <1>6, CancelKeeps, InvariantSplit
<1>7. CASE Dies
  BY <1>1, <1>7, DiesKeeps, InvariantSplit
<1>8. CASE Others
  BY <1>1, <1>8, OthersUndo, InvariantSplit
<1>9. CASE UNCHANGED vars
  <2>1. LockAll'
    BY <1>1, <1>9, QuietLock DEF vars, lockVars, LockAll, LockTypes
  <2>2. /\ stage[Rollback] = "asked" => part = "start"
        /\ stage[Rollback] = "releasing" => part \in {"over", "stopped"}
    BY <1>1 DEF UndoAll, PartInv
  <2>3. UndoAll'
    BY <1>1, <1>9, <2>2, UndoStays DEF vars, lockVars, Idle
  <2>. QED  BY <2>1, <2>3, InvariantSplit
<1>. QED  BY <1>2, <1>3, <1>4, <1>5, <1>6, <1>7, <1>8, <1>9 DEF Next

\* The inductive invariant of the lock and the rollback: whatever programs start, die,
\* fail and age their markers, the description names its holder, the record of the
\* rollback is what is gone, and nothing it is to delete is its users'.
THEOREM RollbackInvariant == Spec => []IInv
  BY RollbackInit, RollbackNext, PTL DEF Spec

-----------------------------------------------------------------------------
\* _acquire_migration_lock excludes: two programs hold the lock at once only after their
\* reads and writes of the description overlapped, a lock was taken from a program at
\* work, or a migration without the lock wrote the description.
THEOREM RollbackExclusive == Spec => []Exclusive
<1>1. IInv => Exclusive
  <2> SUFFICES ASSUME IInv, ~unsure, NEW p \in Instance, NEW q \in Instance,
                      Holding(p), Holding(q)
               PROVE  p = q
    BY DEF Exclusive
  <2>1. LockAll
    BY InvariantSplit
  <2>2. HeldBy(p) /\ HeldBy(q)
    BY <2>1, LockFacts
  <2>3. /\ marker[p] \in Marker /\ marker[p][1] = p
        /\ marker[q] \in Marker /\ marker[q][1] = q
    BY <2>1, LockFacts DEF Holding
  <2>4. marker[p] = marker[q]
    BY <2>2, <2>3, SingleShape DEF HeldBy
  <2>. QED  BY <2>3, <2>4
<1>. QED  BY <1>1, RollbackInvariant, PTL

\* What else a rollback promises: no marker stays without a reason; channels elsewhere,
\* channels nobody opted in and the users' categories survive; what the record calls done
\* is gone and counted once; and a rollback that ends uncancelled has deleted all it was
\* to delete or names what it could not.
THEOREM RollbackHolds == Spec => []RollbackInv
<1>1. IInv => FinishedIsGone
  <2> SUFFICES ASSUME IInv, part = "over", ~cancel
               PROVE  /\ Targets \intersect live \subseteq mem.failures
                      /\ Category \intersect cats = {} \/ "<all>" \in mem.failures
    BY DEF FinishedIsGone
  <2>1. /\ Settled(OwnChannels) /\ Settled(Role) /\ Settled(Emoji)
        /\ Category \intersect cats = {} \/ "<all>" \in mem.failures
    BY DEF IInv, ReachedInv, PastEmoji
  <2>2. Targets = OwnChannels \union Role \union Emoji
    BY DEF Targets, OwnChannels
  <2>. QED  BY <2>1, <2>2 DEF Settled
<1>2. IInv => RollbackInv
  BY <1>1 DEF IInv, RollbackInv
<1>. QED  BY <1>2, RollbackInvariant, PTL

=============================================================================
