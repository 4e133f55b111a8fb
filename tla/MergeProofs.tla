----------------------------- MODULE MergeProofs -----------------------------
(***************************************************************************)
(* Proofs about MergeThreads, for any number of threads and messages, any  *)
(* stops, and any sequence of runs.                                        *)
(***************************************************************************)
EXTENDS MergeThreadsProps, TLAPS

-----------------------------------------------------------------------------
(* The parts of the state.                                                 *)

\* An item is a pair of a thread and a number.
LEMMA ItemShape ==
    /\ \A i \in Item : i[1] \in Thread /\ i[2] \in Number /\ i = <<i[1], i[2]>>
    /\ \A t \in Thread, n \in Number : <<t, n>> \in Item
    /\ \A t, n : <<t, n>>[1] = t /\ <<t, n>>[2] = n
  BY DEF Item

LEMMA Bounds ==
    /\ Thread \subseteq Nat /\ 1 \in Thread /\ Threads \in Nat
    /\ Number \subseteq Nat /\ 0 \in Number /\ MaxMessages \in Nat
    /\ \A n : n \in Numbers <=> n \in Number /\ n > 0
  BY MergeAssumption DEF Thread, Number, Numbers

LEMMA StateShape ==
    ASSUME NEW m \in State
    PROVE  /\ m.high \in [Thread -> Number]
           /\ m.offset \in [Thread -> Number]
           /\ m.failed \subseteq Item
           /\ m.ready \subseteq Item \X Nat
           /\ m.over \in BOOLEAN
           /\ \A e \in m.ready : e[1] \in Item /\ e[2] \in Nat
  BY DEF State

LEMMA TaskShape ==
    ASSUME TypeOK
    PROVE  /\ task \in Task /\ T \in 1..Threads + 1 /\ T \in Nat
           /\ task.stage \in {"start", "loop", "waiting", "after"}
           /\ task.next \in 0..MaxMessages + 1 /\ task.next \in Nat
           /\ task.skipBelow \in Number /\ task.skipBelow \in Nat
           /\ task.retry \subseteq Item
           /\ task.separator \in BOOLEAN
  BY MergeAssumption DEF TypeOK, Task, T, Number

LEMMA StartShape ==
    /\ EmptyState \in State
    /\ \A t \in 1..Threads + 1 : AtThread(t) \in Task
    /\ \A t : AtThread(t).thread = t /\ AtThread(t).stage = "start"
<1>1. EmptyState \in State
  BY Bounds DEF EmptyState, State
<1>2. ASSUME NEW t \in 1..Threads + 1 PROVE AtThread(t) \in Task
  <2>1. 0 \in 0..MaxMessages + 1 /\ 0 \in Number
    BY MergeAssumption DEF Number
  <2>. QED  BY <2>1 DEF AtThread, Task
<1>. QED  BY <1>1, <1>2 DEF AtThread

\* Retiring receipts leaves the others as they are.
LEMMA WithoutShape ==
    ASSUME TypeOK, NEW S \in SUBSET Item
    PROVE  /\ Without(S) \in [Thread -> [Number -> ReceiptStatus]]
           /\ \A t \in Thread, n \in Number :
                 /\ <<t, n>> \in S => Without(S)[t][n] = "none"
                 /\ <<t, n>> \notin S => Without(S)[t][n] = receipt[t][n]
  BY DEF Without, TypeOK, ReceiptStatus

\* What save_state leaves in memory: the same state without some of its entries.
LEMMA RetiringShape ==
    ASSUME NEW m \in State
    PROVE  /\ AfterRetiring(m) \in State
           /\ AfterRetiring(m).high = m.high
           /\ AfterRetiring(m).offset = m.offset
           /\ AfterRetiring(m).failed = m.failed
           /\ AfterRetiring(m).over = m.over
           /\ AfterRetiring(m).ready \subseteq m.ready
  BY DEF AfterRetiring, State

\* consume_delivery puts one entry in the place of the item's others.
LEMMA ConsumedShape ==
    ASSUME TypeOK, NEW m \in State, NEW i \in Item
    PROVE  /\ Consumed(m, i) \in State
           /\ Consumed(m, i).high = m.high
           /\ Consumed(m, i).offset = m.offset
           /\ Consumed(m, i).failed = m.failed
           /\ Consumed(m, i).over = m.over
           /\ \A e : e \in Consumed(m, i).ready <=>
                        (e \in m.ready /\ e[1] # i) \/ e = <<i, RevisionOf(i)>>
<1>1. RevisionOf(i) \in Nat
  BY ItemShape DEF RevisionOf, TypeOK
<1>. QED  BY <1>1 DEF Consumed, State

\* How far a saved state has come.
LEMMA ProgressShape ==
    ASSUME TypeOK, NEW t \in Thread
    PROVE  /\ disk.high[t] \in Nat /\ disk.offset[t] \in Nat /\ Progress(t) \in Nat
           /\ Progress(t) \in Number
           /\ disk.high[t] <= Progress(t) /\ disk.offset[t] <= Progress(t)
           /\ \A n \in Nat : n <= Progress(t) <=> n <= disk.high[t] \/ n <= disk.offset[t]
           /\ exported[t] \in Nat /\ exported[t] \in Number
<1>1. disk.high[t] \in Number /\ disk.offset[t] \in Number /\ exported[t] \in Number
  BY StateShape DEF TypeOK
<1>. QED  BY <1>1, MergeAssumption DEF Progress, Max2, Number

-----------------------------------------------------------------------------
LEMMA InitInv == Init => IInv
<1> SUFFICES ASSUME Init PROVE IInv
  OBVIOUS
<1>1. scenario \in [runs : Seq({"fresh", "resume", "incremental"}), stops : Nat,
                    longest : [Thread -> Number]]
  BY MergeAssumption DEF Init, Thread, Number
<1>2. mapped \subseteq Item /\ \A i \in mapped : i[2] > 0
  <2>1. exported \in [Thread -> Number]
    BY DEF Init
  <2>2. ASSUME NEW i \in mapped PROVE i \in Item /\ i[2] > 0
    <3>1. PICK t \in Thread : exported[t] > 0 /\ i = <<t, 1>>
      BY DEF Init
    <3>2. 1 \in Number
      BY <2>1, <3>1, MergeAssumption DEF Number
    <3>. QED  BY <3>1, <3>2, ItemShape
  <2>. QED  BY <2>2
<1>3. \A t \in Thread, n \in Number :
         /\ receipt[t][n] = "none" /\ revision[t][n] = 0
         /\ <<t, n>> \in mapped => copies[t][n] = 1
         /\ <<t, n>> \notin mapped => copies[t][n] = 0
  BY DEF Init
<1>4. TypeOK
  <2>1. receipt \in [Thread -> [Number -> ReceiptStatus]]
    BY DEF Init, ReceiptStatus
  <2>2. copies \in [Thread -> [Number -> Nat]] /\ revision \in [Thread -> [Number -> Nat]]
    BY DEF Init
  <2>3. task \in Task
    BY StartShape, MergeAssumption DEF Init
  <2>. QED  BY <1>1, <1>2, <2>1, <2>2, <2>3, StartShape DEF Init, TypeOK, Mode
<1>5. \A t \in Thread : disk.high[t] = 0 /\ disk.offset[t] = 0 /\ Progress(t) = 0
  BY DEF Init, EmptyState, Progress, Max2
<1>6. ShapeInv
  <2>1. \A t \in Thread : exported[t] \in Nat
    BY <1>4, ProgressShape
  <2>2. \A i \in mapped : StatusOf(i) = "none" /\ copies[i[1]][i[2]] = 1
    BY <1>2, <1>3, ItemShape DEF StatusOf
  <2>3. disk.failed \union mem.failed = {}
    BY DEF Init, EmptyState
  <2>4. \A t \in Thread : disk.high[t] <= exported[t] /\ disk.offset[t] <= exported[t]
    BY <1>5, <2>1
  <2>. QED  BY <1>1, <1>2, <2>2, <2>3, <2>4 DEF ShapeInv
<1>7. RunsInv
  <2>1. \A k \in 2..Len(scenario.runs) : scenario.runs[k] # "fresh"
    BY <1>1, MergeAssumption DEF Init
  <2>2. T = 1 /\ task = AtThread(1)
    BY StartShape DEF Init, T
  <2>. QED  BY <2>1, <2>2 DEF RunsInv, Init
<1>8. ReceiptInv
  <2>1. \A t \in Thread : <<t, 0>> \notin mapped
    BY <1>2
  <2>2. ASSUME NEW t \in Thread, NEW n \in Number PROVE ~(copies[t][n] > 0 /\ <<t, n>> \notin mapped)
    BY <1>3
  <2>. QED  BY <1>3, <2>1, <2>2 DEF ReceiptInv
<1>9. HeadedInv
  <2>1. \A t \in Thread, n \in Numbers : receipt[t][n] = "none"
    BY <1>3, Bounds
  <2>. QED  BY <1>5, <2>1 DEF HeadedInv
<1>10. SavedInv /\ MemoryInv
  <2>1. \A t \in Thread, n \in Numbers : ~(n <= Progress(t))
    BY <1>5, Bounds
  <2>. QED  BY <2>1 DEF SavedInv, MemoryInv, Sound, Init, EmptyState
<1>11. ComingInv
  BY <1>5 DEF ComingInv, Init
<1>12. PlaceInv
  BY DEF PlaceInv, Init, Working, AtThread
<1>13. NoDuplicate /\ OneSeparator /\ BehindSeparator
  <2>1. ASSUME NEW t \in Thread, NEW n \in Number
        PROVE  copies[t][n] <= 1 /\ (copies[t][n] > 0 => <<t, n>> \in mapped)
    BY <1>3
  <2>2. 1..MaxMessages \subseteq Number
    BY DEF Number
  <2>. QED  BY <2>1, <2>2, Bounds DEF NoDuplicate, OneSeparator, BehindSeparator
<1>. QED  BY <1>4, <1>6, <1>7, <1>8, <1>9, <1>10, <1>11, <1>12, <1>13 DEF IInv
-----------------------------------------------------------------------------
(* What follows from the invariant at once.                                *)

\* The item a working task has in hand, and what its position says of it.
LEMMA HandShape ==
    ASSUME IInv, Working, task.next <= MaxMessages
    PROVE  /\ T \in Thread /\ task.next \in Number /\ InHand \in Item
           /\ InHand[1] = T /\ InHand[2] = task.next
           /\ StatusOf(InHand) = receipt[T][task.next]
           /\ RevisionOf(InHand) = revision[T][task.next]
           /\ task.next > 0 => task.next \in Numbers
<1>1. T \in Thread
  BY DEF IInv, PlaceInv
<1>2. task.next \in Number /\ (task.next > 0 => task.next \in Numbers)
  BY TaskShape, MergeAssumption DEF IInv, Number, Numbers
<1>. QED  BY <1>1, <1>2, ItemShape DEF InHand, StatusOf, RevisionOf

\* A task that delivers or waits has an item of the export in hand.
LEMMA AtWork ==
    ASSUME IInv, Delivering \/ task.stage \in {"waiting", "after"}
    PROVE  Working /\ task.next <= MaxMessages
<1>1. Working
  BY DEF Delivering, InLoop, Working
<1>2. T \in Thread
  BY <1>1 DEF IInv, PlaceInv
<1>3. exported[T] \in Nat /\ exported[T] <= MaxMessages
  BY <1>2, ProgressShape, MergeAssumption DEF IInv, Number
<1>4. task.next = 0 \/ task.next <= exported[T]
  BY <1>1, TaskShape DEF IInv, PlaceInv, Delivering, InLoop
<1>. QED  BY <1>1, <1>3, <1>4, TaskShape, MergeAssumption DEF IInv

\* What lies behind the task, one message later.
LEMMA BehindShape ==
    ASSUME TypeOK
    PROVE  /\ \A n \in Nat : Behind(n) => n <= task.next
           /\ \A n \in Nat : n < task.next => Behind(n)
  BY TaskShape DEF Behind

\* What a sound state says, in parts.
LEMMA SoundShape ==
    ASSUME IInv
    PROVE  /\ disk \in State /\ mem \in State
           /\ Sound(disk) /\ Sound(mem)
           /\ \A t \in Thread : mem.high[t] = disk.high[t] /\ mem.offset[t] = disk.offset[t]
  BY DEF IInv, TypeOK, SavedInv, MemoryInv, RunsInv

-----------------------------------------------------------------------------
(* Steps of the task alone.                                                *)

\* What does not mention the task stays.
LEMMA TaskMoves ==
    ASSUME IInv, task' \in Task,
           UNCHANGED <<input, receipt, revision, copies, disk, mem, mode, scenario, exposed>>
    PROVE  /\ TypeOK' /\ ShapeInv' /\ ReceiptInv' /\ HeadedInv' /\ SavedInv' /\ Sound(mem)'
           /\ NoDuplicate' /\ OneSeparator' /\ BehindSeparator'
           /\ \A t \in Thread : Progress(t)' = Progress(t) /\ Headed(t)' = Headed(t)
<1>. USE DEF input
<1>1. TypeOK'
  BY DEF IInv, TypeOK
<1>2. ShapeInv'
  BY DEF IInv, ShapeInv, StatusOf
<1>3. \A t \in Thread : Progress(t)' = Progress(t) /\ Headed(t)' = Headed(t)
  BY DEF Progress, Headed
<1>4. ReceiptInv'
  BY DEF IInv, ReceiptInv, Progress
<1>5. HeadedInv'
  BY DEF IInv, HeadedInv, Progress, Headed
<1>6. SavedInv' /\ Sound(mem)'
  BY DEF IInv, SavedInv, MemoryInv, Sound, Progress, StatusOf, RevisionOf
<1>7. NoDuplicate' /\ OneSeparator' /\ BehindSeparator'
  BY DEF IInv, NoDuplicate, OneSeparator, BehindSeparator
<1>. QED  BY <1>1, <1>2, <1>3, <1>4, <1>5, <1>6, <1>7

LEMMA StartStep == IInv /\ StartThread => IInv'
<1> SUFFICES ASSUME IInv, StartThread PROVE IInv'
  OBVIOUS
<1>1. T \in Thread /\ mode # "none" /\ task = AtThread(T) /\ task.next = 0 /\ ~task.separator
  BY DEF StartThread, IInv, TypeOK, Task, T, Thread, RunsInv, Working, AtThread
<1>2. /\ T' = T /\ task'.stage = "loop" /\ task'.next \in {0, 1}
      /\ task'.next = 1 <=> mode # "fresh" /\ AlreadyStarted
      /\ task'.skipBelow = Threshold /\ task'.separator = FALSE
      /\ task'.retry = IF Incremental THEN {i \in mem.failed : i[1] = T} ELSE {}
  BY <1>1, TaskShape DEF StartThread, IInv, T, Task
<1>3. Threshold \in Number
  BY <1>1, SoundShape, StateShape, Bounds DEF Threshold, Max2
<1>4. task' \in Task
  <2>1. (IF Incremental THEN {i \in mem.failed : i[1] = T} ELSE {}) \subseteq Item
    BY SoundShape, StateShape
  <2>2. (IF mode # "fresh" /\ AlreadyStarted THEN 1 ELSE 0) \in 0..MaxMessages + 1
    BY MergeAssumption
  <2>. QED  BY <1>3, <2>1, <2>2, TaskShape DEF StartThread, IInv, Task
<1>5. UNCHANGED <<input, receipt, revision, copies, disk, mem, mode, scenario, exposed>>
  BY DEF StartThread
<1>6. /\ TypeOK' /\ ShapeInv' /\ ReceiptInv' /\ HeadedInv' /\ SavedInv' /\ Sound(mem)'
      /\ NoDuplicate' /\ OneSeparator' /\ BehindSeparator'
      /\ \A t \in Thread : Progress(t)' = Progress(t) /\ Headed(t)' = Headed(t)
  BY <1>4, <1>5, TaskMoves
<1>7. RunsInv'
  BY <1>1, <1>2, <1>5 DEF IInv, RunsInv, Working
<1>8. MemoryInv'
  <2>1. ASSUME NEW e \in mem.ready PROVE ~Behind(e[1][2])
    <3>1. e[1][2] \in Nat
      BY SoundShape, StateShape, ItemShape, Bounds
    <3>. QED  BY <1>1, <3>1 DEF Behind, AtThread
  <2>2. ASSUME NEW e \in mem.ready
        PROVE  /\ e[1][2] > 0 => e[1][2] <= Progress(e[1][1]) \/ e[1] \in exposed
               /\ Incremental => e[1][1] < T
               /\ Progress(e[1][1])' = Progress(e[1][1])
    BY <1>6, <2>1, SoundShape, StateShape, ItemShape DEF IInv, MemoryInv
  <2>3. mem' = mem /\ exposed' = exposed /\ Incremental' = Incremental
    BY <1>5 DEF Incremental
  <2>. QED  BY <1>2, <1>6, <2>2, <2>3 DEF MemoryInv
<1>9. ComingInv'
  BY <1>2, <1>5, <1>6 DEF IInv, ComingInv, Working
<1>10. PlaceInv'
  <2>1. exported[T] \in Nat /\ Progress(T) \in Nat /\ disk.high[T] \in Nat /\ disk.offset[T] \in Nat
    BY <1>1, ProgressShape DEF IInv
  <2>2. mem.high[T] = disk.high[T] /\ mem.offset[T] = disk.offset[T]
    BY <1>1, SoundShape
  <2>3. /\ mode = "fresh" => Progress(T) = 0
        /\ mode = "resume" => \A n \in Numbers :
              n > disk.offset[T] /\ n <= disk.high[T] => <<T, n>> \in exposed
    BY <1>1 DEF IInv, ComingInv, Working, AtThread
  <2>4. task'.next = 0 => disk.high[T] = 0
    <3>1. mode = "fresh" => disk.high[T] = 0
      BY <1>1, <2>1, <2>3, ProgressShape DEF IInv
    <3>2. ~AlreadyStarted => disk.high[T] = 0
      BY <2>1, <2>2 DEF AlreadyStarted
    <3>. QED  BY <1>2, <3>1, <3>2
  <2>5. task'.next = 1 => Headed(T)
    <3>1. AlreadyStarted => Progress(T) > 0
      BY <1>1, <2>1, <2>2, ProgressShape DEF AlreadyStarted, IInv
    <3>. QED  BY <1>1, <1>2, <3>1 DEF IInv, HeadedInv
  <2>6. Threshold \in Nat /\ Threshold <= Progress(T)
    BY <1>1, <2>1, <2>2, ProgressShape DEF IInv, Threshold, Max2, Progress
  <2>7. ASSUME NEW n \in Numbers PROVE n > Threshold /\ n <= Progress(T) => <<T, n>> \in exposed
    <3>1. n \in Nat /\ n > 0
      BY Bounds
    <3>2. CASE mode = "fresh"
      BY <2>1, <2>3, <3>1, <3>2
    <3>3. CASE mode = "resume"
      <4>1. Threshold = disk.offset[T]
        BY <2>2, <3>3 DEF Threshold, Incremental
      <4>2. n <= Progress(T) => n <= disk.high[T] \/ n <= disk.offset[T]
        BY <1>1, <3>1, ProgressShape DEF IInv
      <4>. QED  BY <2>1, <2>3, <3>1, <3>3, <4>1, <4>2
    <3>4. CASE mode = "incremental"
      <4>1. Threshold = Progress(T)
        BY <2>2, <3>4 DEF Threshold, Incremental, Progress
      <4>. QED  BY <2>1, <3>1, <4>1
    <3>. QED  BY <1>1, <3>2, <3>3, <3>4 DEF IInv, TypeOK, Mode
  <2>8. ASSUME NEW n \in Numbers PROVE n <= Threshold => copies[T][n] > 0 \/ <<T, n>> \in mem.failed
    <3>. n \in Nat
      BY Bounds
    <3>1. n <= Threshold => n <= Progress(T)
      BY <2>1, <2>6
    <3>. QED  BY <1>1, <3>1, SoundShape DEF Sound
  <2>9. \A n \in Numbers : n \in Nat /\ n > 0
    BY Bounds
  <2>10. ASSUME NEW i \in task'.retry PROVE i[1] = T /\ Incremental /\ i \in mem.failed
    BY <1>2
  <2>11. \A n \in Numbers : ~Behind(n)'
    BY <1>2, <2>9 DEF Behind
  <2>12. T' \in Thread /\ mode' # "none" /\ task'.next <= exported'[T'] + 1
    BY <1>1, <1>2, <1>5, <2>1 DEF input
  <2>13. IF task'.next = 0 THEN task'.stage # "after" /\ disk'.high[T'] = 0 ELSE Headed(T)'
    BY <1>1, <1>2, <1>5, <1>6, <2>4, <2>5
  <2>14. ASSUME NEW n \in Numbers
         PROVE  /\ ~Behind(n)' /\ n > task'.skipBelow /\ n <= Progress(T)' => <<T', n>> \in exposed'
                /\ Behind(n)' \/ n <= task'.skipBelow => copies'[T'][n] > 0 \/ <<T', n>> \in mem'.failed
    <3>1. Progress(T)' = Progress(T)
      BY <1>2, <1>5 DEF Progress
    <3>. QED  BY <1>2, <1>5, <2>7, <2>8, <2>11, <3>1
  <2>15. \A i \in task'.retry : i[1] = T' /\ Incremental' /\ i \in mem'.failed
    BY <1>2, <1>5, <2>10 DEF Incremental
  <2>. QED  BY <1>2, <2>12, <2>13, <2>14, <2>15 DEF PlaceInv
<1>. QED  BY <1>6, <1>7, <1>8, <1>9, <1>10 DEF IInv

\* The task goes on to its next message, when the one in hand is accounted for.
LEMMA MovesOn ==
    ASSUME IInv, Working, task.next > 0, task.next <= exported[T],
           copies[T][task.next] > 0 \/ InHand \in mem.failed,
           task' \in Task, task'.thread = task.thread, task'.stage = "loop",
           task'.next = task.next + 1, task'.skipBelow = task.skipBelow,
           task'.retry = task.retry, task'.separator = task.separator,
           UNCHANGED <<input, receipt, revision, copies, disk, mem, mode, scenario, exposed>>
    PROVE  IInv'
<1>1. T \in Thread /\ T' = T /\ T \in Nat /\ task.next \in Nat /\ mode # "none"
  BY TaskShape DEF IInv, PlaceInv, T
<1>2. /\ TypeOK' /\ ShapeInv' /\ ReceiptInv' /\ HeadedInv' /\ SavedInv' /\ Sound(mem)'
      /\ NoDuplicate' /\ OneSeparator' /\ BehindSeparator'
      /\ \A t \in Thread : Progress(t)' = Progress(t) /\ Headed(t)' = Headed(t)
  BY TaskMoves
<1>3. \A n \in Nat : Behind(n)' <=> Behind(n) \/ n = task.next
  BY <1>1, TaskShape DEF IInv, Behind
<1>4. RunsInv'
  BY <1>1 DEF IInv, RunsInv, Working
<1>5. MemoryInv'
  <2>1. ASSUME NEW e \in mem.ready
        PROVE  /\ e[1][2] > 0 => \/ e[1][2] <= Progress(e[1][1]) \/ e[1] \in exposed
                                 \/ e[1][1] = T /\ Behind(e[1][2])
               /\ Incremental => e[1][1] < T \/ (e[1][1] = T /\ Behind(e[1][2]))
               /\ Progress(e[1][1])' = Progress(e[1][1])
               /\ Behind(e[1][2]) => Behind(e[1][2])'
    <3>1. e[1][1] \in Thread /\ e[1][2] \in Nat
      BY SoundShape, StateShape, ItemShape, Bounds
    <3>. QED  BY <1>2, <1>3, <3>1 DEF IInv, MemoryInv
  <2>2. mem' = mem /\ exposed' = exposed /\ Incremental' = Incremental
    BY DEF Incremental
  <2>. QED  BY <1>1, <1>2, <2>1, <2>2 DEF MemoryInv
<1>6. ComingInv'
  BY <1>1, <1>2 DEF IInv, ComingInv, Working
<1>7. PlaceInv'
  <2>1. exported[T] \in Nat
    BY <1>1, ProgressShape DEF IInv
  <2>2. Headed(T) /\ (task.separator => receipt[T][0] = "acked" /\ disk.high[T] = 0)
    BY <1>1 DEF IInv, PlaceInv
  <2>3. Headed(T)' /\ Progress(T)' = Progress(T)
    BY <1>1, <1>2, <2>2 DEF Headed, Progress
  <2>4. ASSUME NEW n \in Numbers
        PROVE  /\ ~Behind(n)' /\ n > task.skipBelow /\ n <= Progress(T) => <<T, n>> \in exposed
               /\ Behind(n)' \/ n <= task.skipBelow => copies[T][n] > 0 \/ <<T, n>> \in mem.failed
    <3>1. /\ ~Behind(n) /\ n > task.skipBelow /\ n <= Progress(T) => <<T, n>> \in exposed
          /\ Behind(n) \/ n <= task.skipBelow => copies[T][n] > 0 \/ <<T, n>> \in mem.failed
      BY DEF IInv, PlaceInv
    <3>2. Behind(n)' <=> Behind(n) \/ n = task.next
      BY <1>3, Bounds
    <3>. QED  BY <3>1, <3>2 DEF InHand
  <2>5. ASSUME NEW i \in task.retry
        PROVE  i[1] = T /\ Incremental /\ (~Behind(i[2])' => i \in mem.failed)
    <3>1. i[2] \in Nat
      BY TaskShape, ItemShape, Bounds DEF IInv
    <3>2. i[1] = T /\ Incremental /\ (~Behind(i[2]) => i \in mem.failed)
      BY DEF IInv, PlaceInv
    <3>. QED  BY <1>3, <3>1, <3>2
  <2>6. Incremental' = Incremental
    BY DEF Incremental
  <2>7. task'.next > 0 /\ task'.next <= exported'[T'] + 1
    BY <1>1, <2>1 DEF input
  <2>8. task'.separator => receipt'[T'][0] = "acked" /\ disk'.high[T'] = 0 /\ task'.next > 0
    BY <1>1, <2>2, <2>7
  <2>9. \A n \in Numbers :
          /\ ~Behind(n)' /\ n > task'.skipBelow /\ n <= Progress(T)' => <<T', n>> \in exposed'
          /\ Behind(n)' \/ n <= task'.skipBelow => copies'[T'][n] > 0 \/ <<T', n>> \in mem'.failed
    BY <1>1, <2>3, <2>4
  <2>10. \A i \in task'.retry : i[1] = T' /\ Incremental' /\ (~Behind(i[2])' => i \in mem'.failed)
    BY <1>1, <2>5, <2>6
  <2>11. task'.next # 0
    BY <2>7, <1>1
  <2>. QED  BY <1>1, <2>3, <2>7, <2>8, <2>9, <2>10, <2>11 DEF PlaceInv
<1>. QED  BY <1>2, <1>4, <1>5, <1>6, <1>7 DEF IInv

LEMMA SkipStep == IInv /\ SkipMessage => IInv'
<1> SUFFICES ASSUME IInv, SkipMessage PROVE IInv'
  OBVIOUS
<1>1. /\ Working /\ T \in Thread /\ task.next \in Nat /\ task.next <= exported[T]
      /\ exported[T] \in Nat /\ exported[T] <= MaxMessages
  <2>1. Working
    BY DEF SkipMessage, InLoop, Working
  <2>2. T \in Thread
    BY <2>1 DEF IInv, PlaceInv
  <2>. QED  BY <2>1, <2>2, TaskShape, ProgressShape, MergeAssumption
       DEF IInv, SkipMessage, InLoop, Number
<1>2. task.next > 0 /\ task.next \in Numbers
  BY <1>1, MergeAssumption DEF SkipMessage, Skips, Numbers
<1>3. copies[T][task.next] > 0 \/ InHand \in mem.failed
  <2>1. CASE task.next <= task.skipBelow
    BY <1>1, <1>2, <2>1 DEF IInv, PlaceInv, InHand
  <2>2. CASE <<T, task.next>> \in mapped
    <3>1. copies[<<T, task.next>>[1]][<<T, task.next>>[2]] = 1
      BY <2>2 DEF IInv, ShapeInv
    <3>. QED  BY <3>1
  <2>. QED  BY <2>1, <2>2 DEF SkipMessage, Skips
<1>4. /\ task' \in Task /\ task'.thread = task.thread /\ task'.stage = "loop"
      /\ task'.next = task.next + 1 /\ task'.skipBelow = task.skipBelow
      /\ task'.retry = task.retry /\ task'.separator = task.separator
  <2>1. task.next + 1 \in 0..MaxMessages + 1
    BY <1>1, MergeAssumption
  <2>. QED  BY <2>1, TaskShape DEF IInv, SkipMessage, InLoop, Task
<1>. QED  BY <1>1, <1>2, <1>3, <1>4, MovesOn DEF SkipMessage

LEMMA GoOnStep == IInv /\ GoOn => IInv'
<1> SUFFICES ASSUME IInv, GoOn PROVE IInv'
  OBVIOUS
<1>1. Working /\ task.next <= MaxMessages
  BY AtWork DEF GoOn
<1>2. /\ T \in Thread /\ task.next \in Number /\ task.next > 0 /\ task.next <= exported[T]
      /\ task.next \in Numbers
  BY <1>1, HandShape, TaskShape DEF GoOn, IInv, PlaceInv
<1>3. copies[T][task.next] > 0 \/ InHand \in mem.failed
  BY <1>1, <1>2 DEF GoOn, Behind, IInv, PlaceInv, InHand
<1>4. /\ task' \in Task /\ task'.thread = task.thread /\ task'.stage = "loop"
      /\ task'.next = task.next + 1 /\ task'.skipBelow = task.skipBelow
      /\ task'.retry = task.retry /\ task'.separator = task.separator
  <2>1. task.next + 1 \in 0..MaxMessages + 1
    BY <1>1, <1>2, MergeAssumption DEF Number
  <2>. QED  BY <2>1, TaskShape DEF IInv, GoOn, NextMessage, Task
<1>. QED  BY <1>1, <1>2, <1>3, <1>4, MovesOn DEF GoOn

-----------------------------------------------------------------------------
(* Steps of one item: its receipt, and what the service does with it.      *)

\* An item stays, or takes one of the steps a receipt can take.
Moved(t, n) ==
    \/ /\ receipt'[t][n] = receipt[t][n] /\ revision'[t][n] = revision[t][n]
       /\ copies'[t][n] = copies[t][n]
    \/ /\ receipt[t][n] = "none" /\ receipt'[t][n] = "flying"
       /\ revision'[t][n] = revision[t][n] + 1 /\ copies'[t][n] = copies[t][n]
       /\ copies[t][n] = 0 \/ (n > 0 /\ <<t, n>> \in exposed)
       /\ n = 0 \/ Headed(t)
       /\ <<t, n>> \notin mapped
    \/ /\ \/ receipt[t][n] = "rejected" /\ receipt'[t][n] = "flying"
          \/ receipt[t][n] = "landed" /\ receipt'[t][n] = "acked"
          \/ receipt[t][n] = "flying" /\ receipt'[t][n] \in {"rejected", "lost"}
       /\ revision'[t][n] = revision[t][n] /\ copies'[t][n] = copies[t][n]
    \/ /\ receipt[t][n] = "flying" /\ receipt'[t][n] = "landed"
       /\ revision'[t][n] = revision[t][n] /\ copies'[t][n] = copies[t][n] + 1

LEMMA MovedRevision ==
    ASSUME NEW t \in Thread, NEW n \in Number, Moved(t, n), revision[t][n] \in Nat
    PROVE  revision'[t][n] = revision[t][n] =>
               receipt'[t][n] = receipt[t][n] \/ receipt[t][n] \notin {"none", "acked"}
  BY DEF Moved

\* Such steps keep all that the files and the service say together.
LEMMA ItemsMove ==
    ASSUME IInv,
           receipt' \in [Thread -> [Number -> ReceiptStatus]],
           revision' \in [Thread -> [Number -> Nat]],
           copies' \in [Thread -> [Number -> Nat]],
           \A t \in Thread, n \in Number : Moved(t, n),
           UNCHANGED <<input, disk, exposed>>
    PROVE  /\ ReceiptInv' /\ HeadedInv' /\ SavedInv'
           /\ NoDuplicate' /\ OneSeparator' /\ BehindSeparator'
           /\ \A t \in Thread : Progress(t)' = Progress(t) /\ (Headed(t) => Headed(t)')
           /\ \A i \in mapped : StatusOf(i)' = "none" /\ copies'[i[1]][i[2]] = 1
           /\ \A m \in State : Sound(m) => Sound(m)'
<1>. USE DEF input
<1>1. ASSUME NEW t \in Thread, NEW n \in Number
      PROVE  /\ receipt[t][n] \in ReceiptStatus /\ copies[t][n] \in Nat /\ revision[t][n] \in Nat
             /\ receipt'[t][n] \in ReceiptStatus /\ copies'[t][n] \in Nat /\ n \in Nat
             /\ Moved(t, n)
  BY Bounds DEF IInv, TypeOK
<1>2. ASSUME NEW t \in Thread PROVE Progress(t)' = Progress(t) /\ (Headed(t) => Headed(t)')
  <2>0. receipt[t][0] \in ReceiptStatus /\ copies[t][0] \in Nat /\ copies'[t][0] \in Nat /\ Moved(t, 0)
    BY <1>1, Bounds
  <2>1. copies[t][0] > 0 => copies'[t][0] > 0
    BY <2>0 DEF Moved
  <2>2. receipt[t][0] \in {"flying", "lost", "rejected"} =>
           copies'[t][0] > 0 \/ receipt'[t][0] \in {"flying", "lost", "rejected"}
    BY <2>0 DEF Moved
  <2>. QED  BY <2>1, <2>2 DEF Progress, Headed
<1>3. ASSUME NEW i \in mapped PROVE StatusOf(i)' = "none" /\ copies'[i[1]][i[2]] = 1
  <2>1. i[1] \in Thread /\ i[2] \in Number /\ i = <<i[1], i[2]>>
    BY ItemShape DEF IInv, TypeOK
  <2>2. receipt[i[1]][i[2]] = "none" /\ copies[i[1]][i[2]] = 1
    BY DEF IInv, ShapeInv, StatusOf
  <2>. QED  BY <1>1, <2>1, <2>2 DEF Moved, StatusOf
<1>4. ReceiptInv'
  <2> SUFFICES ASSUME NEW t \in Thread, NEW n \in Number
               PROVE  /\ receipt'[t][n] \in {"landed", "acked"} => copies'[t][n] > 0
                      /\ receipt'[t][n] \in {"flying", "rejected"} =>
                            copies'[t][n] = 0 \/ (n > 0 /\ <<t, n>> \in exposed)
                      /\ copies'[t][n] > 0 /\ receipt'[t][n] = "none" =>
                            IF n = 0 THEN disk.high[t] > 0
                            ELSE n <= Progress(t) \/ <<t, n>> \in exposed \/ <<t, n>> \in mapped
    BY <1>2 DEF ReceiptInv
  <2>1. /\ receipt[t][n] \in {"landed", "acked"} => copies[t][n] > 0
        /\ receipt[t][n] \in {"flying", "rejected"} =>
              copies[t][n] = 0 \/ (n > 0 /\ <<t, n>> \in exposed)
        /\ copies[t][n] > 0 /\ receipt[t][n] = "none" =>
              IF n = 0 THEN disk.high[t] > 0
              ELSE n <= Progress(t) \/ <<t, n>> \in exposed \/ <<t, n>> \in mapped
    BY DEF IInv, ReceiptInv
  <2>. QED  BY <1>1, <2>1 DEF Moved
<1>5. HeadedInv'
  <2>1. ASSUME NEW t \in Thread, NEW n \in Numbers PROVE receipt'[t][n] # "none" => Headed(t)'
    <3>1. n \in Number /\ n # 0
      BY Bounds
    <3>2. receipt[t][n] # "none" => Headed(t)
      BY DEF IInv, HeadedInv
    <3>. QED  BY <1>1, <1>2, <3>1, <3>2 DEF Moved
  <2>2. ASSUME NEW t \in Thread PROVE Progress(t)' > 0 => Headed(t)'
    BY <1>2 DEF IInv, HeadedInv
  <2>. QED  BY <2>1, <2>2 DEF HeadedInv
<1>6. ASSUME NEW m \in State, Sound(m) PROVE Sound(m)'
  <2>1. ASSUME NEW t \in Thread, NEW n \in Numbers
        PROVE  n <= Progress(t)' => copies'[t][n] > 0 \/ <<t, n>> \in m.failed
    <3>1. n \in Number /\ (n <= Progress(t) => copies[t][n] > 0 \/ <<t, n>> \in m.failed)
      BY <1>6, Bounds DEF Sound
    <3>. QED  BY <1>1, <1>2, <3>1 DEF Moved
  <2>2. ASSUME NEW i \in m.failed PROVE StatusOf(i)' # "none"
    <3>1. i[1] \in Thread /\ i[2] \in Number
      BY StateShape, ItemShape
    <3>2. StatusOf(i) # "none"
      BY <1>6 DEF Sound
    <3>. QED  BY <1>1, <3>1, <3>2 DEF Moved, StatusOf
  <2>3. ASSUME NEW e \in m.ready
        PROVE  /\ e[2] <= RevisionOf(e[1])'
               /\ e[2] = RevisionOf(e[1])' => StatusOf(e[1])' \in {"none", "acked"} /\ e[1] \notin m.failed
               /\ e[1][2] = 0 => disk.high[e[1][1]] > 0
    <3>1. e[1][1] \in Thread /\ e[1][2] \in Number /\ e[2] \in Nat
      BY StateShape, ItemShape
    <3>2. /\ e[2] <= RevisionOf(e[1])
          /\ e[2] = RevisionOf(e[1]) => StatusOf(e[1]) \in {"none", "acked"} /\ e[1] \notin m.failed
          /\ e[1][2] = 0 => disk.high[e[1][1]] > 0
      BY <1>6 DEF Sound
    <3>. DEFINE r == revision[e[1][1]][e[1][2]]
    <3>3. Moved(e[1][1], e[1][2]) /\ r \in Nat
      BY <1>1, <3>1
    <3>4. RevisionOf(e[1])' = r \/ (RevisionOf(e[1])' = r + 1)
      BY <3>3 DEF Moved, RevisionOf
    <3>5. RevisionOf(e[1])' = r => \/ StatusOf(e[1])' = StatusOf(e[1])
                                   \/ StatusOf(e[1]) \notin {"none", "acked"}
      <4>1. revision'[e[1][1]][e[1][2]] = r =>
               \/ receipt'[e[1][1]][e[1][2]] = receipt[e[1][1]][e[1][2]]
               \/ receipt[e[1][1]][e[1][2]] \notin {"none", "acked"}
        BY <3>1, <3>3, MovedRevision
      <4>2. /\ RevisionOf(e[1])' = revision'[e[1][1]][e[1][2]]
            /\ StatusOf(e[1])' = receipt'[e[1][1]][e[1][2]]
            /\ StatusOf(e[1]) = receipt[e[1][1]][e[1][2]]
        BY DEF RevisionOf, StatusOf
      <4>. HIDE DEF r
      <4>. QED  BY <4>1, <4>2
    <3>6. RevisionOf(e[1]) = r
      BY DEF RevisionOf
    <3>. HIDE DEF r
    <3>. QED  BY <3>1, <3>2, <3>3, <3>4, <3>5, <3>6
  <2>. QED  BY <2>1, <2>2, <2>3 DEF Sound
<1>7. SavedInv'
  <2>1. PICK d \in State : d = disk
    BY SoundShape
  <2>2. Sound(d)'
    BY <1>6, <2>1, SoundShape
  <2>3. Sound(disk)'
    BY <2>1, <2>2 DEF Sound
  <2>4. ASSUME NEW e \in disk.ready
        PROVE  e[1][2] > 0 => e[1][2] <= Progress(e[1][1])' \/ e[1] \in exposed
    <3>1. e[1][1] \in Thread
      BY SoundShape, StateShape, ItemShape
    <3>. QED  BY <1>2, <3>1 DEF IInv, SavedInv
  <2>. QED  BY <2>3, <2>4 DEF SavedInv
<1>8. NoDuplicate' /\ OneSeparator' /\ BehindSeparator'
  <2>1. ASSUME NEW t \in Thread, NEW n \in 1..MaxMessages
        PROVE  copies'[t][n] <= 1 \/ <<t, n>> \in exposed
    <3>1. n \in Number /\ n > 0
      BY Bounds DEF Numbers
    <3>2. copies[t][n] <= 1 \/ <<t, n>> \in exposed
      BY DEF IInv, NoDuplicate
    <3>3. receipt[t][n] = "flying" => copies[t][n] = 0 \/ <<t, n>> \in exposed
      BY <3>1 DEF IInv, ReceiptInv
    <3>. QED  BY <1>1, <3>1, <3>2, <3>3 DEF Moved
  <2>2. ASSUME NEW t \in Thread PROVE copies'[t][0] <= 1
    <3>1. copies[t][0] <= 1
      BY DEF IInv, OneSeparator
    <3>. 0 \in Number
      BY Bounds
    <3>2. receipt[t][0] = "flying" => copies[t][0] = 0
      <4>1. receipt[t][0] \in {"flying", "rejected"} =>
               copies[t][0] = 0 \/ (0 > 0 /\ <<t, 0>> \in exposed)
        BY DEF IInv, ReceiptInv
      <4>. QED  BY <4>1
    <3>3. receipt[t][0] \in ReceiptStatus /\ copies[t][0] \in Nat /\ copies'[t][0] \in Nat /\ Moved(t, 0)
      BY <1>1
    <3>. QED  BY <3>1, <3>2, <3>3 DEF Moved
  <2>3. ASSUME NEW t \in Thread, NEW n \in 1..MaxMessages, copies'[t][n] > 0, <<t, n>> \notin mapped
        PROVE  Headed(t)'
    <3>1. n \in Number /\ n > 0 /\ n \in Numbers
      BY Bounds DEF Numbers
    <3>2. copies[t][n] > 0 => Headed(t)
      BY <2>3 DEF IInv, BehindSeparator, Headed
    <3>3. receipt[t][n] # "none" => Headed(t)
      BY <3>1 DEF IInv, HeadedInv
    <3>4. copies[t][n] > 0 \/ receipt[t][n] # "none"
      BY <1>1, <2>3, <3>1 DEF Moved
    <3>. QED  BY <1>2, <3>2, <3>3, <3>4
  <2>. QED  BY <2>1, <2>2, <2>3 DEF NoDuplicate, OneSeparator, BehindSeparator, Headed
<1>. QED  BY <1>2, <1>3, <1>4, <1>5, <1>6, <1>7, <1>8

\* The parts of the invariant that such steps leave alone, when the run's state stays.
LEMMA MemoryStays ==
    ASSUME IInv, UNCHANGED <<input, disk, mem, mode, scenario, exposed>>,
           \A m \in State : Sound(m) => Sound(m)',
           \A t \in Thread : Progress(t)' = Progress(t),
           \A i \in mapped : StatusOf(i)' = "none" /\ copies'[i[1]][i[2]] = 1,
           T' = T, \A n \in Nat : Behind(n) => Behind(n)',
           mode # "none" \/ task' = task, Working <=> Working', Working \/ task' = task
    PROVE  ShapeInv' /\ RunsInv' /\ MemoryInv' /\ ComingInv'
<1>. USE DEF input
<1>1. ShapeInv'
  BY DEF IInv, ShapeInv
<1>2. RunsInv'
  BY DEF IInv, RunsInv
<1>3. MemoryInv'
  <2>1. PICK m \in State : m = mem
    BY SoundShape
  <2>2. Sound(m)'
    BY <2>1, SoundShape
  <2>3. Sound(mem)'
    BY <2>1, <2>2 DEF Sound
  <2>4. ASSUME NEW e \in mem.ready
        PROVE  /\ e[1][2] > 0 => \/ e[1][2] <= Progress(e[1][1])' \/ e[1] \in exposed
                                 \/ e[1][1] = T /\ Behind(e[1][2])'
               /\ Incremental => e[1][1] < T \/ (e[1][1] = T /\ Behind(e[1][2])')
    <3>1. e[1][1] \in Thread /\ e[1][2] \in Nat
      BY SoundShape, StateShape, ItemShape, Bounds
    <3>. QED  BY <3>1 DEF IInv, MemoryInv
  <2>5. Incremental' = Incremental
    BY DEF Incremental
  <2>. QED  BY <2>3, <2>4, <2>5 DEF MemoryInv
<1>4. ComingInv'
  BY DEF IInv, ComingInv
<1>. QED  BY <1>1, <1>2, <1>3, <1>4

LEMMA LandStep ==
    ASSUME IInv, NEW t \in Thread, NEW n \in Number, Land(t, n)
    PROVE  IInv'
<1>1. /\ receipt \in [Thread -> [Number -> ReceiptStatus]]
      /\ copies \in [Thread -> [Number -> Nat]] /\ revision \in [Thread -> [Number -> Nat]]
  BY DEF IInv, TypeOK
<1>2. /\ receipt' \in [Thread -> [Number -> ReceiptStatus]]
      /\ copies' \in [Thread -> [Number -> Nat]] /\ revision' \in [Thread -> [Number -> Nat]]
  <2>1. copies[t][n] + 1 \in Nat
    BY <1>1
  <2>2. [copies EXCEPT ![t][n] = @ + 1] \in [Thread -> [Number -> Nat]]
    BY <1>1, <2>1
  <2>3. /\ [receipt EXCEPT ![t][n] = "landed"] \in [Thread -> [Number -> ReceiptStatus]]
        /\ [receipt EXCEPT ![t][n] = "lost"] \in [Thread -> [Number -> ReceiptStatus]]
    <3>1. "landed" \in ReceiptStatus /\ "lost" \in ReceiptStatus
      BY DEF ReceiptStatus
    <3>. QED  BY <1>1, <3>1
  <2>. QED  BY <1>1, <2>2, <2>3 DEF Land
<1>3. ASSUME NEW u \in Thread, NEW k \in Number
      PROVE  /\ Moved(u, k)
             /\ <<u, k>> # <<t, n>> => receipt'[u][k] = receipt[u][k]
             /\ <<u, k>> = <<t, n>> => receipt'[u][k] \in {"landed", "lost"}
  BY <1>1 DEF Moved, Land
<1>4. /\ UNCHANGED <<input, revision, disk, mem, mode, task, scenario, exposed>>
      /\ receipt[t][n] = "flying"
  BY DEF Land
<1>5. /\ ReceiptInv' /\ HeadedInv' /\ SavedInv'
      /\ NoDuplicate' /\ OneSeparator' /\ BehindSeparator'
      /\ \A u \in Thread : Progress(u)' = Progress(u) /\ (Headed(u) => Headed(u)')
      /\ \A i \in mapped : StatusOf(i)' = "none" /\ copies'[i[1]][i[2]] = 1
      /\ \A m \in State : Sound(m) => Sound(m)'
  BY <1>2, <1>3, <1>4, ItemsMove
<1>6. TypeOK'
  BY <1>2, <1>4 DEF IInv, TypeOK, input
<1>7. T' = T /\ (Working <=> Working') /\ \A k \in Nat : Behind(k) <=> Behind(k)'
  BY <1>4 DEF T, Working, Behind
<1>8. ShapeInv' /\ RunsInv' /\ MemoryInv' /\ ComingInv'
  BY <1>4, <1>5, <1>7, MemoryStays
<1>9. PlaceInv'
  <2> SUFFICES ASSUME Working PROVE PlaceInv'
    BY <1>7 DEF PlaceInv
  <2>1. T \in Thread /\ 0 \in Number
    BY Bounds DEF IInv, PlaceInv
  <2>2. task.stage = "waiting" => StatusOf(InHand)' \in {"flying", "landed", "lost"}
    <3> SUFFICES ASSUME task.stage = "waiting" PROVE StatusOf(InHand)' \in {"flying", "landed", "lost"}
      OBVIOUS
    <3>1. T \in Thread /\ task.next \in Number /\ StatusOf(InHand) = receipt[T][task.next]
      BY AtWork, HandShape
    <3>2. StatusOf(InHand)' = receipt'[T][task.next]
      BY <1>4, <1>7 DEF StatusOf, InHand
    <3>3. StatusOf(InHand) \in {"flying", "landed", "lost"}
      BY DEF IInv, PlaceInv
    <3>. QED  BY <1>3, <3>1, <3>2, <3>3
  <2>3. receipt[T][0] = "acked" => receipt'[T][0] = "acked"
    <3>1. <<T, 0>> = <<t, n>> => T = t /\ n = 0
      OBVIOUS
    <3>. QED  BY <1>3, <1>4, <2>1, <3>1
  <2>4. ASSUME NEW k \in Numbers PROVE copies[T][k] > 0 => copies'[T][k] > 0
    <3>1. k \in Number /\ copies[T][k] \in Nat
      BY <1>1, <2>1, Bounds
    <3>2. Moved(T, k)
      BY <1>3, <2>1, <3>1
    <3>. QED  BY <3>1, <3>2 DEF Moved
  <2>5. \A k \in Numbers : k \in Nat
    BY Bounds
  <2>6. Skips(task.next)' = Skips(task.next) /\ Incremental' = Incremental
    BY <1>4, <1>7 DEF Skips, Incremental, input
  <2>7. \A i \in task.retry : i[2] \in Nat
    BY TaskShape, ItemShape, Bounds DEF IInv
  <2>. QED  BY <1>4, <1>5, <1>7, <2>1, <2>2, <2>3, <2>4, <2>5, <2>6, <2>7 DEF IInv, PlaceInv, input
<1>. QED  BY <1>5, <1>6, <1>8, <1>9 DEF IInv

\* What is delivered next in a thread was never passed, or is exposed, or is retried.
LEMMA AheadShape ==
    ASSUME IInv, Delivering
    PROVE  /\ ~Behind(task.next)
           /\ task.next = 0 => disk.high[T] = 0 /\ task.stage = "loop"
           /\ task.next > 0 =>
                 /\ <<T, task.next>> \notin mapped /\ Headed(T)
                 /\ task.next <= exported[T] /\ ~Skips(task.next)
                 /\ task.next <= Progress(T) => InHand \in exposed \/ InHand \in task.retry
           /\ InHand \in task.retry => InHand \in mem.failed /\ task.next > 0
<1>1. /\ Working /\ task.next <= MaxMessages /\ T \in Thread /\ task.next \in Number
      /\ task.next \in Nat /\ InHand[1] = T /\ InHand[2] = task.next
      /\ task.next > 0 => task.next \in Numbers
  BY AtWork, HandShape, Bounds
<1>2. task.stage = "loop"
  BY DEF Delivering, InLoop
<1>3. ~Behind(task.next)
  BY <1>1, <1>2 DEF Behind
<1>4. task.next = 0 => disk.high[T] = 0
  BY <1>1 DEF IInv, PlaceInv
<1>5. ASSUME task.next > 0
      PROVE  /\ <<T, task.next>> \notin mapped /\ Headed(T)
             /\ task.next <= exported[T] /\ ~Skips(task.next)
             /\ task.next <= Progress(T) => InHand \in exposed \/ InHand \in task.retry
  <2>1. task.next <= exported[T] /\ ~Skips(task.next)
    BY <1>5, <1>1 DEF Delivering, InLoop
  <2>2. Headed(T)
    BY <1>1, <1>5 DEF IInv, PlaceInv
  <2>3. <<T, task.next>> \notin mapped
    BY <2>1, <1>5 DEF Skips
  <2>4. task.next > task.skipBelow \/ InHand \in task.retry
    BY <1>1, <1>5, <2>1, TaskShape DEF IInv, Skips, InHand
  <2>5. task.next > task.skipBelow /\ task.next <= Progress(T) => InHand \in exposed
    BY <1>1, <1>3, <1>5 DEF IInv, PlaceInv, InHand
  <2>. QED  BY <2>1, <2>2, <2>3, <2>4, <2>5
<1>6. ASSUME InHand \in task.retry PROVE InHand \in mem.failed /\ task.next > 0
  <2>1. InHand \in mem.failed
    BY <1>1, <1>3, <1>6 DEF IInv, PlaceInv
  <2>. QED  BY <1>1, <2>1 DEF IInv, ShapeInv
<1>. QED  BY <1>2, <1>3, <1>4, <1>5, <1>6

\* A new status of the item in hand.
LEMMA StatusShape ==
    ASSUME IInv, T \in Thread, task.next \in Number, NEW st \in ReceiptStatus, SetStatus(st)
    PROVE  /\ receipt' \in [Thread -> [Number -> ReceiptStatus]]
           /\ receipt'[T][task.next] = st
           /\ \A t \in Thread, n \in Number :
                 t # T \/ n # task.next => receipt'[t][n] = receipt[t][n]
<1>1. receipt \in [Thread -> [Number -> ReceiptStatus]]
  BY DEF IInv, TypeOK
<1>2. receipt' = [receipt EXCEPT ![T][task.next] = st]
  BY DEF SetStatus
<1>. DEFINE r == [receipt EXCEPT ![T][task.next] = st]
<1>3. /\ r \in [Thread -> [Number -> ReceiptStatus]]
      /\ r[T][task.next] = st
      /\ \A t \in Thread, n \in Number : t # T \/ n # task.next => r[t][n] = receipt[t][n]
  BY <1>1
<1>. QED  BY <1>2, <1>3

LEMMA SendStep == IInv /\ Send => IInv'
<1> SUFFICES ASSUME IInv, Send PROVE IInv'
  OBVIOUS
<1>1. /\ Working /\ task.next <= MaxMessages /\ T \in Thread /\ task.next \in Number
      /\ InHand = <<T, task.next>> /\ StatusOf(InHand) = receipt[T][task.next]
      /\ task.next > 0 => task.next \in Numbers
      /\ task.next \in Nat
  BY AtWork, HandShape, Bounds DEF Send, InHand
<1>2. /\ receipt \in [Thread -> [Number -> ReceiptStatus]]
      /\ copies \in [Thread -> [Number -> Nat]] /\ revision \in [Thread -> [Number -> Nat]]
  BY DEF IInv, TypeOK
<1>3. /\ receipt' \in [Thread -> [Number -> ReceiptStatus]]
      /\ receipt'[T][task.next] = "flying"
      /\ \A t \in Thread, n \in Number :
            t # T \/ n # task.next => receipt'[t][n] = receipt[t][n]
  <2>1. "flying" \in ReceiptStatus
    BY DEF ReceiptStatus
  <2>. QED  BY <1>1, <2>1, StatusShape DEF Send
<1>4. /\ revision' \in [Thread -> [Number -> Nat]]
      /\ \A t \in Thread, n \in Number :
            t # T \/ n # task.next => revision'[t][n] = revision[t][n]
      /\ \/ /\ receipt[T][task.next] = "none" /\ InHand \notin task.retry
            /\ revision'[T][task.next] = revision[T][task.next] + 1
         \/ receipt[T][task.next] = "rejected" /\ revision'[T][task.next] = revision[T][task.next]
  <2>. DEFINE r == [revision EXCEPT ![T][task.next] = @ + 1]
  <2>1. /\ r \in [Thread -> [Number -> Nat]]
        /\ r[T][task.next] = revision[T][task.next] + 1
        /\ \A t \in Thread, n \in Number : t # T \/ n # task.next => r[t][n] = revision[t][n]
    <3>1. revision[T][task.next] + 1 \in Nat
      BY <1>1, <1>2
    <3>. QED  BY <1>1, <1>2, <3>1
  <2>2. revision' = r \/ revision' = revision
    BY DEF Send
  <2>3. \/ receipt[T][task.next] = "none" /\ InHand \notin task.retry /\ revision' = r
        \/ receipt[T][task.next] = "rejected" /\ revision' = revision
    BY <1>1 DEF Send
  <2>. HIDE DEF r
  <2>. QED  BY <1>2, <2>1, <2>2, <2>3
<1>5. /\ UNCHANGED <<input, copies, disk, mem, mode, scenario, exposed>>
      /\ Delivering /\ task.stage = "loop"
  BY DEF Send, Delivering, InLoop
<1>6. /\ task' \in Task /\ T' = T /\ task'.next = task.next /\ task'.stage = "waiting"
      /\ task'.skipBelow = task.skipBelow /\ task'.retry = task.retry
      /\ task'.separator = task.separator
  BY TaskShape DEF Send, IInv, Task, T
<1>7. ASSUME NEW t \in Thread, NEW n \in Number PROVE Moved(t, n)
  <2>1. CASE t = T /\ n = task.next
    <3>1. receipt[T][task.next] = "none" /\ InHand \notin task.retry =>
             /\ copies[T][task.next] = 0 \/ (task.next > 0 /\ <<T, task.next>> \in exposed)
             /\ task.next = 0 \/ Headed(T)
             /\ <<T, task.next>> \notin mapped
      <4> SUFFICES ASSUME receipt[T][task.next] = "none", InHand \notin task.retry
                   PROVE  /\ copies[T][task.next] = 0 \/ (task.next > 0 /\ <<T, task.next>> \in exposed)
                          /\ task.next = 0 \/ Headed(T)
                          /\ <<T, task.next>> \notin mapped
        OBVIOUS
      <4>1. copies[T][task.next] > 0 =>
               IF task.next = 0 THEN disk.high[T] > 0
               ELSE \/ task.next <= Progress(T) \/ <<T, task.next>> \in exposed
                    \/ <<T, task.next>> \in mapped
        BY <1>1 DEF IInv, ReceiptInv
      <4>2. copies[T][task.next] \in Nat
        BY <1>1, <1>2
      <4>3. <<T, task.next>> \notin mapped
        <5>1. \A i \in mapped : i[2] > 0
          BY DEF IInv, ShapeInv
        <5>2. task.next = 0 => <<T, task.next>> \notin mapped
          BY <5>1
        <5>. QED  BY <1>1, <1>5, <5>2, AheadShape
      <4>. QED  BY <1>1, <1>5, <4>1, <4>2, <4>3, AheadShape
    <3>. QED  BY <1>3, <1>4, <1>5, <2>1, <3>1 DEF Moved
  <2>2. CASE t # T \/ n # task.next
    BY <1>3, <1>4, <1>5, <2>2 DEF Moved
  <2>. QED  BY <2>1, <2>2
<1>8. /\ ReceiptInv' /\ HeadedInv' /\ SavedInv'
      /\ NoDuplicate' /\ OneSeparator' /\ BehindSeparator'
      /\ \A u \in Thread : Progress(u)' = Progress(u) /\ (Headed(u) => Headed(u)')
      /\ \A i \in mapped : StatusOf(i)' = "none" /\ copies'[i[1]][i[2]] = 1
      /\ \A m \in State : Sound(m) => Sound(m)'
  <2>1. copies' \in [Thread -> [Number -> Nat]]
    BY <1>2, <1>5
  <2>. QED  BY <1>3, <1>4, <1>5, <1>7, <2>1, ItemsMove
<1>9. TypeOK'
  BY <1>2, <1>3, <1>4, <1>5, <1>6 DEF IInv, TypeOK, input
<1>10. Working' /\ \A n \in Nat : Behind(n)' <=> Behind(n)
  BY <1>5, <1>6 DEF Working, Behind
<1>11. ShapeInv' /\ RunsInv' /\ MemoryInv' /\ ComingInv'
  <2>1. mode # "none"
    BY <1>1 DEF IInv, PlaceInv
  <2>. QED  BY <1>1, <1>5, <1>6, <1>8, <1>10, <2>1, MemoryStays
<1>12. PlaceInv'
  <2>1. Skips(task.next)' = Skips(task.next) /\ Incremental' = Incremental
    BY <1>5, <1>6 DEF Skips, Incremental, input
  <2>2. /\ mode # "none" /\ task.next <= exported[T] + 1
        /\ (IF task.next = 0 THEN disk.high[T] = 0 ELSE Headed(T))
        /\ task.separator => receipt[T][0] = "acked" /\ disk.high[T] = 0 /\ task.next > 0
        /\ \A n \in Numbers :
              /\ ~Behind(n) /\ n > task.skipBelow /\ n <= Progress(T) => <<T, n>> \in exposed
              /\ Behind(n) \/ n <= task.skipBelow => copies[T][n] > 0 \/ <<T, n>> \in mem.failed
        /\ \A i \in task.retry :
              i[1] = T /\ Incremental /\ (~Behind(i[2]) => i \in mem.failed)
    BY <1>1 DEF IInv, PlaceInv
  <2>3. task.next > 0 => task.next <= exported[T] /\ ~Skips(task.next)
    BY <1>5, AheadShape
  <2>4. StatusOf(InHand)' = "flying"
    BY <1>3, <1>6 DEF StatusOf, InHand
  <2>5. task.separator => receipt'[T][0] = "acked"
    BY <1>1, <1>3, <2>2, Bounds
  <2>6. \A i \in task.retry : i[2] \in Nat
    BY TaskShape, ItemShape, Bounds DEF IInv
  <2>7. \A n \in Numbers : n \in Nat
    BY Bounds
  <2>8. \A n \in Numbers :
          /\ ~Behind(n)' /\ n > task'.skipBelow /\ n <= Progress(T)' => <<T', n>> \in exposed'
          /\ Behind(n)' \/ n <= task'.skipBelow => copies'[T'][n] > 0 \/ <<T', n>> \in mem'.failed
    BY <1>1, <1>5, <1>6, <1>8, <1>10, <2>2, <2>7
  <2>9. \A i \in task'.retry :
          i[1] = T' /\ Incremental' /\ (~Behind(i[2])' => i \in mem'.failed)
    BY <1>5, <1>6, <1>10, <2>1, <2>2, <2>6
  <2>10. IF task'.next = 0 THEN task'.stage # "after" /\ disk'.high[T'] = 0 ELSE Headed(T)'
    BY <1>1, <1>5, <1>6, <1>8, <2>2
  <2>11. task'.next > 0 => task'.next <= exported'[T'] /\ ~Skips(task.next)'
    BY <1>5, <1>6, <2>1, <2>3 DEF input
  <2>12. task'.separator => receipt'[T'][0] = "acked" /\ disk'.high[T'] = 0 /\ task'.next > 0
    BY <1>5, <1>6, <2>2, <2>5
  <2>13. task'.next <= exported'[T'] + 1 /\ mode' # "none" /\ T' \in Thread
    BY <1>1, <1>5, <1>6, <2>2 DEF input
  <2>. QED  BY <1>6, <2>4, <2>8, <2>9, <2>10, <2>11, <2>12, <2>13 DEF PlaceInv
<1>. QED  BY <1>8, <1>9, <1>11, <1>12 DEF IInv

-----------------------------------------------------------------------------
(* The outcome of a delivery.                                              *)

HandSettled ==
    /\ receipt' \in [Thread -> [Number -> ReceiptStatus]]
    /\ \A t \in Thread, n \in Number :
          t # T \/ n # task.next => receipt'[t][n] = receipt[t][n]
Resolved ==
    /\ HandSettled /\ Outcome(TRUE)
    /\ receipt[T][task.next] \in {"landed", "acked"} /\ receipt'[T][task.next] = "acked"
Unresolved ==
    /\ HandSettled /\ Outcome(FALSE)
    /\ receipt[T][task.next] \in {"flying", "landed", "lost", "rejected"}
    /\ \/ receipt'[T][task.next] = receipt[T][task.next]
       \/ receipt[T][task.next] = "flying" /\ receipt'[T][task.next] = "rejected"

\* What the run's state says of the item in hand afterwards.
LEMMA NotedShape ==
    ASSUME IInv, InHand \in Item
    PROVE  /\ Noted(TRUE) \in State /\ Noted(FALSE) \in State
           /\ Noted(TRUE).high = mem.high /\ Noted(FALSE).high = mem.high
           /\ Noted(TRUE).offset = mem.offset /\ Noted(FALSE).offset = mem.offset
           /\ \A i : i \in Noted(TRUE).failed <=> i \in mem.failed /\ i # InHand
           /\ \A i : i \in Noted(FALSE).failed <=> i \in mem.failed \/ i = InHand
           /\ \A e : e \in Noted(TRUE).ready <=>
                        (e \in mem.ready /\ e[1] # InHand) \/ e = <<InHand, RevisionOf(InHand)>>
           /\ Noted(FALSE).ready = mem.ready
<1>1. mem \in State /\ TypeOK
  BY DEF IInv, TypeOK
<1>2. PICK m \in State : m = Consumed(mem, InHand)
  BY <1>1, ConsumedShape
<1>3. /\ m.high = mem.high /\ m.offset = mem.offset /\ m.failed = mem.failed
      /\ \A e : e \in m.ready <=>
                   (e \in mem.ready /\ e[1] # InHand) \/ e = <<InHand, RevisionOf(InHand)>>
  BY <1>1, <1>2, ConsumedShape
<1>4. Noted(TRUE) = [m EXCEPT !.failed = @ \ {InHand}]
  BY <1>2 DEF Noted
<1>5. Noted(FALSE) = [mem EXCEPT !.failed = @ \union {InHand}]
  BY DEF Noted
<1>6. [m EXCEPT !.failed = @ \ {InHand}] \in State /\ [mem EXCEPT !.failed = @ \union {InHand}] \in State
  BY <1>1 DEF State
<1>7. /\ Noted(TRUE).high = m.high /\ Noted(TRUE).offset = m.offset /\ Noted(TRUE).ready = m.ready
      /\ \A i : i \in Noted(TRUE).failed <=> i \in m.failed /\ i # InHand
  BY <1>4 DEF State
<1>8. /\ Noted(FALSE).high = mem.high /\ Noted(FALSE).offset = mem.offset
      /\ Noted(FALSE).ready = mem.ready
      /\ \A i : i \in Noted(FALSE).failed <=> i \in mem.failed \/ i = InHand
  BY ZenonT(30), <1>1, <1>5 DEF State
<1>9. Noted(TRUE) \in State /\ Noted(FALSE) \in State
  BY <1>4, <1>5, <1>6
<1>. QED  BY <1>3, <1>7, <1>8, <1>9

LEMMA OutcomeStep ==
    ASSUME IInv, Delivering \/ task.stage = "waiting",
           Resolved \/ Unresolved,
           UNCHANGED <<input, revision, copies, disk, mode, scenario, exposed>>
    PROVE  IInv'
<1>1. /\ Working /\ task.next <= MaxMessages /\ T \in Thread /\ task.next \in Number
      /\ InHand \in Item /\ InHand[1] = T /\ InHand[2] = task.next
      /\ InHand = <<T, task.next>> /\ StatusOf(InHand) = receipt[T][task.next]
      /\ task.next > 0 => task.next \in Numbers
      /\ task.next \in Nat /\ T \in Nat
  BY AtWork, HandShape, Bounds DEF InHand
<1>2. /\ receipt \in [Thread -> [Number -> ReceiptStatus]]
      /\ copies \in [Thread -> [Number -> Nat]] /\ revision \in [Thread -> [Number -> Nat]]
      /\ copies' \in [Thread -> [Number -> Nat]] /\ revision' \in [Thread -> [Number -> Nat]]
  BY DEF IInv, TypeOK
<1>3. /\ receipt' \in [Thread -> [Number -> ReceiptStatus]]
      /\ \A t \in Thread, n \in Number :
            t # T \/ n # task.next => receipt'[t][n] = receipt[t][n]
  BY DEF Resolved, Unresolved, HandSettled
<1>4. ASSUME NEW t \in Thread, NEW n \in Number PROVE Moved(t, n)
  <2>1. CASE t = T /\ n = task.next
    BY <2>1 DEF Resolved, Unresolved, Moved
  <2>2. CASE t # T \/ n # task.next
    BY <1>3, <2>2 DEF Moved
  <2>. QED  BY <2>1, <2>2
<1>5. /\ ReceiptInv' /\ HeadedInv' /\ SavedInv'
      /\ NoDuplicate' /\ OneSeparator' /\ BehindSeparator'
      /\ \A u \in Thread : Progress(u)' = Progress(u) /\ (Headed(u) => Headed(u)')
      /\ \A i \in mapped : StatusOf(i)' = "none" /\ copies'[i[1]][i[2]] = 1
      /\ \A m \in State : Sound(m) => Sound(m)'
  BY <1>2, <1>3, <1>4, ItemsMove
<1>6. task.stage \in {"loop", "waiting"} /\ ~Behind(task.next)
  <2>1. task.stage \in {"loop", "waiting"}
    BY DEF Delivering, InLoop
  <2>. QED  BY <1>1, <2>1 DEF Behind
<1>7. /\ mode # "none" /\ exported[T] \in Nat
      /\ task.next = 0 => disk.high[T] = 0
      /\ task.next > 0 => task.next <= exported[T] /\ ~Skips(task.next) /\ Headed(T)
      /\ task.separator => receipt[T][0] = "acked" /\ disk.high[T] = 0 /\ task.next > 0
      /\ \A n \in Numbers :
            /\ ~Behind(n) /\ n > task.skipBelow /\ n <= Progress(T) => <<T, n>> \in exposed
            /\ Behind(n) \/ n <= task.skipBelow => copies[T][n] > 0 \/ <<T, n>> \in mem.failed
      /\ \A i \in task.retry :
            i[1] = T /\ Incremental /\ (~Behind(i[2]) => i \in mem.failed)
  <2>1. exported[T] \in Nat
    BY <1>1, ProgressShape DEF IInv
  <2>2. task.next > 0 => task.next <= exported[T] /\ ~Skips(task.next)
    BY <1>1, <1>6, AheadShape DEF IInv, PlaceInv
  <2>. QED  BY <1>1, <2>1, <2>2 DEF IInv, PlaceInv
<1>8. Incremental' = Incremental /\ \A n : T' = T /\ task'.skipBelow = task.skipBelow
                                           /\ task'.retry = task.retry => Skips(n)' = Skips(n)
  BY DEF Incremental, Skips, input
<1>9. \A n \in Numbers : n \in Nat /\ n > 0 /\ n \in Number
  BY Bounds
<1>10. \A i \in task.retry : i \in Item /\ i[2] \in Nat /\ i = <<i[1], i[2]>>
  BY TaskShape, ItemShape, Bounds DEF IInv
<1>11. CASE task.next = 0
  <2>1. /\ task' \in Task /\ T' = T /\ task'.stage = "loop" /\ task'.next = 1
        /\ task'.skipBelow = task.skipBelow /\ task'.retry = task.retry /\ mem' = mem
        /\ task'.separator => Resolved
    <3>1. 1 \in 0..MaxMessages + 1
      BY MergeAssumption
    <3>2. \/ task' = [task EXCEPT !.stage = "loop", !.next = 1, !.separator = TRUE] /\ Resolved
          \/ task' = [task EXCEPT !.stage = "loop", !.next = 1, !.separator = FALSE]
      BY <1>11 DEF Resolved, Unresolved, Outcome
    <3>3. mem' = mem
      BY <1>11 DEF Resolved, Unresolved, Outcome
    <3>4. CASE task' = [task EXCEPT !.stage = "loop", !.next = 1, !.separator = TRUE] /\ Resolved
      BY <3>1, <3>3, <3>4, TaskShape DEF IInv, Task, T
    <3>5. CASE task' = [task EXCEPT !.stage = "loop", !.next = 1, !.separator = FALSE]
      BY <3>1, <3>3, <3>5, TaskShape DEF IInv, Task, T
    <3>. QED  BY <3>2, <3>4, <3>5
  <2>2. TypeOK'
    BY <1>2, <1>3, <2>1 DEF IInv, TypeOK, input
  <2>3. Working' /\ \A n \in Nat : Behind(n)' <=> n = 0
    BY <2>1 DEF Working, Behind
  <2>4. \A n \in Nat : ~Behind(n)
    BY <1>6, <1>11, TaskShape DEF IInv, Behind
  <2>5. ShapeInv' /\ RunsInv' /\ MemoryInv' /\ ComingInv'
    BY <1>1, <1>5, <1>7, <2>1, <2>3, <2>4, MemoryStays
  <2>6. Headed(T)'
    <3>1. copies[T][0] > 0 \/ receipt'[T][0] \in {"flying", "lost", "rejected"}
      <4>1. receipt[T][0] \in {"landed", "acked"} => copies[T][0] > 0
        BY <1>1, <1>11 DEF IInv, ReceiptInv
      <4>. QED  BY <1>11, <4>1 DEF Resolved, Unresolved
    <3>. QED  BY <2>1, <3>1 DEF Headed
  <2>7. PlaceInv'
    <3>1. task'.separator => receipt'[T][0] = "acked" /\ disk.high[T] = 0
      BY <1>7, <1>11, <2>1 DEF Resolved
    <3>2. \A n \in Numbers :
            /\ ~Behind(n)' /\ n > task'.skipBelow /\ n <= Progress(T)' => <<T', n>> \in exposed'
            /\ Behind(n)' \/ n <= task'.skipBelow => copies'[T'][n] > 0 \/ <<T', n>> \in mem'.failed
      BY <1>1, <1>5, <1>7, <1>9, <2>1, <2>3, <2>4
    <3>3. \A i \in task'.retry :
            i[1] = T' /\ Incremental' /\ (~Behind(i[2])' => i \in mem'.failed)
      BY <1>7, <1>8, <1>10, <2>1, <2>4
    <3>. QED  BY <1>1, <1>7, <2>1, <2>6, <3>1, <3>2, <3>3 DEF PlaceInv, input
  <2>. QED  BY <1>5, <2>2, <2>5, <2>7 DEF IInv
<1>12. CASE task.next # 0
  <2>1. /\ task' \in Task /\ T' = T /\ task'.stage = "after" /\ task'.next = task.next
        /\ task'.skipBelow = task.skipBelow /\ task'.retry = task.retry
        /\ task'.separator = task.separator
        /\ task.next > 0 /\ task.next \in Numbers
    <3>1. task' = [task EXCEPT !.stage = "after"]
      BY <1>12 DEF Resolved, Unresolved, Outcome
    <3>. QED  BY <1>1, <1>12, <3>1, TaskShape DEF IInv, Task, T
  <2>2. Working' /\ \A n \in Nat : Behind(n)' <=> Behind(n) \/ n = task.next
    BY <1>6, <2>1, TaskShape DEF IInv, Working, Behind
  <2>3. \/ mem' = Noted(TRUE) /\ Resolved
        \/ mem' = Noted(FALSE) /\ Unresolved
    BY <1>12 DEF Resolved, Unresolved, Outcome
  <2>4. /\ mem' \in State /\ mem'.high = mem.high /\ mem'.offset = mem.offset
        /\ \A i : i \in mem'.failed => i \in mem.failed \/ i = InHand
        /\ \A i : i # InHand => (i \in mem'.failed <=> i \in mem.failed)
        /\ \A e : e \in mem'.ready => e \in mem.ready \/ e = <<InHand, RevisionOf(InHand)>>
        /\ copies[T][task.next] > 0 \/ InHand \in mem'.failed
    <3>1. Resolved => copies[T][task.next] > 0
      BY <1>1 DEF Resolved, IInv, ReceiptInv
    <3>. QED  BY <1>1, <2>3, <3>1, NotedShape
  <2>5. Sound(mem)'
    <3>1. PICK m \in State : m = mem
      BY SoundShape
    <3>2. Sound(m)' /\ Sound(m)
      BY <1>5, <3>1, SoundShape
    <3>3. ASSUME NEW t \in Thread, NEW n \in Numbers, n <= Progress(t)'
          PROVE  copies'[t][n] > 0 \/ <<t, n>> \in mem'.failed
      <4>1. copies'[t][n] > 0 \/ <<t, n>> \in mem.failed
        BY <3>1, <3>2, <3>3 DEF Sound
      <4>2. <<t, n>> = InHand => t = T /\ n = task.next
        BY <1>1
      <4>. QED  BY <2>4, <4>1, <4>2
    <3>4. ASSUME NEW i \in mem'.failed PROVE StatusOf(i)' # "none"
      <4>1. CASE i = InHand
        <5>1. StatusOf(i)' = receipt'[T][task.next]
          BY <1>1, <4>1 DEF StatusOf
        <5>. QED  BY <5>1 DEF Resolved, Unresolved
      <4>2. CASE i # InHand
        BY <2>4, <3>1, <3>2, <4>2 DEF Sound
      <4>. QED  BY <4>1, <4>2
    <3>5. ASSUME NEW e \in mem'.ready
          PROVE  /\ e[2] <= RevisionOf(e[1])'
                 /\ e[2] = RevisionOf(e[1])' => StatusOf(e[1])' \in {"none", "acked"} /\ e[1] \notin mem'.failed
                 /\ e[1][2] = 0 => disk.high[e[1][1]] > 0
      <4>1. CASE e \in mem.ready
        <5>1. /\ e[2] <= RevisionOf(e[1])'
              /\ e[2] = RevisionOf(e[1])' => StatusOf(e[1])' \in {"none", "acked"} /\ e[1] \notin mem.failed
              /\ e[1][2] = 0 => disk.high[e[1][1]] > 0
              /\ e[2] = RevisionOf(e[1]) => StatusOf(e[1]) \in {"none", "acked"}
          BY <3>1, <3>2, <4>1 DEF Sound
        <5>2. RevisionOf(e[1])' = RevisionOf(e[1])
          BY DEF RevisionOf
        <5>3. CASE e[1] # InHand
          BY <2>4, <5>1, <5>3
        <5>4. CASE e[1] = InHand /\ mem' = Noted(FALSE) /\ Unresolved
          <6>1. e[2] # RevisionOf(e[1])
            BY <1>1, <5>1, <5>4 DEF Unresolved
          <6>. QED  BY <5>1, <5>2, <6>1
        <5>5. CASE e[1] = InHand /\ mem' = Noted(TRUE)
          BY <1>1, <5>1, <5>5, NotedShape
        <5>. QED  BY <2>3, <5>3, <5>4, <5>5
      <4>2. CASE e \notin mem.ready
        <5>1. e = <<InHand, RevisionOf(InHand)>>
          BY <2>4, <4>2
        <5>2. e[1] = InHand /\ e[2] = RevisionOf(InHand)
          BY <5>1
        <5>3. RevisionOf(e[1])' = RevisionOf(e[1]) /\ RevisionOf(e[1]) \in Nat
          BY <1>1, <1>2, <5>2 DEF RevisionOf
        <5>4. mem' = Noted(TRUE) /\ Resolved
          BY <1>1, <2>3, <4>2, NotedShape
        <5>5. InHand \notin mem'.failed
          BY <1>1, <5>4, NotedShape
        <5>6. StatusOf(e[1])' = "acked"
          BY <1>1, <5>2, <5>4 DEF StatusOf, Resolved
        <5>. QED  BY <1>1, <1>12, <5>2, <5>3, <5>5, <5>6
      <4>. QED  BY <4>1, <4>2
    <3>. QED  BY <3>3, <3>4, <3>5 DEF Sound
  <2>6. MemoryInv'
    <3>1. ASSUME NEW e \in mem'.ready
          PROVE  /\ e[1][2] > 0 => \/ e[1][2] <= Progress(e[1][1])' \/ e[1] \in exposed
                                   \/ e[1][1] = T /\ Behind(e[1][2])'
                 /\ Incremental => e[1][1] < T \/ (e[1][1] = T /\ Behind(e[1][2])')
      <4>1. CASE e \in mem.ready
        <5>1. e[1][1] \in Thread /\ e[1][2] \in Nat
          BY <4>1, SoundShape, StateShape, ItemShape, Bounds
        <5>. QED  BY <1>5, <2>2, <4>1, <5>1 DEF IInv, MemoryInv
      <4>2. CASE e \notin mem.ready
        <5>1. e = <<InHand, RevisionOf(InHand)>>
          BY <2>4, <4>2
        <5>2. e[1] = InHand
          BY <5>1
        <5>3. e[1][1] = T /\ e[1][2] = task.next
          BY <1>1, <5>2
        <5>4. PICK k \in Nat : k = task.next
          BY <1>1
        <5>5. Behind(k)'
          BY <2>2, <5>4
        <5>. QED  BY <5>3, <5>4, <5>5
      <4>. QED  BY <4>1, <4>2
    <3>. QED  BY <1>8, <2>1, <2>5, <3>1 DEF MemoryInv
  <2>7. TypeOK'
    BY <1>2, <1>3, <2>1, <2>4 DEF IInv, TypeOK, input
  <2>8. ShapeInv'
    <3>1. \A i \in disk'.failed \union mem'.failed : i[2] > 0
      BY <1>1, <2>1, <2>4 DEF IInv, ShapeInv
    <3>2. \A i \in mapped' : i[2] > 0 /\ StatusOf(i)' = "none" /\ copies'[i[1]][i[2]] = 1
      BY <1>5 DEF IInv, ShapeInv, input
    <3>3. /\ scenario \in [runs : Seq({"fresh", "resume", "incremental"}), stops : Nat,
                           longest : [Thread -> Number]]
          /\ \A t \in Thread : disk.high[t] <= exported[t] /\ disk.offset[t] <= exported[t]
      BY DEF IInv, ShapeInv
    <3>. QED  BY <3>1, <3>2, <3>3 DEF ShapeInv, input
  <2>9. RunsInv' /\ ComingInv'
    <3>1. RunsInv'
      BY <1>7, <2>2, <2>4 DEF IInv, RunsInv
    <3>2. ComingInv'
      BY <1>1, <1>5, <2>1, <2>2 DEF IInv, ComingInv
    <3>. QED  BY <3>1, <3>2
  <2>10. PlaceInv'
    <3>1. Skips(task.next)' = Skips(task.next)
      BY <1>8, <2>1
    <3>2. task.separator => receipt'[T][0] = "acked"
      BY <1>1, <1>3, <1>7, Bounds
    <3>3. ASSUME NEW n \in Numbers
          PROVE  /\ ~Behind(n)' /\ n > task'.skipBelow /\ n <= Progress(T)' => <<T', n>> \in exposed'
                 /\ Behind(n)' \/ n <= task'.skipBelow => copies'[T'][n] > 0 \/ <<T', n>> \in mem'.failed
      <4>1. Behind(n)' <=> Behind(n) \/ n = task.next
        BY <1>9, <2>2
      <4>2. copies[T][n] > 0 \/ <<T, n>> \in mem.failed => copies[T][n] > 0 \/ <<T, n>> \in mem'.failed
        <5>1. <<T, n>> = InHand => n = task.next
          BY <1>1
        <5>. QED  BY <2>4, <5>1
      <4>3. n = task.next => copies[T][n] > 0 \/ <<T, n>> \in mem'.failed
        BY <1>1, <2>4
      <4>4. Progress(T)' = Progress(T)
        BY <2>1 DEF Progress
      <4>. QED  BY <1>7, <2>1, <4>1, <4>2, <4>3, <4>4
    <3>4. ASSUME NEW i \in task'.retry
          PROVE  i[1] = T' /\ Incremental' /\ (~Behind(i[2])' => i \in mem'.failed)
      <4>1. i[1] = T /\ Incremental /\ (~Behind(i[2]) => i \in mem.failed) /\ i[2] \in Nat
        BY <1>7, <1>10, <2>1
      <4>2. i = InHand => i[2] = task.next
        BY <1>1
      <4>. QED  BY <1>8, <2>1, <2>2, <2>4, <4>1, <4>2
    <3>5. Headed(T)' /\ task'.next <= exported[T] /\ task'.next <= exported[T] + 1
      BY <1>1, <1>5, <1>7, <2>1
    <3>6. T' \in Thread /\ mode' # "none" /\ exported' = exported
      BY <1>1, <1>7, <2>1 DEF input
    <3>7. task'.separator => receipt'[T'][0] = "acked" /\ disk'.high[T'] = 0 /\ task'.next > 0
      BY <1>7, <2>1, <3>2
    <3>. QED  BY <1>7, <2>1, <3>1, <3>3, <3>4, <3>5, <3>6, <3>7 DEF PlaceInv
  <2>. QED  BY <1>5, <2>6, <2>7, <2>8, <2>9, <2>10 DEF IInv
<1>. QED  BY <1>11, <1>12

\* A new status of the item in hand, or none.
LEMMA SettlesShape ==
    ASSUME IInv, Working, task.next <= MaxMessages,
           receipt' = receipt \/ SetStatus("acked") \/ SetStatus("rejected")
    PROVE  /\ HandSettled
           /\ receipt' = receipt => receipt'[T][task.next] = receipt[T][task.next]
           /\ SetStatus("acked") => receipt'[T][task.next] = "acked"
           /\ SetStatus("rejected") => receipt'[T][task.next] = "rejected"
<1>1. T \in Thread /\ task.next \in Number
  BY HandShape
<1>2. "acked" \in ReceiptStatus /\ "rejected" \in ReceiptStatus
  BY DEF ReceiptStatus
<1>3. receipt \in [Thread -> [Number -> ReceiptStatus]]
  BY DEF IInv, TypeOK
<1>4. CASE receipt' = receipt
  <2>1. HandSettled
    BY <1>3, <1>4 DEF HandSettled
  <2>2. SetStatus("acked") => receipt'[T][task.next] = "acked"
    BY <1>1, <1>2, StatusShape
  <2>3. SetStatus("rejected") => receipt'[T][task.next] = "rejected"
    BY <1>1, <1>2, StatusShape
  <2>. QED  BY <1>4, <2>1, <2>2, <2>3
<1>5. CASE SetStatus("acked") \/ SetStatus("rejected")
  <2>1. HandSettled
    BY <1>1, <1>2, <1>5, StatusShape DEF HandSettled
  <2>2. SetStatus("acked") => receipt'[T][task.next] = "acked"
    BY <1>1, <1>2, StatusShape
  <2>3. SetStatus("rejected") => receipt'[T][task.next] = "rejected"
    BY <1>1, <1>2, StatusShape
  <2>4. receipt' = receipt => receipt'[T][task.next] = receipt[T][task.next]
    OBVIOUS
  <2>. QED  BY <2>1, <2>2, <2>3, <2>4
<1>. QED  BY <1>4, <1>5

LEMMA KnownStep == IInv /\ Known => IInv'
<1> SUFFICES ASSUME IInv, Known PROVE IInv'
  OBVIOUS
<1>1. Delivering /\ UNCHANGED <<input, revision, copies, disk, mode, scenario, exposed>>
  BY DEF Known
<1>2. /\ Working /\ task.next <= MaxMessages /\ InHand \in Item
      /\ StatusOf(InHand) = receipt[T][task.next]
  BY <1>1, AtWork, HandShape
<1>3. Resolved \/ Unresolved
  <2>1. receipt' = receipt \/ SetStatus("acked") \/ SetStatus("rejected")
    BY DEF Known
  <2>2. /\ HandSettled
        /\ receipt' = receipt => receipt'[T][task.next] = receipt[T][task.next]
        /\ SetStatus("acked") => receipt'[T][task.next] = "acked"
    BY <1>2, <2>1, SettlesShape
  <2>3. InHand \in task.retry => StatusOf(InHand) # "none"
    BY <1>1, AheadShape, SoundShape DEF Sound
  <2>4. \/ StatusOf(InHand) = "acked" /\ Outcome(TRUE) /\ receipt' = receipt
        \/ StatusOf(InHand) = "landed" /\ Outcome(TRUE) /\ SetStatus("acked")
        \/ /\ StatusOf(InHand) \in {"flying", "lost", "landed", "rejected"}
           /\ Outcome(FALSE) /\ receipt' = receipt
    BY <2>3 DEF Known
  <2>. QED  BY <1>2, <2>2, <2>4 DEF Resolved, Unresolved
<1>. QED  BY <1>1, <1>3, OutcomeStep

LEMMA AnswerStep == IInv /\ Answer => IInv'
<1> SUFFICES ASSUME IInv, Answer PROVE IInv'
  OBVIOUS
<1>1. task.stage = "waiting" /\ UNCHANGED <<input, revision, copies, disk, mode, scenario, exposed>>
  BY DEF Answer
<1>2. /\ Working /\ task.next <= MaxMessages /\ InHand \in Item
      /\ StatusOf(InHand) = receipt[T][task.next]
  BY <1>1, AtWork, HandShape
<1>3. Resolved \/ Unresolved
  <2>1. receipt' = receipt \/ SetStatus("acked") \/ SetStatus("rejected")
    BY DEF Answer
  <2>2. /\ HandSettled
        /\ receipt' = receipt => receipt'[T][task.next] = receipt[T][task.next]
        /\ SetStatus("acked") => receipt'[T][task.next] = "acked"
        /\ SetStatus("rejected") => receipt'[T][task.next] = "rejected"
    BY <1>2, <2>1, SettlesShape
  <2>3. StatusOf(InHand) \in {"flying", "landed", "lost"}
    BY <1>1, <1>2 DEF IInv, PlaceInv
  <2>4. \/ StatusOf(InHand) = "landed" /\ Outcome(TRUE) /\ SetStatus("acked")
        \/ StatusOf(InHand) = "flying" /\ Outcome(FALSE) /\ SetStatus("rejected")
        \/ Outcome(FALSE) /\ receipt' = receipt
    BY DEF Answer
  <2>. QED  BY <1>2, <2>2, <2>3, <2>4 DEF Resolved, Unresolved
<1>. QED  BY <1>1, <1>3, OutcomeStep

LEMMA ExportStep ==
    ASSUME IInv, NEW t \in Thread, Export(t)
    PROVE  IInv'
<1>1. /\ exported \in [Thread -> Number] /\ exported[t] \in Nat /\ exported[t] < scenario.longest[t]
      /\ scenario.longest[t] \in Number /\ mode = "none"
      /\ UNCHANGED <<mapped, receipt, revision, copies, disk, mem, mode, task, scenario, exposed>>
  BY ProgressShape DEF Export, IInv, TypeOK, ShapeInv
<1>2. exported[t] + 1 \in Number
  BY <1>1, MergeAssumption DEF Number
<1>3. /\ exported' \in [Thread -> Number]
      /\ \A u \in Thread : exported'[u] = exported[u] \/ exported'[u] = exported[u] + 1
  BY <1>1, <1>2 DEF Export
<1>4. TypeOK'
  BY <1>1, <1>3 DEF IInv, TypeOK
<1>5. ShapeInv'
  <2>1. ASSUME NEW u \in Thread PROVE disk.high[u] <= exported'[u] /\ disk.offset[u] <= exported'[u]
    <3>1. disk.high[u] <= exported[u] /\ disk.offset[u] <= exported[u]
      BY DEF IInv, ShapeInv
    <3>2. disk.high[u] \in Nat /\ disk.offset[u] \in Nat /\ exported[u] \in Nat
      BY ProgressShape DEF IInv
    <3>. QED  BY <1>3, <3>1, <3>2
  <2>. QED  BY <1>1, <2>1 DEF IInv, ShapeInv, StatusOf
<1>6. ~Working /\ ~Working'
  BY <1>1 DEF IInv, RunsInv, AtThread, Working
<1>7. PlaceInv'
  BY <1>6 DEF PlaceInv
<1>8. RunsInv' /\ ReceiptInv' /\ HeadedInv' /\ ComingInv'
  <2>1. T' = T
    BY <1>1 DEF T
  <2>. QED  BY <1>1, <1>6, <2>1 DEF IInv, RunsInv, ReceiptInv, HeadedInv, ComingInv, Progress, Headed
<1>9. SavedInv' /\ MemoryInv'
  <2>1. T' = T /\ Incremental' = Incremental /\ \A n \in Nat : Behind(n)' = Behind(n)
    BY <1>1 DEF T, Incremental, Behind
  <2>2. \A e \in mem.ready : e[1][2] \in Nat
    BY SoundShape, StateShape, ItemShape, Bounds
  <2>3. Sound(mem)' /\ SavedInv'
    BY <1>1 DEF IInv, SavedInv, MemoryInv, Sound, Progress, StatusOf, RevisionOf
  <2>4. ASSUME NEW e \in mem.ready
        PROVE  /\ e[1][2] > 0 => \/ e[1][2] <= Progress(e[1][1])' \/ e[1] \in exposed
                                 \/ e[1][1] = T /\ Behind(e[1][2])'
               /\ Incremental => e[1][1] < T \/ (e[1][1] = T /\ Behind(e[1][2])')
    <3>1. Progress(e[1][1])' = Progress(e[1][1])
      BY <1>1 DEF Progress
    <3>. QED  BY <2>1, <2>2, <3>1 DEF IInv, MemoryInv
  <2>. QED  BY <1>1, <2>1, <2>3, <2>4 DEF MemoryInv
<1>10. NoDuplicate' /\ OneSeparator' /\ BehindSeparator'
  BY <1>1 DEF IInv, NoDuplicate, OneSeparator, BehindSeparator
<1>. QED  BY <1>4, <1>5, <1>7, <1>8, <1>9, <1>10 DEF IInv

-----------------------------------------------------------------------------
(* Saving a state.                                                         *)

\* How far a state says a thread has been worked through.
Reach(m, t) == Max2(m.high[t], m.offset[t])

\* A state that may become state.json when the messages in E become exposed.
MaySave(m, E) ==
    /\ \A t \in Thread :
          /\ m.high[t] <= exported[t] /\ m.offset[t] <= exported[t]
          /\ disk.high[t] > 0 => m.high[t] > 0
          /\ Reach(m, t) > 0 => Headed(t)
          /\ \A n \in Numbers :
                /\ n <= Progress(t) => n <= Reach(m, t) \/ <<t, n>> \in exposed \/ <<t, n>> \in E
                /\ n <= Reach(m, t) => copies[t][n] > 0 \/ <<t, n>> \in m.failed
    /\ \A i \in m.failed : i[2] > 0 /\ StatusOf(i) # "none"
    /\ \A e \in m.ready :
          /\ e[2] <= RevisionOf(e[1])
          /\ e[2] = RevisionOf(e[1]) => StatusOf(e[1]) \in {"none", "acked"} /\ e[1] \notin m.failed
          /\ e[1][2] = 0 => m.high[e[1][1]] > 0
          /\ e[1][2] > 0 => e[1][2] <= Reach(m, e[1][1]) \/ e[1] \in exposed \/ e[1] \in E

\* Some of the receipts that m retires are gone.
Retires(m) ==
    /\ receipt' \in [Thread -> [Number -> ReceiptStatus]]
    /\ \A t \in Thread, n \in Number :
          \/ receipt'[t][n] = receipt[t][n]
          \/ receipt'[t][n] = "none" /\ <<t, n>> \in Retirable(m)

LEMMA RetiresShape ==
    ASSUME IInv, NEW m \in State,
           receipt' = receipt \/ \E some \in SUBSET Retirable(m) : receipt' = Without(some)
    PROVE  Retires(m)
<1>1. CASE receipt' = receipt
  BY <1>1 DEF Retires, IInv, TypeOK
<1>2. CASE \E some \in SUBSET Retirable(m) : receipt' = Without(some)
  <2>1. PICK some \in SUBSET Retirable(m) : receipt' = Without(some)
    BY <1>2
  <2>2. some \in SUBSET Item
    BY DEF Retirable
  <2>3. /\ Without(some) \in [Thread -> [Number -> ReceiptStatus]]
        /\ \A t \in Thread, n \in Number :
              /\ <<t, n>> \in some => Without(some)[t][n] = "none"
              /\ <<t, n>> \notin some => Without(some)[t][n] = receipt[t][n]
    BY <2>2, WithoutShape DEF IInv
  <2>. QED  BY <2>1, <2>3 DEF Retires
<1>. QED  BY <1>1, <1>2

\* A save keeps what the file and the service say together.
LEMMA SaveKeeps ==
    ASSUME IInv, NEW m \in State, NEW E \in SUBSET Item, MaySave(m, E), Retires(m),
           disk' = m, exposed' = exposed \union E, UNCHANGED <<input, revision, copies>>
    PROVE  /\ ReceiptInv' /\ HeadedInv' /\ SavedInv'
           /\ NoDuplicate' /\ OneSeparator' /\ BehindSeparator'
           /\ \A t \in Thread : /\ Progress(t)' = Reach(m, t)
                                /\ Headed(t) => Headed(t)'
                                /\ m.high[t] <= exported[t] /\ m.offset[t] <= exported[t]
           /\ \A i \in mapped : StatusOf(i)' = "none"
           /\ \A i \in m.failed : i[2] > 0
           /\ exposed' \in SUBSET Item
<1>. USE DEF input
<1>1. ASSUME NEW t \in Thread, NEW n \in Number
      PROVE  /\ receipt[t][n] \in ReceiptStatus /\ copies[t][n] \in Nat /\ n \in Nat
             /\ \/ receipt'[t][n] = receipt[t][n]
                \/ /\ receipt'[t][n] = "none" /\ receipt[t][n] = "acked"
                   /\ <<<<t, n>>, RevisionOf(<<t, n>>)>> \in m.ready
  BY ItemShape, Bounds DEF IInv, TypeOK, Retires, Retirable, StatusOf
<1>2. ASSUME NEW t \in Thread
      PROVE  /\ Progress(t)' = Reach(m, t) /\ Reach(m, t) \in Nat
             /\ Headed(t) => Headed(t)'
             /\ m.high[t] <= exported[t] /\ m.offset[t] <= exported[t]
  <2>0. 0 \in Number
    BY Bounds
  <2>1. m.high[t] \in Nat /\ m.offset[t] \in Nat
    BY StateShape, Bounds
  <2>2. Headed(t) => Headed(t)'
    <3>1. receipt'[t][0] = receipt[t][0] \/ receipt[t][0] = "acked"
      BY <1>1, <2>0
    <3>. QED  BY <3>1 DEF Headed
  <2>. QED  BY <2>1, <2>2 DEF Progress, Reach, Max2, MaySave
<1>3. ASSUME NEW t \in Thread, NEW n \in Number, receipt'[t][n] = "none", receipt[t][n] # "none"
      PROVE  /\ <<t, n>> \notin m.failed
             /\ n = 0 => m.high[t] > 0
             /\ n > 0 => n <= Reach(m, t) \/ <<t, n>> \in exposed'
  <2>. DEFINE e == <<<<t, n>>, RevisionOf(<<t, n>>)>>
  <2>1. e \in m.ready
    BY <1>1, <1>3
  <2>2. e[1] = <<t, n>> /\ e[2] = RevisionOf(<<t, n>>) /\ e[1][1] = t /\ e[1][2] = n
    OBVIOUS
  <2>. HIDE DEF e
  <2>. QED  BY <2>1, <2>2 DEF MaySave
<1>4. ReceiptInv'
  <2>1. ASSUME NEW t \in Thread, NEW n \in Number
        PROVE  /\ receipt'[t][n] \in {"landed", "acked"} => copies[t][n] > 0
               /\ receipt'[t][n] \in {"flying", "rejected"} =>
                     copies[t][n] = 0 \/ (n > 0 /\ <<t, n>> \in exposed')
               /\ copies[t][n] > 0 /\ receipt'[t][n] = "none" =>
                     IF n = 0 THEN m.high[t] > 0
                     ELSE n <= Reach(m, t) \/ <<t, n>> \in exposed' \/ <<t, n>> \in mapped
    <3>1. /\ receipt[t][n] \in {"landed", "acked"} => copies[t][n] > 0
          /\ receipt[t][n] \in {"flying", "rejected"} =>
                copies[t][n] = 0 \/ (n > 0 /\ <<t, n>> \in exposed)
          /\ copies[t][n] > 0 /\ receipt[t][n] = "none" =>
                IF n = 0 THEN disk.high[t] > 0
                ELSE n <= Progress(t) \/ <<t, n>> \in exposed \/ <<t, n>> \in mapped
      BY DEF IInv, ReceiptInv
    <3>2. n # 0 => n \in Numbers /\ n > 0
      BY Bounds
    <3>3. /\ disk.high[t] > 0 => m.high[t] > 0
          /\ n # 0 /\ n <= Progress(t) => n <= Reach(m, t) \/ <<t, n>> \in exposed'
      BY <3>2 DEF MaySave
    <3>4. /\ receipt'[t][n] \in {"landed", "acked"} => receipt[t][n] = receipt'[t][n]
          /\ receipt'[t][n] \in {"flying", "rejected"} => receipt[t][n] = receipt'[t][n]
      BY <1>1
    <3>5. ASSUME copies[t][n] > 0, receipt'[t][n] = "none"
          PROVE  IF n = 0 THEN m.high[t] > 0
                 ELSE n <= Reach(m, t) \/ <<t, n>> \in exposed' \/ <<t, n>> \in mapped
      <4>1. CASE receipt[t][n] = "none"
        BY <3>1, <3>3, <3>5, <4>1
      <4>2. CASE receipt[t][n] # "none"
        BY <1>3, <3>2, <3>5, <4>2
      <4>. QED  BY <4>1, <4>2
    <3>. QED  BY <3>1, <3>4, <3>5
  <2>. QED  BY <1>2, <2>1 DEF ReceiptInv
<1>5. HeadedInv'
  <2>1. ASSUME NEW t \in Thread, NEW n \in Numbers, receipt'[t][n] # "none" PROVE Headed(t)'
    <3>1. n \in Number
      BY Bounds
    <3>2. receipt[t][n] # "none"
      BY <1>1, <2>1, <3>1
    <3>. QED  BY <1>2, <3>2 DEF IInv, HeadedInv
  <2>2. ASSUME NEW t \in Thread, Progress(t)' > 0 PROVE Headed(t)'
    BY <1>2, <2>2 DEF MaySave
  <2>. QED  BY <2>1, <2>2 DEF HeadedInv
<1>6. SavedInv'
  <2>1. ASSUME NEW t \in Thread, NEW n \in Numbers, n <= Progress(t)'
        PROVE  copies[t][n] > 0 \/ <<t, n>> \in m.failed
    BY <1>2, <2>1 DEF MaySave
  <2>2. ASSUME NEW i \in m.failed PROVE StatusOf(i)' # "none" /\ i[2] > 0
    <3>1. i[1] \in Thread /\ i[2] \in Number /\ i = <<i[1], i[2]>>
      BY StateShape, ItemShape
    <3>2. StatusOf(i) # "none" /\ i[2] > 0
      BY DEF MaySave
    <3>. QED  BY <1>3, <3>1, <3>2 DEF StatusOf
  <2>3. ASSUME NEW e \in m.ready
        PROVE  /\ e[2] <= RevisionOf(e[1])'
               /\ e[2] = RevisionOf(e[1])' => StatusOf(e[1])' \in {"none", "acked"} /\ e[1] \notin m.failed
               /\ e[1][2] = 0 => m.high[e[1][1]] > 0
               /\ e[1][2] > 0 => e[1][2] <= Progress(e[1][1])' \/ e[1] \in exposed'
    <3>1. e[1][1] \in Thread /\ e[1][2] \in Number
      BY StateShape, ItemShape
    <3>2. RevisionOf(e[1])' = RevisionOf(e[1])
      BY DEF RevisionOf
    <3>3. StatusOf(e[1])' = StatusOf(e[1]) \/ StatusOf(e[1])' = "none"
      BY <1>1, <3>1 DEF StatusOf
    <3>4. /\ e[2] <= RevisionOf(e[1])
          /\ e[2] = RevisionOf(e[1]) => StatusOf(e[1]) \in {"none", "acked"} /\ e[1] \notin m.failed
          /\ e[1][2] = 0 => m.high[e[1][1]] > 0
          /\ e[1][2] > 0 => e[1][2] <= Reach(m, e[1][1]) \/ e[1] \in exposed \/ e[1] \in E
      BY DEF MaySave
    <3>. QED  BY <1>2, <3>1, <3>2, <3>3, <3>4
  <2>. QED  BY <2>1, <2>2, <2>3 DEF SavedInv, Sound
<1>7. NoDuplicate' /\ OneSeparator' /\ BehindSeparator'
  <2>1. ASSUME NEW t \in Thread, NEW n \in 1..MaxMessages, copies[t][n] > 0, <<t, n>> \notin mapped
        PROVE  Headed(t)'
    BY <1>2, <2>1 DEF IInv, BehindSeparator, Headed
  <2>. QED  BY <2>1 DEF IInv, NoDuplicate, OneSeparator, BehindSeparator, Headed
<1>8. ASSUME NEW i \in mapped PROVE StatusOf(i)' = "none"
  <2>1. i[1] \in Thread /\ i[2] \in Number
    BY ItemShape DEF IInv, TypeOK
  <2>2. receipt[i[1]][i[2]] = "none"
    BY DEF IInv, ShapeInv, StatusOf
  <2>. QED  BY <1>1, <2>1, <2>2 DEF StatusOf
<1>9. \A i \in m.failed : i[2] > 0
  BY DEF MaySave
<1>10. exposed' \in SUBSET Item
  BY DEF IInv, TypeOK
<1>. QED  BY <1>2, <1>4, <1>5, <1>6, <1>7, <1>8, <1>9, <1>10

\* What is left in memory after a save is sound like the file.
LEMMA MemorySaved ==
    ASSUME SavedInv', mem'.failed = disk'.failed, mem'.ready \subseteq disk'.ready
    PROVE  /\ Sound(mem)'
           /\ \A e \in mem'.ready :
                 e[1][2] > 0 => e[1][2] <= Progress(e[1][1])' \/ e[1] \in exposed'
  BY DEF SavedInv, Sound

\* What a step leaves of the scenario.
LEMMA ScenarioShape ==
    ASSUME IInv, scenario' = scenario \/ EndsEarly
    PROVE  /\ scenario' \in [runs : Seq({"fresh", "resume", "incremental"}), stops : Nat,
                             longest : [Thread -> Number]]
           /\ scenario'.runs = scenario.runs
<1>1. scenario \in [runs : Seq({"fresh", "resume", "incremental"}), stops : Nat,
                    longest : [Thread -> Number]]
  BY DEF IInv, ShapeInv
<1>2. CASE scenario' = scenario
  BY <1>1, <1>2
<1>3. CASE EndsEarly
  <2>1. scenario.stops - 1 \in Nat
    BY <1>1, <1>3 DEF EndsEarly
  <2>2. scenario' = [scenario EXCEPT !.stops = scenario.stops - 1]
    BY <1>3 DEF EndsEarly
  <2>. QED  BY <1>1, <2>1, <2>2
<1>. QED  BY <1>2, <1>3

\* The types after a save.
LEMMA SaveTypes ==
    ASSUME IInv, NEW m \in State, Retires(m), disk' = m, mem' \in State, mode' \in Mode,
           task' \in Task, exposed' \in SUBSET Item, scenario'.stops \in Nat,
           UNCHANGED <<input, revision, copies>>
    PROVE  TypeOK'
  BY DEF IInv, TypeOK, Retires, input

\* A run that ends with its state in the file.
LEMMA RunEnds ==
    ASSUME IInv, NEW m \in State, NEW E \in SUBSET Item, MaySave(m, E), Retires(m),
           disk' = m, exposed' = exposed \union E, UNCHANGED <<input, revision, copies>>,
           mode # "none", RunOver(m), scenario' = scenario \/ EndsEarly
    PROVE  IInv'
<1>1. /\ ReceiptInv' /\ HeadedInv' /\ SavedInv'
      /\ NoDuplicate' /\ OneSeparator' /\ BehindSeparator'
      /\ \A t \in Thread : /\ Progress(t)' = Reach(m, t)
                           /\ Headed(t) => Headed(t)'
                           /\ m.high[t] <= exported[t] /\ m.offset[t] <= exported[t]
      /\ \A i \in mapped : StatusOf(i)' = "none"
      /\ \A i \in m.failed : i[2] > 0
      /\ exposed' \in SUBSET Item
  BY SaveKeeps
<1>2. mode' = "none" /\ mem' = m /\ task' = AtThread(1)
  BY DEF RunOver
<1>3. /\ scenario' \in [runs : Seq({"fresh", "resume", "incremental"}), stops : Nat,
                        longest : [Thread -> Number]]
      /\ scenario'.runs = scenario.runs /\ scenario'.stops \in Nat
  BY ScenarioShape
<1>4. TypeOK'
  <2>1. task' \in Task
    BY <1>2, StartShape, MergeAssumption
  <2>2. mode' \in Mode
    BY <1>2 DEF Mode
  <2>. QED  BY <1>1, <1>2, <1>3, <2>1, <2>2, SaveTypes
<1>5. ShapeInv'
  BY <1>1, <1>2, <1>3 DEF IInv, ShapeInv, input
<1>6. T' = 1 /\ ~Working' /\ task' = AtThread(T')
  BY <1>2, StartShape DEF T, Working
<1>7. RunsInv'
  <2>1. /\ ~(scenario.runs # <<>> /\ Head(scenario.runs) = "fresh")
        /\ \A k \in 2..Len(scenario.runs) : scenario.runs[k] # "fresh"
    BY DEF IInv, RunsInv
  <2>. QED  BY <1>2, <1>3, <1>6, <2>1 DEF RunsInv
<1>8. MemoryInv'
  <2>1. /\ Sound(mem)'
        /\ \A e \in mem'.ready :
              e[1][2] > 0 => e[1][2] <= Progress(e[1][1])' \/ e[1] \in exposed'
    BY <1>1, <1>2, MemorySaved
  <2>. QED  BY <1>2, <2>1 DEF MemoryInv, Incremental
<1>9. ComingInv'
  BY <1>2 DEF ComingInv
<1>10. PlaceInv'
  BY <1>6 DEF PlaceInv
<1>. QED  BY <1>1, <1>4, <1>5, <1>7, <1>8, <1>9, <1>10 DEF IInv

-----------------------------------------------------------------------------
(* The ways a run ends.                                                    *)

\* A state that reaches no less far than the file may be saved.
LEMMA MemoryMaySave ==
    ASSUME IInv, NEW m \in State, NEW E \in SUBSET Item,
           m.high = disk.high, m.offset = disk.offset, Sound(m),
           \A i \in m.failed : i[2] > 0,
           \A e \in m.ready : e[1][2] > 0 =>
              e[1][2] <= Progress(e[1][1]) \/ e[1] \in exposed \/ e[1] \in E
    PROVE  MaySave(m, E)
<1>1. \A t : Reach(m, t) = Progress(t)
  BY DEF Reach, Progress
<1>2. \A t \in Thread : disk.high[t] <= exported[t] /\ disk.offset[t] <= exported[t]
  BY DEF IInv, ShapeInv
<1>3. \A t \in Thread : Progress(t) > 0 => Headed(t)
  BY DEF IInv, HeadedInv
<1>. QED  BY <1>1, <1>2, <1>3 DEF MaySave, Sound

LEMMA CrashStep == IInv /\ Crash => IInv'
<1> SUFFICES ASSUME IInv, Crash PROVE IInv'
  OBVIOUS
<1>1. PICK m \in State : m = disk
  BY SoundShape
<1>2. Sound(m) /\ \A i \in m.failed : i[2] > 0
  BY <1>1, SoundShape DEF IInv, ShapeInv
<1>3. \A e \in m.ready : e[1][2] > 0 => e[1][2] <= Progress(e[1][1]) \/ e[1] \in exposed
  BY <1>1 DEF IInv, SavedInv
<1>4. MaySave(m, {})
  BY <1>1, <1>2, <1>3, MemoryMaySave
<1>5. /\ disk' = m /\ RunOver(m) /\ EndsEarly /\ mode # "none" /\ receipt' = receipt
      /\ exposed' = exposed \union {} /\ UNCHANGED <<input, revision, copies>>
  BY <1>1 DEF Crash
<1>6. Retires(m)
  BY <1>5, RetiresShape
<1>. QED  BY <1>4, <1>5, <1>6, RunEnds

LEMMA StopStep == IInv /\ Stop => IInv'
<1> SUFFICES ASSUME IInv, Stop PROVE IInv'
  OBVIOUS
<1>1. PICK m \in State : m = mem
  BY SoundShape
<1>2. PICK E \in SUBSET Item : E = Uncovered
  BY ZenonT(30), SoundShape, StateShape DEF Uncovered
<1>3. Sound(m) /\ (\A i \in m.failed : i[2] > 0) /\ m.high = disk.high /\ m.offset = disk.offset
  BY <1>1, SoundShape DEF IInv, ShapeInv, RunsInv
<1>4. ASSUME NEW e \in m.ready, e[1][2] > 0
      PROVE  e[1][2] <= Progress(e[1][1]) \/ e[1] \in exposed \/ e[1] \in E
  <2>1. e[1] \in Item /\ e[1][1] \in Thread /\ e[1][2] \in Nat
    BY StateShape, ItemShape, Bounds
  <2>2. Progress(e[1][1]) = Max2(m.high[e[1][1]], m.offset[e[1][1]]) /\ Progress(e[1][1]) \in Nat
    BY <1>3, <2>1, ProgressShape DEF IInv, Progress
  <2>3. e[1][2] > Progress(e[1][1]) => e[1] \in Uncovered
    BY <1>1, <2>1, <2>2 DEF Uncovered
  <2>. QED  BY <1>2, <2>1, <2>2, <2>3
<1>5. MaySave(m, E)
  BY <1>3, <1>4, MemoryMaySave
<1>6. /\ disk' = m /\ RunOver(m) /\ EndsEarly /\ mode # "none"
      /\ \E some \in SUBSET Retirable(m) : receipt' = Without(some)
      /\ exposed' = exposed \union E /\ UNCHANGED <<input, revision, copies>>
  BY <1>1, <1>2 DEF Stop
<1>7. Retires(m)
  BY <1>6, RetiresShape
<1>. QED  BY <1>5, <1>6, <1>7, RunEnds

LEMMA EndPhaseStep == IInv /\ EndPhase => IInv'
<1> SUFFICES ASSUME IInv, EndPhase PROVE IInv'
  OBVIOUS
<1>1. mem \in State /\ T \notin Thread
  BY SoundShape, MergeAssumption DEF EndPhase, Thread
<1>2. PICK m \in State :
         /\ m.high = mem.high /\ m.offset = mem.offset /\ m.failed = mem.failed /\ m.ready = mem.ready
         /\ disk' = m
  <2>1. /\ [mem EXCEPT !.over = TRUE] \in State
        /\ [mem EXCEPT !.over = TRUE].high = mem.high /\ [mem EXCEPT !.over = TRUE].offset = mem.offset
        /\ [mem EXCEPT !.over = TRUE].failed = mem.failed /\ [mem EXCEPT !.over = TRUE].ready = mem.ready
    BY <1>1 DEF State
  <2>2. disk' = [mem EXCEPT !.over = TRUE] \/ disk' = mem
    BY DEF EndPhase
  <2>. QED  BY <1>1, <2>1, <2>2
<1>3. /\ Sound(m) /\ (\A i \in m.failed : i[2] > 0)
      /\ m.high = disk.high /\ m.offset = disk.offset
  <2>1. Sound(mem) /\ \A i \in mem.failed : i[2] > 0
    BY SoundShape DEF IInv, ShapeInv
  <2>. QED  BY <1>2, <2>1 DEF IInv, RunsInv, Sound
<1>4. ASSUME NEW e \in m.ready, e[1][2] > 0
      PROVE  e[1][2] <= Progress(e[1][1]) \/ e[1] \in exposed
  <2>1. e[1][1] # T /\ e \in mem.ready
    BY <1>1, <1>2, StateShape, ItemShape
  <2>. QED  BY <1>4, <2>1 DEF IInv, MemoryInv
<1>5. MaySave(m, {})
  BY <1>3, <1>4, MemoryMaySave
<1>6. \E some \in SUBSET Retirable(m) : receipt' = Without(some)
  <2>1. Retirable(m) = Retirable(mem)
    BY <1>2 DEF Retirable
  <2>. QED  BY <2>1 DEF EndPhase
<1>7. /\ RunOver(m) /\ (scenario' = scenario \/ EndsEarly) /\ mode # "none"
      /\ exposed' = exposed \union {} /\ UNCHANGED <<input, revision, copies>>
  BY <1>2 DEF EndPhase, RunOver
<1>8. Retires(m)
  BY <1>6, RetiresShape
<1>. QED  BY <1>2, <1>5, <1>7, <1>8, RunEnds

LEMMA BeginStep ==
    ASSUME IInv, NEW how \in Mode \ {"none"}, BeginRun(how)
    PROVE  IInv'
<1>1. /\ mode = "none" /\ scenario.runs # <<>> /\ how = Head(scenario.runs)
      /\ scenario' = [scenario EXCEPT !.runs = Tail(@)]
      /\ exposed' = exposed \union Forgotten(how)
      /\ disk' = Loaded(how) /\ mode' = how
      /\ UNCHANGED <<input, revision, copies, task>>
      /\ \/ receipt' = Without(Retirable(Loaded(how))) /\ mem' = AfterRetiring(Loaded(how))
         \/ how = "resume" /\ mem' = disk /\ receipt' = receipt
  BY DEF BeginRun
<1>2. disk \in State /\ task = AtThread(1) /\ T = 1 /\ ~Working
  BY <1>1, SoundShape, StartShape DEF IInv, RunsInv, T, Working
<1>3. PICK m \in State :
         /\ m = Loaded(how) /\ m.high = disk.high /\ m.offset = disk.offset /\ m.failed = disk.failed
         /\ m.ready \subseteq disk.ready
         /\ how = "incremental" => m.ready = {}
         /\ how = "resume" => m = disk
  <2>. DEFINE l == [disk EXCEPT !.ready = {}, !.over = FALSE]
  <2>1. /\ l \in State /\ l.high = disk.high /\ l.offset = disk.offset /\ l.failed = disk.failed
        /\ l.ready = {}
    BY <1>2 DEF State
  <2>2. Loaded(how) = IF how = "incremental" THEN l ELSE disk
    BY DEF Loaded
  <2>. HIDE DEF l
  <2>3. CASE how = "incremental"
    BY <2>1, <2>2, <2>3
  <2>4. CASE how # "incremental"
    BY <1>2, <2>2, <2>4
  <2>. QED  BY <2>3, <2>4
<1>4. PICK E \in SUBSET Item : E = Forgotten(how)
  BY DEF Forgotten
<1>5. MaySave(m, E)
  <2>1. Sound(m) /\ \A i \in m.failed : i[2] > 0
    BY <1>3, SoundShape DEF IInv, ShapeInv, Sound
  <2>2. \A e \in m.ready : e[1][2] > 0 => e[1][2] <= Progress(e[1][1]) \/ e[1] \in exposed
    BY <1>3 DEF IInv, SavedInv
  <2>. QED  BY <1>3, <2>1, <2>2, MemoryMaySave
<1>6. Retires(m)
  <2>1. receipt' = receipt \/ \E some \in SUBSET Retirable(m) : receipt' = Without(some)
    BY <1>1, <1>3
  <2>. QED  BY <2>1, RetiresShape
<1>7. /\ disk' = m /\ exposed' = exposed \union E
  BY <1>1, <1>3, <1>4
<1>8. /\ ReceiptInv' /\ HeadedInv' /\ SavedInv'
      /\ NoDuplicate' /\ OneSeparator' /\ BehindSeparator'
      /\ \A t \in Thread : /\ Progress(t)' = Reach(m, t)
                           /\ m.high[t] <= exported[t] /\ m.offset[t] <= exported[t]
      /\ \A i \in mapped : StatusOf(i)' = "none"
      /\ \A i \in m.failed : i[2] > 0
      /\ exposed' \in SUBSET Item
  BY <1>1, <1>5, <1>6, <1>7, SaveKeeps
<1>9. /\ mem' \in State /\ mem'.high = m.high /\ mem'.offset = m.offset /\ mem'.failed = m.failed
      /\ mem'.ready \subseteq m.ready
  <2>1. CASE mem' = AfterRetiring(m)
    BY <2>1, RetiringShape
  <2>2. CASE how = "resume" /\ mem' = disk
    BY <1>3, <2>2
  <2>. QED  BY <1>1, <1>3, <2>1, <2>2
<1>10. scenario \in [runs : Seq({"fresh", "resume", "incremental"}), stops : Nat,
                     longest : [Thread -> Number]]
  BY DEF IInv, ShapeInv
<1>11. /\ scenario' \in [runs : Seq({"fresh", "resume", "incremental"}), stops : Nat,
                         longest : [Thread -> Number]]
       /\ scenario'.runs = Tail(scenario.runs) /\ scenario'.stops \in Nat
  <2>1. scenario.runs \in Seq({"fresh", "resume", "incremental"})
    BY <1>10
  <2>2. Tail(scenario.runs) \in Seq({"fresh", "resume", "incremental"})
    BY <1>1, <2>1
  <2>3. scenario' = [scenario EXCEPT !.runs = Tail(scenario.runs)]
    BY <1>1
  <2>. QED  BY <1>10, <2>2, <2>3
<1>12. TypeOK'
  <2>1. mode' \in Mode /\ task' \in Task
    BY <1>1 DEF IInv, TypeOK
  <2>. QED  BY <1>1, <1>6, <1>7, <1>8, <1>9, <1>11, <2>1, SaveTypes
<1>13. ShapeInv'
  <2>1. \A i \in disk'.failed \union mem'.failed : i[2] > 0
    BY <1>7, <1>8, <1>9
  <2>2. \A i \in mapped' : i[2] > 0 /\ StatusOf(i)' = "none" /\ copies'[i[1]][i[2]] = 1
    BY <1>1, <1>8 DEF IInv, ShapeInv, input
  <2>3. \A t \in Thread : disk'.high[t] <= exported'[t] /\ disk'.offset[t] <= exported'[t]
    BY <1>1, <1>7, <1>8 DEF input
  <2>. QED  BY <1>11, <2>1, <2>2, <2>3 DEF ShapeInv
<1>14. T' = T /\ ~Working' /\ task' = AtThread(T')
  BY <1>1, <1>2 DEF T, Working
<1>15. RunsInv'
  <2>1. PICK r \in Seq({"fresh", "resume", "incremental"}) : r = scenario.runs
    BY <1>10
  <2>2. \A k \in 2..Len(r) : r[k] # "fresh"
    BY <2>1 DEF IInv, RunsInv
  <2>3. /\ Len(r) \in Nat /\ r # <<>> /\ Len(Tail(r)) = Len(r) - 1
        /\ \A k \in 1..Len(Tail(r)) : Tail(r)[k] = r[k + 1]
    BY <1>1, <2>1
  <2>4. \A k \in 1..Len(Tail(r)) : Tail(r)[k] # "fresh"
    BY <2>2, <2>3
  <2>5. Tail(r) # <<>> => Head(Tail(r)) # "fresh"
    <3>1. Tail(r) \in Seq({"fresh", "resume", "incremental"})
      BY <2>3
    <3>2. Tail(r) # <<>> => Len(Tail(r)) > 0 /\ Head(Tail(r)) = Tail(r)[1]
      BY <3>1
    <3>3. Tail(r) # <<>> => 1 \in 1..Len(Tail(r))
      BY <2>3, <3>2
    <3>. QED  BY <2>4, <3>2, <3>3
  <2>6. \A k \in 2..Len(Tail(r)) : Tail(r)[k] # "fresh"
    BY <2>3, <2>4
  <2>. QED  BY <1>1, <1>7, <1>9, <1>11, <1>14, <2>1, <2>5, <2>6 DEF RunsInv
<1>16. MemoryInv'
  <2>1. /\ Sound(mem)'
        /\ \A e \in mem'.ready :
              e[1][2] > 0 => e[1][2] <= Progress(e[1][1])' \/ e[1] \in exposed'
    BY <1>7, <1>8, <1>9, MemorySaved
  <2>2. Incremental' => mem'.ready = {}
    BY <1>1, <1>3, <1>9 DEF Incremental
  <2>. QED  BY <2>1, <2>2 DEF MemoryInv
<1>17. ComingInv'
  <2>1. ASSUME NEW t \in Thread, how = "fresh" PROVE Progress(t)' = 0
    <3>1. disk = EmptyState
      BY <1>1, <2>1 DEF IInv, RunsInv
    <3>2. disk.high[t] = 0 /\ disk.offset[t] = 0
      BY <3>1 DEF EmptyState
    <3>. QED  BY <1>3, <1>8, <3>2 DEF Reach, Max2
  <2>2. ASSUME NEW t \in Thread, how = "resume", NEW n \in Numbers,
               n > disk.offset[t], n <= disk.high[t]
        PROVE  <<t, n>> \in exposed'
    <3>1. <<t, n>> \in Item /\ disk.offset[t] \in Nat /\ n \in Nat
      BY Bounds, ItemShape, ProgressShape DEF IInv
    <3>2. <<t, n>> \in Forgotten(how)
      BY <2>2, <3>1 DEF Forgotten
    <3>. QED  BY <1>1, <3>2
  <2>. QED  BY <1>1, <1>3, <1>7, <2>1, <2>2 DEF ComingInv
<1>18. PlaceInv'
  BY <1>14 DEF PlaceInv
<1>. QED  BY <1>8, <1>12, <1>13, <1>15, <1>16, <1>17, <1>18 DEF IInv

-----------------------------------------------------------------------------
(* The saves inside a run.                                                 *)

LEMMA CheckpointStep == IInv /\ Checkpoint => IInv'
<1> SUFFICES ASSUME IInv, Checkpoint PROVE IInv'
  OBVIOUS
<1>1. /\ Working /\ task.next <= MaxMessages /\ T \in Thread /\ task.next \in Number
      /\ task.next \in Nat /\ mode # "none" /\ task.stage = "after" /\ task.next > 0
      /\ task.next \in Numbers /\ task.next <= exported[T] /\ Headed(T)
  <2>1. Working /\ task.next <= MaxMessages /\ task.stage = "after"
    BY AtWork DEF Checkpoint
  <2>2. T \in Thread /\ task.next \in Number /\ task.next \in Nat
    BY <2>1, HandShape, Bounds
  <2>3. task.next # 0 /\ Headed(T) /\ mode # "none"
    BY <2>1 DEF IInv, PlaceInv
  <2>4. task.next > 0 /\ task.next \in Numbers
    BY <2>2, <2>3, Bounds
  <2>. QED  BY <2>1, <2>2, <2>3, <2>4 DEF IInv, PlaceInv
<1>2. PICK k \in Numbers : k = task.next
  BY <1>1
<1>3. PICK u \in Thread : u = T
  BY <1>1
<1>4. mem \in State /\ k \in Nat /\ k \in Number /\ k > 0
  BY <1>2, SoundShape, Bounds
<1>5. PICK m \in State :
         /\ m = CheckpointState /\ m.high = disk.high /\ m.failed = mem.failed
         /\ m.ready = mem.ready /\ m.offset[u] = k
         /\ \A t \in Thread : t # u => m.offset[t] = disk.offset[t]
  <2>1. CheckpointState = [mem EXCEPT !.offset[u] = k]
    BY <1>2, <1>3 DEF CheckpointState
  <2>2. /\ [mem EXCEPT !.offset[u] = k] \in State
        /\ [mem EXCEPT !.offset[u] = k].high = mem.high
        /\ [mem EXCEPT !.offset[u] = k].failed = mem.failed
        /\ [mem EXCEPT !.offset[u] = k].ready = mem.ready
        /\ [mem EXCEPT !.offset[u] = k].offset = [mem.offset EXCEPT ![u] = k]
    BY <1>4 DEF State
  <2>3. mem.offset = disk.offset /\ mem.high = disk.high /\ mem.offset \in [Thread -> Number]
    BY <1>4, StateShape DEF IInv, RunsInv
  <2>. QED  BY <2>1, <2>2, <2>3
<1>6. PICK E \in SUBSET Item : E = PassedBack
  <2>1. PassedBack \subseteq Item
    <3>1. ASSUME NEW n \in Max2(task.next, mem.high[T]) + 1..mem.offset[T]
          PROVE  n \in Number
      <4>1. mem.high[T] \in Nat /\ mem.offset[T] \in Number
        BY <1>1, <1>4, StateShape, Bounds
      <4>. QED  BY <1>1, <3>1, <4>1, MergeAssumption DEF Max2, Number
    <3>. QED  BY <1>1, <3>1, ItemShape DEF PassedBack
  <2>. QED  BY <2>1
<1>7. /\ disk.high[u] \in Nat /\ disk.offset[u] \in Nat /\ Progress(u) \in Nat
      /\ exported[u] \in Nat /\ disk.high[u] <= exported[u]
      /\ disk.high[u] <= Progress(u) /\ disk.offset[u] <= Progress(u)
      /\ \A n \in Nat : n <= Progress(u) <=> n <= disk.high[u] \/ n <= disk.offset[u]
  BY ProgressShape DEF IInv, ShapeInv
<1>8. \A n \in Nat : n <= Reach(m, u) <=> n <= disk.high[u] \/ n <= k
  BY <1>4, <1>5, <1>7 DEF Reach, Max2
<1>9. \A t \in Thread : t # u => Reach(m, t) = Progress(t)
  BY <1>5 DEF Reach, Progress
<1>10. ASSUME NEW n \in Numbers
       PROVE  n <= Progress(u) => n <= Reach(m, u) \/ <<u, n>> \in E
  <2>1. n \in Nat
    BY Bounds
  <2>2. n <= Progress(u) /\ ~(n <= Reach(m, u)) =>
           n > disk.high[u] /\ n > k /\ n <= disk.offset[u]
    BY <1>7, <1>8, <1>4, <2>1
  <2>3. n > disk.high[u] /\ n > k /\ n <= disk.offset[u] => <<u, n>> \in PassedBack
    <3>1. mem.high[T] = disk.high[u] /\ mem.offset[T] = disk.offset[u]
      BY <1>3, SoundShape
    <3>2. n > disk.high[u] /\ n > k /\ n <= disk.offset[u] =>
             n \in Max2(task.next, mem.high[T]) + 1..mem.offset[T]
      BY <1>2, <1>4, <1>7, <2>1, <3>1 DEF Max2
    <3>. QED  BY <1>3, <3>2 DEF PassedBack
  <2>. QED  BY <1>6, <2>2, <2>3
<1>11. \A n \in Nat : Behind(n) <=> n < k \/ n = k
  BY <1>1, <1>2 DEF Behind
<1>12. MaySave(m, E)
  <2>1. ASSUME NEW t \in Thread
        PROVE  /\ m.high[t] <= exported[t] /\ m.offset[t] <= exported[t]
               /\ Reach(m, t) > 0 => Headed(t)
    <3>1. CASE t = u
      BY <1>1, <1>2, <1>3, <1>5, <1>7, <3>1
    <3>2. CASE t # u
      BY <1>5, <1>9, <3>2 DEF IInv, ShapeInv, HeadedInv
    <3>. QED  BY <3>1, <3>2
  <2>2. ASSUME NEW t \in Thread, NEW n \in Numbers
        PROVE  /\ n <= Progress(t) => n <= Reach(m, t) \/ <<t, n>> \in exposed \/ <<t, n>> \in E
               /\ n <= Reach(m, t) => copies[t][n] > 0 \/ <<t, n>> \in m.failed
    <3>1. CASE t = u
      <4>1. n \in Nat
        BY Bounds
      <4>2. n <= k => copies[t][n] > 0 \/ <<t, n>> \in mem.failed
        <5>1. n <= k => Behind(n)
          BY <1>4, <1>11, <4>1
        <5>. QED  BY <1>1, <1>3, <3>1, <5>1 DEF IInv, PlaceInv
      <4>3. n <= disk.high[u] => copies[t][n] > 0 \/ <<t, n>> \in mem.failed
        BY <1>7, <3>1, <4>1, SoundShape DEF Sound
      <4>. QED  BY <1>5, <1>8, <1>10, <3>1, <4>1, <4>2, <4>3
    <3>2. CASE t # u
      BY <1>5, <1>9, <3>2, SoundShape DEF Sound
    <3>. QED  BY <3>1, <3>2
  <2>3. \A i \in m.failed : i[2] > 0 /\ StatusOf(i) # "none"
    BY <1>5, SoundShape DEF IInv, ShapeInv, Sound
  <2>4. ASSUME NEW e \in m.ready
        PROVE  /\ e[2] <= RevisionOf(e[1])
               /\ e[2] = RevisionOf(e[1]) => StatusOf(e[1]) \in {"none", "acked"} /\ e[1] \notin m.failed
               /\ e[1][2] = 0 => m.high[e[1][1]] > 0
               /\ e[1][2] > 0 => e[1][2] <= Reach(m, e[1][1]) \/ e[1] \in exposed \/ e[1] \in E
    <3>1. /\ e[2] <= RevisionOf(e[1])
          /\ e[2] = RevisionOf(e[1]) => StatusOf(e[1]) \in {"none", "acked"} /\ e[1] \notin m.failed
          /\ e[1][2] = 0 => m.high[e[1][1]] > 0
      BY <1>5, SoundShape DEF Sound
    <3>2. e[1][1] \in Thread /\ e[1][2] \in Number /\ e[1] = <<e[1][1], e[1][2]>> /\ e[1][2] \in Nat
      BY StateShape, ItemShape, Bounds
    <3>3. e[1][2] > 0 => \/ e[1][2] <= Progress(e[1][1]) \/ e[1] \in exposed
                         \/ e[1][1] = u /\ Behind(e[1][2])
      BY <1>3, <1>5 DEF IInv, MemoryInv
    <3>4. e[1][1] = u /\ Behind(e[1][2]) => e[1][2] <= Reach(m, e[1][1])
      BY <1>4, <1>8, <1>11, <3>2
    <3>5. e[1][2] > 0 => e[1][2] \in Numbers
      BY <3>2, Bounds
    <3>. QED  BY <2>2, <3>1, <3>2, <3>3, <3>4, <3>5
  <2>. QED  BY <1>5, <2>1, <2>2, <2>3, <2>4 DEF MaySave
<1>13. /\ disk' = m /\ exposed' = exposed \union E /\ UNCHANGED <<input, revision, copies>>
       /\ \/ /\ receipt' = Without(Retirable(m)) /\ mem' = AfterRetiring(m)
             /\ task' = NextMessage /\ UNCHANGED <<mode, scenario>>
          \/ /\ \E some \in SUBSET Retirable(m) : receipt' = Without(some)
             /\ EndsEarly /\ RunOver(m)
  BY <1>5, <1>6 DEF Checkpoint, SaveAnd
<1>14. Retires(m)
  <2>1. \E some \in SUBSET Retirable(m) : receipt' = Without(some)
    BY <1>13
  <2>. QED  BY <2>1, RetiresShape
<1>15. CASE EndsEarly /\ RunOver(m)
  BY <1>1, <1>12, <1>13, <1>14, <1>15, RunEnds
<1>16. CASE mem' = AfterRetiring(m) /\ task' = NextMessage /\ mode' = mode /\ scenario' = scenario
  <2>1. /\ ReceiptInv' /\ HeadedInv' /\ SavedInv'
        /\ NoDuplicate' /\ OneSeparator' /\ BehindSeparator'
        /\ \A t \in Thread : /\ Progress(t)' = Reach(m, t)
                             /\ Headed(t) => Headed(t)'
                             /\ m.high[t] <= exported[t] /\ m.offset[t] <= exported[t]
        /\ \A i \in mapped : StatusOf(i)' = "none"
        /\ \A i \in m.failed : i[2] > 0
        /\ exposed' \in SUBSET Item
    BY <1>12, <1>13, <1>14, SaveKeeps
  <2>2. /\ mem' \in State /\ mem'.high = m.high /\ mem'.offset = m.offset /\ mem'.failed = m.failed
        /\ mem'.ready \subseteq m.ready
    BY <1>16, RetiringShape
  <2>3. /\ task' \in Task /\ T' = u /\ task'.stage = "loop" /\ task'.next = k + 1
        /\ task'.skipBelow = task.skipBelow /\ task'.retry = task.retry
        /\ task'.separator = task.separator
    <3>1. task.next + 1 \in 0..MaxMessages + 1
      BY <1>1, MergeAssumption DEF Number
    <3>2. task' = [task EXCEPT !.stage = "loop", !.next = task.next + 1]
      BY <1>16 DEF NextMessage
    <3>. QED  BY <1>2, <1>3, <3>1, <3>2, TaskShape DEF IInv, Task, T
  <2>4. TypeOK'
    <3>1. scenario'.stops \in Nat /\ mode' \in Mode
      BY <1>16 DEF IInv, TypeOK
    <3>. QED  BY <1>13, <1>14, <2>1, <2>2, <2>3, <3>1, SaveTypes
  <2>5. Working' /\ \A n \in Nat : Behind(n)' <=> Behind(n)
    BY <1>4, <1>11, <2>3 DEF Working, Behind
  <2>6. ShapeInv'
    <3>1. \A i \in disk'.failed \union mem'.failed : i[2] > 0
      BY <1>13, <2>1, <2>2
    <3>2. \A i \in mapped' : i[2] > 0 /\ StatusOf(i)' = "none" /\ copies'[i[1]][i[2]] = 1
      BY <1>13, <2>1 DEF IInv, ShapeInv, input
    <3>3. \A t \in Thread : disk'.high[t] <= exported'[t] /\ disk'.offset[t] <= exported'[t]
      BY <1>13, <2>1 DEF input
    <3>. QED  BY <1>16, <3>1, <3>2, <3>3 DEF IInv, ShapeInv
  <2>7. RunsInv'
    <3>1. /\ ~(scenario.runs # <<>> /\ Head(scenario.runs) = "fresh")
          /\ \A n \in 2..Len(scenario.runs) : scenario.runs[n] # "fresh"
      BY <1>1 DEF IInv, RunsInv
    <3>. QED  BY <1>1, <1>13, <1>16, <2>2, <2>5, <3>1 DEF RunsInv
  <2>8. Incremental' = Incremental
    BY <1>16 DEF Incremental
  <2>9. MemoryInv'
    <3>1. /\ Sound(mem)'
          /\ \A e \in mem'.ready :
                e[1][2] > 0 => e[1][2] <= Progress(e[1][1])' \/ e[1] \in exposed'
      BY <1>13, <2>1, <2>2, MemorySaved
    <3>2. ASSUME NEW e \in mem'.ready
          PROVE  Incremental => e[1][1] < T' \/ (e[1][1] = T' /\ Behind(e[1][2])')
      <4>1. e \in mem.ready /\ e[1][2] \in Nat
        BY <1>5, <2>2, StateShape, ItemShape, Bounds
      <4>. QED  BY <1>3, <2>3, <2>5, <4>1 DEF IInv, MemoryInv
    <3>. QED  BY <2>8, <3>1, <3>2 DEF MemoryInv
  <2>10. ComingInv'
    <3>1. ASSUME NEW t \in Thread, t > T' \/ (t = T' /\ ~Working')
          PROVE  /\ mode' = "fresh" => Progress(t)' = 0
                 /\ mode' = "resume" => \A n \in Numbers :
                       n > disk'.offset[t] /\ n <= disk'.high[t] => <<t, n>> \in exposed'
      <4>1. t # u /\ t > T
        BY <1>3, <2>3, <2>5, <3>1, Bounds
      <4>2. /\ mode = "fresh" => Progress(t) = 0
            /\ mode = "resume" => \A n \in Numbers :
                  n > disk.offset[t] /\ n <= disk.high[t] => <<t, n>> \in exposed
        BY <4>1 DEF IInv, ComingInv
      <4>. QED  BY <1>5, <1>9, <1>13, <1>16, <2>1, <4>1, <4>2
    <3>. QED  BY <3>1 DEF ComingInv
  <2>11. PlaceInv'
    <3>1. /\ task.separator => receipt[u][0] = "acked" /\ disk.high[u] = 0
          /\ \A n \in Numbers :
                /\ ~Behind(n) /\ n > task.skipBelow /\ n <= Progress(u) => <<u, n>> \in exposed
                /\ Behind(n) \/ n <= task.skipBelow => copies[u][n] > 0 \/ <<u, n>> \in mem.failed
          /\ \A i \in task.retry :
                i[1] = u /\ Incremental /\ (~Behind(i[2]) => i \in mem.failed)
      BY <1>1, <1>3 DEF IInv, PlaceInv
    <3>2. task.separator => receipt'[u][0] = "acked"
      <4>1. ASSUME task.separator PROVE <<u, 0>> \notin Retirable(m)
        <5>. DEFINE e == <<<<u, 0>>, RevisionOf(<<u, 0>>)>>
        <5>1. e[1] = <<u, 0>> /\ e[1][1] = u /\ e[1][2] = 0
          OBVIOUS
        <5>2. e \in m.ready => m.high[u] > 0
          <6>. HIDE DEF e
          <6>. QED  BY <1>12, <5>1 DEF MaySave
        <5>. QED  BY <1>5, <1>7, <3>1, <4>1, <5>2 DEF Retirable
      <4>. QED  BY <1>14, <3>1, <4>1, Bounds DEF Retires
    <3>3. ASSUME NEW n \in Numbers
          PROVE  /\ ~Behind(n)' /\ n > task'.skipBelow /\ n <= Progress(u)' => <<u, n>> \in exposed'
                 /\ Behind(n)' \/ n <= task'.skipBelow => copies'[u][n] > 0 \/ <<u, n>> \in mem'.failed
      <4>1. n \in Nat /\ (Behind(n)' <=> Behind(n))
        BY <2>5, Bounds
      <4>2. ~Behind(n) /\ n <= Progress(u)' => n <= Progress(u)
        BY <1>4, <1>7, <1>8, <1>11, <2>1, <4>1
      <4>. QED  BY <1>5, <1>13, <2>2, <2>3, <3>1, <4>1, <4>2
    <3>4. ASSUME NEW i \in task'.retry
          PROVE  i[1] = u /\ Incremental' /\ (~Behind(i[2])' => i \in mem'.failed)
      <4>1. i[2] \in Nat
        BY <2>3, TaskShape, ItemShape, Bounds DEF IInv
      <4>. QED  BY <1>5, <2>2, <2>3, <2>5, <2>8, <3>1, <4>1
    <3>5. Headed(u)'
      BY <1>1, <1>3, <2>1
    <3>6. Headed(T)' /\ Progress(T)' = Progress(u)'
      BY <2>3, <3>5 DEF Headed, Progress
    <3>7. task'.next > 0 /\ task'.next # 0 /\ task'.next <= exported'[T'] + 1
      BY <1>1, <1>2, <1>3, <1>4, <1>7, <1>13, <2>3 DEF input
    <3>8. T' \in Thread /\ mode' # "none"
      BY <1>1, <1>16, <2>3
    <3>9. task'.separator => receipt'[T'][0] = "acked" /\ disk'.high[T'] = 0 /\ task'.next > 0
      BY <1>5, <1>13, <2>3, <3>1, <3>2, <3>7
    <3>10. \A n \in Numbers :
             /\ ~Behind(n)' /\ n > task'.skipBelow /\ n <= Progress(T)' => <<T', n>> \in exposed'
             /\ Behind(n)' \/ n <= task'.skipBelow => copies'[T'][n] > 0 \/ <<T', n>> \in mem'.failed
      BY <2>3, <3>3, <3>6
    <3>. QED  BY <2>3, <3>4, <3>6, <3>7, <3>8, <3>9, <3>10 DEF PlaceInv
  <2>. QED  BY <2>1, <2>4, <2>6, <2>7, <2>9, <2>10, <2>11 DEF IInv
<1>. QED  BY <1>13, <1>15, <1>16

\* The state of a completed thread.
LEMMA CompletedShape ==
    ASSUME IInv, T \in Thread
    PROVE  /\ Completed \in State
           /\ Completed.high[T] = (IF exported[T] > 0 THEN exported[T] ELSE mem.high[T])
           /\ Completed.offset[T] = 0
           /\ \A t \in Thread : t # T => /\ Completed.high[t] = mem.high[t]
                                         /\ Completed.offset[t] = mem.offset[t]
           /\ \A i : i \in Completed.failed => i \in mem.failed
           /\ \A i \in mem.failed : i \notin mapped => i \in Completed.failed
           /\ \A e \in Completed.ready :
                 \/ e \in mem.ready
                 \/ task.separator /\ exported[T] > 0 /\ e = <<<<T, 0>>, RevisionOf(<<T, 0>>)>>
<1>. DEFINE c == IF task.separator /\ exported[T] > 0 THEN Consumed(mem, <<T, 0>>) ELSE mem
            g == IF exported[T] > 0 THEN exported[T] ELSE mem.high[T]
<1>1. mem \in State /\ <<T, 0>> \in Item
  BY SoundShape, ItemShape, Bounds
<1>2. PICK m \in State : m = c
  <2>1. Consumed(mem, <<T, 0>>) \in State
    BY <1>1, ConsumedShape DEF IInv
  <2>. QED  BY <1>1, <2>1
<1>3. /\ m.high = mem.high /\ m.offset = mem.offset /\ m.failed = mem.failed
      /\ \A e \in m.ready :
            \/ e \in mem.ready
            \/ task.separator /\ exported[T] > 0 /\ e = <<<<T, 0>>, RevisionOf(<<T, 0>>)>>
  <2>1. CASE task.separator /\ exported[T] > 0
    <3>1. m = Consumed(mem, <<T, 0>>)
      BY <1>2, <2>1
    <3>. QED  BY <1>1, <2>1, <3>1, ConsumedShape DEF IInv
  <2>2. CASE ~(task.separator /\ exported[T] > 0)
    BY <1>2, <2>2
  <2>. QED  BY <2>1, <2>2
<1>4. PICK h \in Number : h = (IF exported[T] > 0 THEN exported[T] ELSE m.high[T])
  BY StateShape DEF IInv, TypeOK
<1>5. Completed = [m EXCEPT !.high[T] = h, !.offset[T] = 0,
                            !.failed = m.failed \ (task.retry \intersect mapped)]
  BY <1>2, <1>4 DEF Completed
<1>. HIDE DEF c, g
<1>. DEFINE f == m.failed \ (task.retry \intersect mapped)
<1>6. f \subseteq Item /\ (\A i : i \in f => i \in m.failed) /\ \A i \in m.failed : i \notin mapped => i \in f
  BY StateShape
<1>7. Completed = [m EXCEPT !.high[T] = h, !.offset[T] = 0, !.failed = f]
  BY <1>5
<1>. HIDE DEF f
<1>8. 0 \in Number
  BY Bounds
<1>9. /\ Completed \in State /\ Completed.high = [m.high EXCEPT ![T] = h]
      /\ Completed.offset = [m.offset EXCEPT ![T] = 0]
      /\ Completed.failed = f /\ Completed.ready = m.ready
  BY <1>6, <1>7, <1>8 DEF State
<1>. QED  BY <1>3, <1>4, <1>6, <1>9, StateShape

LEMMA CompleteStep == IInv /\ CompleteThread => IInv'
<1> SUFFICES ASSUME IInv, CompleteThread PROVE IInv'
  OBVIOUS
<1>1. /\ Working /\ T \in Thread /\ mode # "none" /\ task.stage = "loop"
      /\ task.next \in Nat /\ task.next > 0 /\ exported[T] \in Nat
      /\ task.next = exported[T] + 1 /\ Headed(T)
  <2>1. Working
    BY DEF CompleteThread, Working
  <2>2. T \in Thread /\ task.next <= exported[T] + 1 /\ task.next \in Nat /\ mode # "none"
    BY <2>1, TaskShape DEF IInv, PlaceInv
  <2>3. exported[T] \in Nat
    BY <2>2, ProgressShape DEF IInv
  <2>4. task.next > exported[T] /\ task.next > 0 /\ task.stage = "loop"
    BY DEF CompleteThread
  <2>5. Headed(T)
    BY <2>1, <2>4 DEF IInv, PlaceInv
  <2>. QED  BY <2>1, <2>2, <2>3, <2>4, <2>5
<1>2. PICK u \in Thread : u = T
  BY <1>1
<1>3. PICK m \in State :
         /\ m = Completed
         /\ m.high[u] = (IF exported[u] > 0 THEN exported[u] ELSE mem.high[u]) /\ m.offset[u] = 0
         /\ \A t \in Thread : t # u => m.high[t] = disk.high[t] /\ m.offset[t] = disk.offset[t]
         /\ \A i : i \in m.failed => i \in mem.failed
         /\ \A i \in mem.failed : i \notin mapped => i \in m.failed
         /\ \A e \in m.ready :
               \/ e \in mem.ready
               \/ task.separator /\ exported[u] > 0 /\ e = <<<<u, 0>>, RevisionOf(<<u, 0>>)>>
  BY <1>1, <1>2, CompletedShape, SoundShape
<1>4. /\ disk.high[u] \in Nat /\ disk.offset[u] \in Nat /\ Progress(u) \in Nat
      /\ exported[u] \in Nat /\ Progress(u) <= exported[u] /\ mem.high[u] = disk.high[u]
      /\ disk.high[u] <= exported[u] /\ disk.offset[u] <= exported[u]
      /\ \A n \in Nat : n <= Progress(u) <=> n <= disk.high[u] \/ n <= disk.offset[u]
  <2>1. disk.high[u] <= exported[u] /\ disk.offset[u] <= exported[u]
    BY DEF IInv, ShapeInv
  <2>2. mem.high[u] = disk.high[u]
    BY SoundShape
  <2>. QED  BY <2>1, <2>2, ProgressShape DEF IInv, Progress, Max2
<1>5. Reach(m, u) = exported[u] /\ m.high[u] = exported[u]
  BY <1>3, <1>4 DEF Reach, Max2
<1>6. \A t \in Thread : t # u => Reach(m, t) = Progress(t)
  BY <1>3 DEF Reach, Progress
<1>7. \A n \in Nat : Behind(n) <=> n <= exported[u]
  BY <1>1, <1>2, TaskShape DEF IInv, Behind
<1>8. /\ task.separator => receipt[u][0] = "acked"
      /\ \A n \in Numbers : Behind(n) => copies[u][n] > 0 \/ <<u, n>> \in mem.failed
  BY <1>1, <1>2 DEF IInv, PlaceInv
<1>9. ASSUME NEW t \in Thread, NEW n \in Number, <<t, n>> \in mem.failed
      PROVE  copies[t][n] > 0 \/ <<t, n>> \in m.failed
  <2>1. <<t, n>> \in mapped => copies[t][n] = 1
    BY ItemShape DEF IInv, ShapeInv
  <2>. QED  BY <1>3, <1>9, <2>1
<1>10. MaySave(m, {})
  <2>1. ASSUME NEW t \in Thread
        PROVE  /\ m.high[t] <= exported[t] /\ m.offset[t] <= exported[t]
               /\ disk.high[t] > 0 => m.high[t] > 0
               /\ Reach(m, t) > 0 => Headed(t)
    <3>1. CASE t = u
      BY <1>1, <1>2, <1>3, <1>4, <1>5, <3>1
    <3>2. CASE t # u
      BY <1>3, <1>6, <3>2 DEF IInv, ShapeInv, HeadedInv
    <3>. QED  BY <3>1, <3>2
  <2>2. ASSUME NEW t \in Thread, NEW n \in Numbers
        PROVE  /\ n <= Progress(t) => n <= Reach(m, t)
               /\ n <= Reach(m, t) => copies[t][n] > 0 \/ <<t, n>> \in m.failed
    <3>1. n \in Nat /\ n \in Number
      BY Bounds
    <3>2. CASE t = u
      BY <1>4, <1>5, <1>7, <1>8, <1>9, <3>1, <3>2
    <3>3. CASE t # u
      BY <1>6, <1>9, <3>1, <3>3, SoundShape DEF Sound
    <3>. QED  BY <3>2, <3>3
  <2>3. \A i \in m.failed : i[2] > 0 /\ StatusOf(i) # "none"
    BY <1>3, SoundShape DEF IInv, ShapeInv, Sound
  <2>4. ASSUME NEW e \in m.ready
        PROVE  /\ e[2] <= RevisionOf(e[1])
               /\ e[2] = RevisionOf(e[1]) => StatusOf(e[1]) \in {"none", "acked"} /\ e[1] \notin m.failed
               /\ e[1][2] = 0 => m.high[e[1][1]] > 0
               /\ e[1][2] > 0 => e[1][2] <= Reach(m, e[1][1]) \/ e[1] \in exposed
    <3>1. CASE e \in mem.ready
      <4>1. /\ e[2] <= RevisionOf(e[1])
            /\ e[2] = RevisionOf(e[1]) => StatusOf(e[1]) \in {"none", "acked"} /\ e[1] \notin mem.failed
            /\ e[1][2] = 0 => disk.high[e[1][1]] > 0
        BY <3>1, SoundShape DEF Sound
      <4>2. /\ e[1][1] \in Thread /\ e[1][2] \in Number /\ e[1] = <<e[1][1], e[1][2]>>
            /\ e[1][2] \in Nat
        BY StateShape, ItemShape, Bounds
      <4>3. e[1][2] > 0 => \/ e[1][2] <= Progress(e[1][1]) \/ e[1] \in exposed
                           \/ e[1][1] = u /\ Behind(e[1][2])
        BY <1>2, <3>1 DEF IInv, MemoryInv
      <4>4. e[1][1] = u /\ Behind(e[1][2]) => e[1][2] <= Reach(m, e[1][1])
        BY <1>5, <1>7, <4>2
      <4>5. e[1][2] > 0 => e[1][2] \in Numbers
        BY <4>2, Bounds
      <4>. QED  BY <1>3, <2>1, <2>2, <4>1, <4>2, <4>3, <4>4, <4>5
    <3>2. CASE e \notin mem.ready
      <4>1. task.separator /\ exported[u] > 0 /\ e = <<<<u, 0>>, RevisionOf(<<u, 0>>)>>
        BY <1>3, <3>2
      <4>2. e[1] = <<u, 0>> /\ e[2] = RevisionOf(e[1]) /\ e[1][1] = u /\ e[1][2] = 0
        BY <4>1
      <4>3. StatusOf(e[1]) = "acked"
        BY <1>8, <4>1, <4>2 DEF StatusOf
      <4>4. RevisionOf(e[1]) \in Nat
        BY <4>2, Bounds DEF RevisionOf, IInv, TypeOK
      <4>5. e[1] \notin m.failed
        BY <2>3, <4>2
      <4>. QED  BY <1>5, <4>1, <4>2, <4>3, <4>4, <4>5
    <3>. QED  BY <3>1, <3>2
  <2>. QED  BY <2>1, <2>2, <2>3, <2>4 DEF MaySave
<1>11. /\ disk' = m /\ exposed' = exposed \union {} /\ UNCHANGED <<input, revision, copies>>
       /\ \/ /\ receipt' = Without(Retirable(m)) /\ mem' = AfterRetiring(m)
             /\ task' = AtThread(T + 1) /\ UNCHANGED <<mode, scenario>>
          \/ /\ \E some \in SUBSET Retirable(m) : receipt' = Without(some)
             /\ EndsEarly /\ RunOver(m)
  BY <1>3 DEF CompleteThread, SaveAnd
<1>12. Retires(m)
  <2>1. \E some \in SUBSET Retirable(m) : receipt' = Without(some)
    BY <1>11
  <2>. QED  BY <2>1, RetiresShape
<1>13. CASE EndsEarly /\ RunOver(m)
  BY <1>1, <1>10, <1>11, <1>12, <1>13, RunEnds
<1>14. CASE mem' = AfterRetiring(m) /\ task' = AtThread(T + 1) /\ mode' = mode /\ scenario' = scenario
  <2>1. /\ ReceiptInv' /\ HeadedInv' /\ SavedInv'
        /\ NoDuplicate' /\ OneSeparator' /\ BehindSeparator'
        /\ \A t \in Thread : /\ Progress(t)' = Reach(m, t)
                             /\ m.high[t] <= exported[t] /\ m.offset[t] <= exported[t]
        /\ \A i \in mapped : StatusOf(i)' = "none"
        /\ \A i \in m.failed : i[2] > 0
        /\ exposed' \in SUBSET Item
    BY <1>10, <1>11, <1>12, SaveKeeps
  <2>2. /\ mem' \in State /\ mem'.high = m.high /\ mem'.offset = m.offset /\ mem'.failed = m.failed
        /\ mem'.ready \subseteq m.ready
    BY <1>14, RetiringShape
  <2>3. /\ task' \in Task /\ T' = u + 1 /\ ~Working' /\ task' = AtThread(T') /\ u \in Nat
    <3>1. u + 1 \in 1..Threads + 1 /\ u \in Nat
      BY MergeAssumption DEF Thread
    <3>2. task' = AtThread(u + 1)
      BY <1>2, <1>14
    <3>. QED  BY <3>1, <3>2, StartShape DEF T, Working
  <2>4. TypeOK'
    <3>1. scenario'.stops \in Nat /\ mode' \in Mode
      BY <1>14 DEF IInv, TypeOK
    <3>. QED  BY <1>11, <1>12, <2>1, <2>2, <2>3, <3>1, SaveTypes
  <2>5. ShapeInv'
    <3>1. \A i \in disk'.failed \union mem'.failed : i[2] > 0
      BY <1>11, <2>1, <2>2
    <3>2. \A i \in mapped' : i[2] > 0 /\ StatusOf(i)' = "none" /\ copies'[i[1]][i[2]] = 1
      BY <1>11, <2>1 DEF IInv, ShapeInv, input
    <3>3. \A t \in Thread : disk'.high[t] <= exported'[t] /\ disk'.offset[t] <= exported'[t]
      BY <1>11, <2>1 DEF input
    <3>. QED  BY <1>14, <3>1, <3>2, <3>3 DEF IInv, ShapeInv
  <2>6. RunsInv'
    <3>1. /\ ~(scenario.runs # <<>> /\ Head(scenario.runs) = "fresh")
          /\ \A n \in 2..Len(scenario.runs) : scenario.runs[n] # "fresh"
      BY <1>1 DEF IInv, RunsInv
    <3>. QED  BY <1>1, <1>11, <1>14, <2>2, <2>3, <3>1 DEF RunsInv
  <2>7. MemoryInv'
    <3>1. /\ Sound(mem)'
          /\ \A e \in mem'.ready :
                e[1][2] > 0 => e[1][2] <= Progress(e[1][1])' \/ e[1] \in exposed'
      BY <1>11, <2>1, <2>2, MemorySaved
    <3>2. Incremental' = Incremental
      BY <1>14 DEF Incremental
    <3>3. ASSUME NEW e \in mem'.ready
          PROVE  Incremental => e[1][1] < u + 1
      <4>1. e \in m.ready /\ e[1][1] \in Nat
        BY <2>2, StateShape, ItemShape, Bounds
      <4>2. CASE e \in mem.ready
        BY <1>2, <2>3, <4>1, <4>2 DEF IInv, MemoryInv
      <4>3. CASE e \notin mem.ready
        <5>1. e = <<<<u, 0>>, RevisionOf(<<u, 0>>)>>
          BY <1>3, <4>1, <4>3
        <5>2. e[1][1] = u
          BY <5>1
        <5>. QED  BY <2>3, <5>2
      <4>. QED  BY <4>2, <4>3
    <3>. QED  BY <2>3, <3>1, <3>2, <3>3 DEF MemoryInv
  <2>8. ComingInv'
    <3>1. ASSUME NEW t \in Thread, t > T' \/ (t = T' /\ ~Working')
          PROVE  /\ mode' = "fresh" => Progress(t)' = 0
                 /\ mode' = "resume" => \A n \in Numbers :
                       n > disk'.offset[t] /\ n <= disk'.high[t] => <<t, n>> \in exposed'
      <4>1. t # u /\ t > T
        BY <1>2, <2>3, <3>1, Bounds
      <4>2. /\ mode = "fresh" => Progress(t) = 0
            /\ mode = "resume" => \A n \in Numbers :
                  n > disk.offset[t] /\ n <= disk.high[t] => <<t, n>> \in exposed
        BY <4>1 DEF IInv, ComingInv
      <4>. QED  BY <1>3, <1>6, <1>11, <1>14, <2>1, <4>1, <4>2
    <3>. QED  BY <3>1 DEF ComingInv
  <2>9. PlaceInv'
    BY <2>3 DEF PlaceInv
  <2>. QED  BY <2>1, <2>4, <2>5, <2>6, <2>7, <2>8, <2>9 DEF IInv
<1>. QED  BY <1>11, <1>13, <1>14

LEMMA StutterStep == IInv /\ UNCHANGED vars => IInv'
<1> SUFFICES ASSUME IInv, UNCHANGED vars PROVE IInv'
  OBVIOUS
<1>. USE DEF vars, input
<1>1. T' = T /\ Working' = Working /\ Incremental' = Incremental /\ \A n : Behind(n)' = Behind(n)
  BY DEF T, Working, Incremental, Behind
<1>2. TypeOK' /\ ShapeInv' /\ RunsInv'
  BY <1>1 DEF IInv, TypeOK, ShapeInv, RunsInv, StatusOf
<1>3. (\A t : Progress(t)' = Progress(t) /\ Headed(t)' = Headed(t)) /\ Sound(mem)'
  BY DEF Progress, Headed, Sound, IInv, MemoryInv, StatusOf, RevisionOf
<1>4. ReceiptInv' /\ HeadedInv' /\ SavedInv'
  BY DEF IInv, ReceiptInv, HeadedInv, SavedInv, Sound, Progress, Headed, StatusOf, RevisionOf
<1>5. MemoryInv' /\ ComingInv'
  BY <1>1, <1>3 DEF IInv, MemoryInv, ComingInv
<1>6. PlaceInv'
  <2>1. (\A n : Skips(n)' = Skips(n)) /\ StatusOf(InHand)' = StatusOf(InHand)
    BY <1>1 DEF Skips, StatusOf, InHand
  <2>2. Headed(T)' = Headed(T) /\ Progress(T)' = Progress(T) /\ Skips(task.next)' = Skips(task.next)
    BY <1>1, <2>1 DEF Headed, Progress, Skips
  <2>. QED  BY <1>1, <2>1, <2>2 DEF IInv, PlaceInv
<1>7. NoDuplicate' /\ OneSeparator' /\ BehindSeparator'
  BY DEF IInv, NoDuplicate, OneSeparator, BehindSeparator
<1>. QED  BY <1>2, <1>4, <1>5, <1>6, <1>7 DEF IInv

-----------------------------------------------------------------------------
\* Every step keeps the invariant.
LEMMA NextInv == IInv /\ [Next]_vars => IInv'
<1>1. CASE UNCHANGED vars
  BY <1>1, StutterStep
<1>2. ASSUME IInv, NEW t \in Thread, Export(t) PROVE IInv'
  BY <1>2, ExportStep
<1>3. ASSUME IInv, NEW how \in Mode \ {"none"}, BeginRun(how) PROVE IInv'
  BY <1>3, BeginStep
<1>4. ASSUME IInv, NEW t \in Thread, NEW n \in Number, Land(t, n) PROVE IInv'
  BY <1>4, LandStep
<1>. QED  BY <1>1, <1>2, <1>3, <1>4, StartStep, SkipStep, KnownStep, SendStep, AnswerStep,
             CheckpointStep, GoOnStep, CompleteStep, CrashStep, StopStep, EndPhaseStep DEF Next

\* The inductive invariant: what the receipts, the file, the run's state and the
\* place of the task say of each other, for any number of threads and runs.
THEOREM MergeInvariant == Spec => []IInv
<1>1. Init => IInv
  BY InitInv
<1>2. IInv /\ [Next]_vars => IInv'
  BY NextInv
<1>. QED  BY <1>1, <1>2, PTL DEF Spec

-----------------------------------------------------------------------------
(* What a message can be merged twice by, and that nothing else can.       *)

\* A resume forgets what lies between a thread's offset and its high-water mark.
LEMMA BeginGaps ==
    ASSUME NEW how \in Mode \ {"none"}, BeginRun(how), NEW i \in exposed' \ exposed
    PROVE  /\ mode' = "resume" /\ mode = "none"
           /\ disk.offset[i[1]] < i[2] /\ i[2] <= disk.high[i[1]]
  BY DEF BeginRun, Forgotten

\* A stop forgets what the thread in hand has merged since its last checkpoint.
LEMMA StopGaps ==
    ASSUME IInv, Stop, NEW i \in exposed' \ exposed
    PROVE  mode' = "none" /\ mode # "none" /\ i[1] = T /\ Progress(T) < i[2] /\ Behind(i[2])
<1>1. PICK e \in mem.ready : i = e[1]
  BY DEF Stop, Uncovered
<1>2. i[2] > Max2(mem.high[i[1]], mem.offset[i[1]])
  BY DEF Stop, Uncovered
<1>3. e \in Item \X Nat /\ i[1] \in Thread /\ i[2] \in Number
  BY <1>1, SoundShape, StateShape, ItemShape
<1>4. /\ Progress(i[1]) = Max2(mem.high[i[1]], mem.offset[i[1]])
      /\ Progress(i[1]) \in Nat /\ i[2] \in Nat
  BY <1>3, SoundShape, ProgressShape, MergeAssumption DEF IInv, Progress, Number
<1>5. i[2] > Progress(i[1]) /\ i[2] > 0 /\ ~(i[2] <= Progress(i[1]))
  BY <1>2, <1>4
<1>6. i[1] = T /\ Behind(i[2])
  BY <1>1, <1>5 DEF IInv, MemoryInv
<1>. QED  BY <1>4, <1>5, <1>6 DEF Stop, RunOver

\* A checkpoint forgets something only after a retried failure of an incremental run.
LEMMA CheckpointGaps ==
    ASSUME IInv, Checkpoint, NEW i \in exposed' \ exposed
    PROVE  /\ Incremental /\ InHand \in task.retry
           /\ i[1] = T /\ task.next < i[2] /\ i[2] <= disk.offset[T]
<1>1. Working /\ task.next <= MaxMessages /\ task.stage = "after"
  BY AtWork DEF Checkpoint
<1>2. T \in Thread /\ task.next \in Number /\ task.next \in Nat
  BY <1>1, HandShape, Bounds
<1>3. task.next > 0 /\ ~Skips(task.next)
  BY <1>1, <1>2, Bounds DEF IInv, PlaceInv
<1>4. PICK n \in Max2(task.next, mem.high[T]) + 1..mem.offset[T] : i = <<T, n>>
  BY DEF Checkpoint, PassedBack
<1>5. mem.high[T] \in Nat /\ mem.offset[T] = disk.offset[T] /\ disk.offset[T] \in Number
  BY <1>2, SoundShape, StateShape, Bounds
<1>6. n \in Nat /\ task.next < n /\ n <= disk.offset[T] /\ n \in Numbers /\ disk.offset[T] \in Nat
  BY <1>2, <1>4, <1>5, MergeAssumption DEF Max2, Number, Numbers
<1>7. n <= Progress(T) /\ ~Behind(n)
  BY <1>1, <1>2, <1>6, ProgressShape DEF IInv, Behind
<1>8. ~(n > task.skipBelow)
  BY <1>1, <1>4, <1>6, <1>7 DEF IInv, PlaceInv
<1>9. task.next <= task.skipBelow
  BY <1>2, <1>6, <1>8, TaskShape, Bounds DEF IInv
<1>10. InHand \in task.retry
  BY <1>3, <1>9 DEF Skips, InHand
<1>. QED  BY <1>1, <1>4, <1>6, <1>10 DEF IInv, PlaceInv

LEMMA GapsNext ==
    ASSUME IInv, [Next]_vars, NEW i \in exposed' \ exposed
    PROVE  \/ /\ mode' = "resume" /\ mode = "none"
              /\ disk.offset[i[1]] < i[2] /\ i[2] <= disk.high[i[1]]
           \/ /\ mode' = "none" /\ mode # "none"
              /\ i[1] = T /\ Progress(T) < i[2] /\ Behind(i[2])
           \/ /\ Incremental /\ InHand \in task.retry
              /\ i[1] = T /\ task.next < i[2] /\ i[2] <= disk.offset[T]
<1>1. CASE \E how \in Mode \ {"none"} : BeginRun(how)
  BY <1>1, BeginGaps
<1>2. CASE Stop
  BY <1>2, StopGaps
<1>3. CASE Checkpoint
  BY <1>3, CheckpointGaps
<1>4. CASE UNCHANGED exposed
  BY <1>4
<1>5. \/ \E how \in Mode \ {"none"} : BeginRun(how)
      \/ Stop \/ Checkpoint \/ UNCHANGED exposed
  BY DEF Next, vars, Export, StartThread, SkipMessage, Known, Send, Answer, GoOn,
         CompleteThread, Crash, EndPhase, Land
<1>. QED  BY <1>1, <1>2, <1>3, <1>4, <1>5

\* No separator is in the parent channel twice, and a message only when a continuation
\* has forgotten it (exposed); that comes about only by a resume of a thread below its
\* high-water mark, a stop behind the last checkpoint of the thread in hand, and an offset
\* that the retry of a failure has moved back.
THEOREM MergeNoDuplicate == Spec => [](NoDuplicate /\ OneSeparator) /\ GapsNamed
<1>1. IInv => NoDuplicate /\ OneSeparator
  BY DEF IInv
<1>2. IInv /\ [Next]_vars =>
         [\A i \in exposed' \ exposed :
             \/ /\ mode' = "resume" /\ mode = "none"
                /\ disk.offset[i[1]] < i[2] /\ i[2] <= disk.high[i[1]]
             \/ /\ mode' = "none" /\ mode # "none"
                /\ i[1] = T /\ Progress(T) < i[2] /\ Behind(i[2])
             \/ /\ Incremental /\ InHand \in task.retry
                /\ i[1] = T /\ task.next < i[2] /\ i[2] <= disk.offset[T]]_vars
  BY GapsNext
<1>. QED  BY <1>1, <1>2, MergeInvariant, PTL DEF Spec, GapsNamed

-----------------------------------------------------------------------------
(* A history without interruptions leaves no gap.                          *)

\* A step that keeps the file and only takes the task forward.
LEMMA CalmQuiet ==
    ASSUME IInv, CalmInv, UNCHANGED <<disk, mode, scenario, exposed>>, T' = T,
           Working => Working' /\ \A n \in Nat : Behind(n) => Behind(n)'
    PROVE  CalmInv'
<1>1. \A t \in Thread : disk.offset[t] \in Nat
  BY ProgressShape DEF IInv
<1>. QED  BY <1>1 DEF CalmInv

LEMMA CalmMoves ==
    ASSUME IInv, CalmInv, StartThread \/ SkipMessage \/ Known \/ Send \/ Answer \/ GoOn
    PROVE  CalmInv'
<1>1. UNCHANGED <<disk, mode, scenario, exposed>>
  BY DEF StartThread, SkipMessage, Known, Send, Answer, GoOn
<1>2. task.next \in Nat /\ task \in Task
  BY TaskShape DEF IInv
<1>3. CASE StartThread
  <2>1. ~Working /\ T' = T
    BY <1>2, <1>3 DEF StartThread, Working, T, Task
  <2>. QED  BY <1>1, <2>1, CalmQuiet
<1>4. CASE SkipMessage \/ GoOn
  <2>1. task' = [task EXCEPT !.stage = "loop", !.next = @ + 1]
    BY <1>2, <1>4 DEF SkipMessage, GoOn, NextMessage, InLoop, Task
  <2>2. task'.thread = task.thread /\ task'.stage = "loop" /\ task'.next = task.next + 1
    BY <1>2, <2>1 DEF Task
  <2>3. T' = T /\ Working' /\ \A n \in Nat : Behind(n) => Behind(n)'
    BY <1>2, <2>2 DEF T, Working, Behind
  <2>. QED  BY <1>1, <2>3, CalmQuiet
<1>5. CASE Known \/ Send \/ Answer
  <2>1. task.stage \in {"loop", "waiting"}
    BY <1>5 DEF Known, Send, Answer, Delivering, InLoop
  <2>2. task' = [task EXCEPT !.stage = "waiting"] \/ (\E r \in BOOLEAN : Outcome(r))
    <3>1. CASE Known
      BY <3>1 DEF Known
    <3>2. CASE Send
      BY <3>2 DEF Send
    <3>3. CASE Answer
      BY <3>3 DEF Answer
    <3>. QED  BY <1>5, <3>1, <3>2, <3>3
  <2>3. /\ task'.thread = task.thread /\ task'.stage \in {"loop", "waiting", "after"}
        /\ task'.next = task.next \/ (task.next = 0 /\ task'.next = 1)
    <3>1. CASE task' = [task EXCEPT !.stage = "waiting"]
      BY <1>2, <3>1 DEF Task
    <3>2. CASE task' = [task EXCEPT !.stage = "after"]
      BY <1>2, <3>2 DEF Task
    <3>3. ASSUME NEW r \in BOOLEAN, Outcome(r), task.next = 0
          PROVE  task'.thread = task.thread /\ task'.stage = "loop" /\ task'.next = 1
      <4>1. task' = [task EXCEPT !.stage = "loop", !.next = 1, !.separator = r]
        BY <3>3 DEF Outcome
      <4>. QED  BY <1>2, <4>1 DEF Task
    <3>4. ASSUME NEW r \in BOOLEAN, Outcome(r), task.next # 0
          PROVE  task' = [task EXCEPT !.stage = "after"]
      BY <3>4 DEF Outcome
    <3>. QED  BY <2>2, <3>1, <3>2, <3>3, <3>4
  <2>4. T' = T /\ Working' /\ \A n \in Nat : Behind(n) => Behind(n)'
    BY <1>2, <2>1, <2>3 DEF T, Working, Behind
  <2>. QED  BY <1>1, <2>4, CalmQuiet
<1>. QED  BY <1>3, <1>4, <1>5

\* The offset of the thread in hand follows the task: a checkpoint uncovers nothing.
LEMMA CalmCheckpoint == ASSUME IInv, CalmInv, Checkpoint PROVE CalmInv'
<1>1. Working /\ task.next <= MaxMessages /\ task.stage = "after"
  BY AtWork DEF Checkpoint
<1>2. T \in Thread /\ task.next \in Number /\ task.next \in Nat /\ task \in Task
  BY <1>1, HandShape, Bounds, TaskShape DEF IInv
<1>3. mem \in State /\ mem.offset = disk.offset /\ mem.offset \in [Thread -> Number]
  BY SoundShape, StateShape DEF IInv, RunsInv
<1>4. mem.high[T] \in Nat /\ disk.offset[T] \in Nat
  BY <1>2, SoundShape, StateShape, Bounds
<1>5. disk.offset[T] <= task.next
  BY <1>2, <1>4, BehindShape DEF CalmInv, IInv
<1>6. PassedBack = {}
  BY <1>2, <1>3, <1>4, <1>5 DEF PassedBack, Max2
<1>7. /\ disk' = CheckpointState /\ task' = NextMessage /\ UNCHANGED <<mode, scenario>>
      /\ exposed' = {}
  BY <1>6 DEF Checkpoint, SaveAnd, EndsEarly, CalmInv
<1>8. disk'.offset = [mem.offset EXCEPT ![T] = task.next]
  BY <1>3, <1>7 DEF CheckpointState, State
<1>9. task'.thread = task.thread /\ task'.stage = "loop" /\ task'.next = task.next + 1
  BY <1>2, <1>7 DEF NextMessage, Task
<1>10. ASSUME NEW t \in Thread, disk'.offset[t] > 0
       PROVE  t = T' /\ Working' /\ Behind(disk.offset[t])'
  <2>1. CASE t = T
    <3>1. disk'.offset[t] = task.next
      BY <1>2, <1>3, <1>8, <2>1
    <3>. QED  BY <1>2, <1>9, <2>1, <3>1 DEF T, Working, Behind
  <2>2. CASE t # T
    <3>1. disk'.offset[t] = disk.offset[t]
      BY <1>3, <1>8, <2>2
    <3>. QED  BY <1>10, <2>2, <3>1 DEF CalmInv
  <2>. QED  BY <2>1, <2>2
<1>. QED  BY <1>7, <1>10 DEF CalmInv

\* Of a complete thread no offset is left.
LEMMA CalmComplete == ASSUME IInv, CalmInv, CompleteThread PROVE CalmInv'
<1>1. Working /\ T \in Thread
  BY DEF CompleteThread, Working, IInv, PlaceInv
<1>2. disk' = Completed /\ UNCHANGED <<mode, scenario, exposed>>
  BY DEF CompleteThread, SaveAnd, EndsEarly, CalmInv
<1>3. ASSUME NEW t \in Thread PROVE ~(disk'.offset[t] > 0)
  <2>1. CASE t = T
    BY <1>1, <1>2, <2>1, CompletedShape
  <2>2. CASE t # T
    BY <1>1, <1>2, <2>2, CompletedShape, SoundShape DEF CalmInv
  <2>. QED  BY <2>1, <2>2
<1>. QED  BY <1>2, <1>3 DEF CalmInv

\* Between two runs there is no offset, and no run is a resume.
LEMMA CalmBegin ==
    ASSUME IInv, CalmInv, NEW how \in Mode \ {"none"}, BeginRun(how) PROVE CalmInv'
<1>1. scenario.runs \in Seq({"fresh", "resume", "incremental"}) /\ scenario.runs # <<>>
  BY DEF BeginRun, IInv, ShapeInv
<1>2. how = scenario.runs[1] /\ 1 \in 1..Len(scenario.runs)
  BY <1>1 DEF BeginRun
<1>3. how # "resume" /\ mode' = how
  BY <1>2 DEF CalmInv, BeginRun
<1>4. Forgotten(how) = {} /\ exposed' = {}
  BY <1>3 DEF Forgotten, BeginRun, CalmInv
<1>5. disk'.offset = disk.offset
  BY SoundShape DEF BeginRun, Loaded, State
<1>6. scenario' = [scenario EXCEPT !.runs = Tail(scenario.runs)]
  BY DEF BeginRun
<1>7. scenario'.runs = Tail(scenario.runs) /\ scenario'.stops = scenario.stops
  BY <1>6 DEF IInv, ShapeInv
<1>8. \A k \in 1..Len(scenario'.runs) : scenario'.runs[k] # "resume"
  <2>1. \A k \in 1..Len(scenario.runs) : scenario.runs[k] # "resume"
    BY DEF CalmInv
  <2>2. /\ Len(Tail(scenario.runs)) = Len(scenario.runs) - 1
        /\ \A k \in 1..Len(Tail(scenario.runs)) :
              Tail(scenario.runs)[k] = scenario.runs[k + 1] /\ k + 1 \in 1..Len(scenario.runs)
    BY <1>1
  <2>. QED  BY <1>7, <2>1, <2>2
<1>9. T' = T /\ Working' = Working /\ \A n : Behind(n)' = Behind(n)
  BY DEF BeginRun, T, Working, Behind
<1>. QED  BY <1>3, <1>4, <1>5, <1>7, <1>8, <1>9 DEF CalmInv

LEMMA CalmNext == IInv /\ CalmInv /\ [Next]_vars => CalmInv'
<1> SUFFICES ASSUME IInv, CalmInv, [Next]_vars PROVE CalmInv'
  OBVIOUS
<1>1. ~EndsEarly
  BY DEF EndsEarly, CalmInv
<1>2. CASE EndPhase
  <2>1. T > Threads /\ UNCHANGED <<scenario, exposed>> /\ mode' = "none"
    BY <1>1, <1>2 DEF EndPhase, RunOver
  <2>2. disk' = [mem EXCEPT !.over = TRUE]
    BY <1>1, <1>2 DEF EndPhase
  <2>3. disk'.offset = disk.offset
    BY <2>2, SoundShape DEF State, IInv, RunsInv
  <2>4. \A t \in Thread : ~(disk.offset[t] > 0)
    BY <2>1, MergeAssumption, TaskShape DEF CalmInv, Thread, IInv
  <2>. QED  BY <2>1, <2>3, <2>4 DEF CalmInv
<1>3. CASE UNCHANGED vars \/ (\E t \in Thread : Export(t)) \/ (\E t \in Thread, n \in Number : Land(t, n))
  <2>1. UNCHANGED <<disk, mode, scenario, exposed, task>>
    BY <1>3 DEF vars, Export, Land
  <2>2. T' = T /\ Working' = Working /\ \A n : Behind(n)' = Behind(n)
    BY <2>1 DEF T, Working, Behind
  <2>. QED  BY <2>1, <2>2, CalmQuiet
<1>4. ~Crash /\ ~Stop
  BY <1>1 DEF Crash, Stop
<1>. QED  BY <1>2, <1>3, <1>4, CalmMoves, CalmCheckpoint, CalmComplete, CalmBegin DEF Next

\* When no run is stopped or killed and none is a resume, nothing is in the parent channel
\* twice: no message and no separator, whatever answers are lost, however late requests
\* land, and however the exports grow between the incremental runs.
THEOREM MergedOnceUninterrupted == ASSUME Uninterrupted PROVE Spec => []MergedOnce
<1>1. Init => CalmInv
  <2> SUFFICES ASSUME Init PROVE CalmInv
    OBVIOUS
  <2>1. scenario.stops = 0 /\ \A k \in 1..Len(scenario.runs) : scenario.runs[k] # "resume"
    BY DEF Init, Uninterrupted
  <2>2. \A t \in Thread : disk.offset[t] = 0
    BY DEF Init, EmptyState
  <2>. QED  BY <2>1, <2>2 DEF Init, CalmInv
<1>2. IInv /\ CalmInv /\ [Next]_vars => CalmInv'
  BY CalmNext
<1>3. IInv /\ CalmInv => MergedOnce
  <2> SUFFICES ASSUME IInv, CalmInv, NEW t \in Thread, NEW n \in Number PROVE copies[t][n] <= 1
    BY DEF MergedOnce
  <2>1. CASE n = 0
    BY <2>1 DEF IInv, OneSeparator
  <2>2. CASE n # 0
    <3>1. n \in 1..MaxMessages
      BY <2>2, MergeAssumption DEF Number
    <3>. QED  BY <3>1 DEF IInv, CalmInv, NoDuplicate
  <2>. QED  BY <2>1, <2>2
<1>. QED  BY <1>1, <1>2, <1>3, MergeInvariant, PTL DEF Spec

\* What the saved progress has passed is in the parent channel or recorded as failed.
THEOREM MergeAccounted == Spec => []Accounted
<1>1. IInv => Accounted
  BY DEF IInv, SavedInv, Sound, Accounted, Numbers
<1>. QED  BY <1>1, MergeInvariant, PTL

\* The types, the receipts of failures, and one separator before each thread's messages.
THEOREM MergeHolds == Spec => []MergeInv
<1>1. IInv => MergeInv
  BY DEF IInv, SavedInv, Sound, MergeInv, FailureRetryable
<1>. QED  BY <1>1, MergeInvariant, PTL

=============================================================================
