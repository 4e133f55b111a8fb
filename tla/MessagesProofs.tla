---------------------------- MODULE MessagesProofs ----------------------------
(***************************************************************************)
(* Proofs about MessagesPhase, for any channels and threads, any number of *)
(* messages, workers and stops, and any sequence of runs.                  *)
(***************************************************************************)
EXTENDS MessagesPhaseProps, FiniteSetTheorems, TLAPS

-----------------------------------------------------------------------------
(* The parts of the state.                                                 *)

\* An item is a pair of a channel and a number.
LEMMA ItemShape ==
    /\ \A i \in Item : i[1] \in Channel /\ i[2] \in 0..MaxMessages /\ i = <<i[1], i[2]>>
    /\ \A c \in Channel, n \in 0..MaxMessages : <<c, n>> \in Item
  BY MessagesAssumption DEF Item

\* The state that MigrationState starts with, and what a run starts with.
LEMMA EmptyShape ==
    /\ EmptyState \in State
    /\ EmptyResult \in Result
    /\ Idle \in Worker
    /\ [Idle EXCEPT !.stage = "queued"] \in Worker
<1>1. EmptyState \in State
  BY MessagesAssumption DEF EmptyState, State
<1>2. EmptyResult \in Result
  BY DEF EmptyResult, Result
<1>3. ASSUME NEW w \in Worker PROVE [w EXCEPT !.stage = "queued"] \in Worker
  BY DEF Worker, Stage
<1>4. Idle \in Worker
  BY MessagesAssumption DEF Idle, Worker, Stage
<1>. QED  BY <1>1, <1>2, <1>3, <1>4 DEF Stage

\* Retiring receipts leaves the others as they are.
LEMMA WithoutShape ==
    ASSUME TypeOK, NEW S \in SUBSET Item
    PROVE  /\ Without(S) \in [Channel -> [0..MaxMessages -> ReceiptStatus]]
           /\ \A c \in Channel, n \in 0..MaxMessages :
                 /\ <<c, n>> \in S => Without(S)[c][n] = "none"
                 /\ <<c, n>> \notin S => Without(S)[c][n] = receipt[c][n]
  BY DEF Without, TypeOK, ReceiptStatus

\* What save_state leaves in memory: the same state without some of its markers.
LEMMA RetiringShape ==
    ASSUME NEW m \in State
    PROVE  /\ AfterRetiring(m) \in State
           /\ AfterRetiring(m).completed = m.completed
           /\ AfterRetiring(m).high = m.high
           /\ AfterRetiring(m).offset = m.offset
           /\ AfterRetiring(m).failed = m.failed
           /\ AfterRetiring(m).count = m.count
           /\ AfterRetiring(m).ready \subseteq m.ready
           /\ AfterRetiring(m).marked \subseteq m.marked
  BY DEF AfterRetiring, State

\* The parts of a saved or remembered state.
LEMMA StateShape ==
    ASSUME NEW m \in State
    PROVE  /\ m.completed \subseteq Channel
           /\ m.high \in [Channel -> 0..MaxMessages]
           /\ m.offset \in [Channel -> 0..MaxMessages]
           /\ m.failed \subseteq Item
           /\ m.marked \subseteq Item
           /\ m.ready \subseteq Item
           /\ m.count \in [Channel -> Nat]
  BY DEF State

\* The parts of a worker and of its result.
LEMMA WorkerShape ==
    ASSUME TypeOK, NEW c \in Channel
    PROVE  /\ worker[c] \in Worker
           /\ worker[c].stage \in Stage
           /\ worker[c].next \in 0..MaxMessages + 1
           /\ worker[c].skipBelow \in 0..MaxMessages
           /\ worker[c].retry \subseteq Item
           /\ worker[c].header \in BOOLEAN
           /\ result[c] \in Result
           /\ result[c].failed \subseteq Item
           /\ result[c].marked \subseteq Item
           /\ result[c].tokens \subseteq Item
           /\ result[c].count \in Nat
  BY DEF TypeOK, Worker, Result

\* The initial state.
LEMMA InitInv == Init => IInv
<1> SUFFICES ASSUME Init PROVE IInv
  OBVIOUS
<1>1. TypeOK
  <2>1. exported \in [Channel -> 0..MaxMessages] /\ scenario.stops \in Nat
    BY MessagesAssumption DEF Init
  <2>2. receipt \in [Channel -> [0..MaxMessages -> ReceiptStatus]]
    BY DEF Init, ReceiptStatus
  <2>3. copies \in [Channel -> [0..MaxMessages -> Nat]]
    BY DEF Init
  <2>4. worker \in [Channel -> Worker] /\ result \in [Channel -> Result]
    BY EmptyShape DEF Init
  <2>. QED  BY <2>1, <2>2, <2>3, <2>4, EmptyShape DEF Init, TypeOK, Mode
<1>2. ShapeInv
  <2>1. exported \in [Channel -> 0..MaxMessages]
    BY DEF Init
  <2>2. scenario \in [runs : Seq({"fresh", "resume", "incremental"}), stops : Nat, slots : Nat,
                      longest : [Channel -> 0..MaxMessages]]
    BY MessagesAssumption DEF Init
  <2>. QED  BY <2>1, <2>2, MessagesAssumption DEF Init, ShapeInv, EmptyState
<1>3. RunsInv
  <2>1. scenario.runs \in Seq({"fresh", "resume", "incremental"})
    BY MessagesAssumption DEF Init
  <2>2. \A k \in 2..Len(scenario.runs) : scenario.runs[k] # "fresh"
    BY <2>1, MessagesAssumption DEF Init
  <2>. QED  BY <2>2 DEF Init, RunsInv, Idle
<1>4. MemoryInv
  BY DEF Init, MemoryInv
<1>9. ReceiptInv /\ HeaderInv
  <2>1. \A c \in Channel, n \in 0..MaxMessages : receipt[c][n] = "none" /\ copies[c][n] = 0
    BY DEF Init
  <2>. QED  BY <2>1, MessagesAssumption DEF ReceiptInv, HeaderInv
<1>5. ReadyInv /\ FailureRetryable
  BY DEF Init, ReadyInv, FailureRetryable, EmptyState
<1>6. PlaceInv /\ WorkerInv
  BY DEF Init, PlaceInv, WorkerInv, Due, Active, Idle
<1>7. NoDuplicate /\ EvidenceOrProgress
  BY DEF Init, NoDuplicate, EvidenceOrProgress
<1>8. Accounted
  BY DEF Init, Accounted, Progress, Max2, EmptyState
<1>. QED  BY <1>1, <1>2, <1>3, <1>4, <1>5, <1>6, <1>7, <1>8, <1>9 DEF IInv

-----------------------------------------------------------------------------
(* Steps of the tasks that leave the files alone.                          *)

files == <<receipt, copies, disk, mem, exposed>>

\* What a step need not disturb that changes neither files nor destination.
LEMMA FilesOnly ==
    ASSUME IInv, UNCHANGED files
    PROVE  /\ MemoryInv' /\ ReceiptInv' /\ HeaderInv' /\ ReadyInv'
           /\ NoDuplicate' /\ Accounted' /\ EvidenceOrProgress' /\ FailureRetryable'
<1> USE DEF IInv, files, Progress, StatusOf
<1>1. MemoryInv' /\ ReceiptInv' /\ HeaderInv'
  BY DEF MemoryInv, ReceiptInv, HeaderInv
<1>2. ReadyInv' /\ FailureRetryable'
  BY DEF ReadyInv, FailureRetryable
<1>3. NoDuplicate' /\ Accounted' /\ EvidenceOrProgress'
  BY DEF NoDuplicate, Accounted, EvidenceOrProgress
<1>. QED  BY <1>1, <1>2, <1>3

\* A worker that did not move has kept its place.
LEMMA KeptPlace ==
    ASSUME IInv, UNCHANGED <<exported, files, mode>>,
           NEW c \in Channel, worker'[c] = worker[c], result'[c] = result[c]
    PROVE  PlaceInv!(c)' /\ WorkerInv!(c)'
<1>1. PlaceInv!(c) /\ WorkerInv!(c)
  BY DEF IInv, PlaceInv, WorkerInv
<1> USE DEF files, Due, Active, SkipLimit, Threshold, Progress, StatusOf, InHand,
            Tried, SkipsOver, Skipped, Incremental
<1>2. PlaceInv!(c)'
  BY <1>1
<1>3. WorkerInv!(c)'
  BY <1>1
<1>. QED  BY <1>2, <1>3

\* A worker that has ended has no place.
LEMMA EndedPlace ==
    ASSUME NEW c \in Channel, worker'[c].stage \in {"done", "failed", "stopped"}
    PROVE  PlaceInv!(c)' /\ WorkerInv!(c)'
  BY DEF Due, Active

\* The same types, files and runs: what is left to show is where the workers stand.
LEMMA WorkersMoved ==
    ASSUME IInv, UNCHANGED <<exported, files, mode, cancel, result, scenario>>,
           worker' \in [Channel -> Worker],
           mode # "none",
           \A c \in Channel : worker'[c].stage \in {"failed", "stopped"} =>
                MayStop \/ worker[c].stage \in {"failed", "stopped"},
           \A c \in Channel : PlaceInv!(c)' /\ WorkerInv!(c)'
    PROVE  IInv'
<1>1. MemoryInv' /\ ReceiptInv' /\ HeaderInv' /\ ReadyInv'
      /\ NoDuplicate' /\ Accounted' /\ EvidenceOrProgress' /\ FailureRetryable'
  BY FilesOnly
<1>2. TypeOK'
  BY DEF IInv, TypeOK, files
<1>3. ShapeInv'
  BY DEF IInv, ShapeInv, files
<1>4. RunsInv'
  BY DEF IInv, RunsInv, files, MayStop
<1>5. PlaceInv' /\ WorkerInv'
  BY DEF PlaceInv, WorkerInv
<1>. QED  BY <1>1, <1>2, <1>3, <1>4, <1>5 DEF IInv

\* The place of a worker is kept when only the export grows.
LEMMA ExportStep == ASSUME IInv, NEW c \in Channel, Export(c) PROVE IInv'
<1> USE DEF Export, run, service
<1>1. UNCHANGED files
  BY DEF files
<1>2. MemoryInv' /\ ReceiptInv' /\ HeaderInv' /\ ReadyInv'
      /\ NoDuplicate' /\ Accounted' /\ EvidenceOrProgress' /\ FailureRetryable'
  BY <1>1, FilesOnly
<1>3. exported \in [Channel -> 0..MaxMessages] /\ scenario.longest[c] \in 0..MaxMessages
  BY DEF IInv, TypeOK, ShapeInv
<1>4. /\ exported' \in [Channel -> 0..MaxMessages]
      /\ \A d \in Channel : exported[d] <= exported'[d]
  BY <1>3, MessagesAssumption
<1>5. TypeOK'
  BY <1>4 DEF IInv, TypeOK
<1>6. ShapeInv'
  <2>1. \A d \in Channel : disk.high[d] \in Nat /\ disk.offset[d] \in Nat
    BY StateShape DEF IInv, TypeOK
  <2>. QED  BY <1>3, <1>4, <2>1 DEF IInv, ShapeInv
<1>7. RunsInv'
  BY DEF IInv, RunsInv, MayStop
<1>8. \A d \in Channel : worker[d].stage = "done"
  BY DEF IInv, RunsInv, Idle
<1>9. PlaceInv' /\ WorkerInv'
  BY <1>8, EndedPlace DEF PlaceInv, WorkerInv
<1>. QED  BY <1>2, <1>5, <1>6, <1>7, <1>9 DEF IInv

LEMMA RequestCancelStep == ASSUME IInv, RequestCancel PROVE IInv'
<1> USE DEF RequestCancel, service
<1>1. UNCHANGED files
  BY DEF files
<1>2. MemoryInv' /\ ReceiptInv' /\ HeaderInv' /\ ReadyInv'
      /\ NoDuplicate' /\ Accounted' /\ EvidenceOrProgress' /\ FailureRetryable'
  BY <1>1, FilesOnly
<1>3. TypeOK' /\ ShapeInv'
  BY DEF IInv, TypeOK, ShapeInv
<1>4. RunsInv'
  BY DEF IInv, RunsInv, MayStop
<1>5. PlaceInv' /\ WorkerInv'
  BY <1>1, KeptPlace DEF PlaceInv, WorkerInv
<1>. QED  BY <1>2, <1>3, <1>4, <1>5 DEF IInv

\* A worker that is stopped has nothing more to do with the others.
LEMMA CancelledStep == ASSUME IInv, NEW c \in Channel, Cancelled(c) PROVE IInv'
<1> USE DEF Cancelled, service
<1>1. UNCHANGED <<exported, files, mode, cancel, result, scenario>>
  BY DEF files
<1>2. mode # "none" /\ MayStop
  BY DEF IInv, RunsInv, Idle
<1>3. /\ worker' \in [Channel -> Worker]
      /\ worker'[c].stage = "stopped"
      /\ \A d \in Channel \ {c} : worker'[d] = worker[d]
  BY DEF IInv, TypeOK, Worker, Stage
<1>4. \A d \in Channel : PlaceInv!(d)' /\ WorkerInv!(d)'
  <2> TAKE d \in Channel
  <2>1. CASE d = c
    BY <2>1, <1>3, EndedPlace
  <2>2. CASE d # c
    BY <2>2, <1>1, <1>3, KeptPlace
  <2>. QED  BY <2>1, <2>2
<1>. QED  BY <1>1, <1>2, <1>3, <1>4, WorkersMoved

LEMMA WorkerFailsStep == ASSUME IInv, NEW c \in Channel, WorkerFails(c) PROVE IInv'
<1> USE DEF WorkerFails, service
<1>1. UNCHANGED <<exported, files, mode, cancel, result, scenario>>
  BY DEF files
<1>2. mode # "none" /\ MayStop
  BY DEF IInv, RunsInv, Idle
<1>3. /\ worker' \in [Channel -> Worker]
      /\ worker'[c].stage = "failed"
      /\ \A d \in Channel \ {c} : worker'[d] = worker[d]
  BY DEF IInv, TypeOK, Worker, Stage
<1>4. \A d \in Channel : PlaceInv!(d)' /\ WorkerInv!(d)'
  <2> TAKE d \in Channel
  <2>1. CASE d = c
    BY <2>1, <1>3, EndedPlace
  <2>2. CASE d # c
    BY <2>2, <1>1, <1>3, KeptPlace
  <2>. QED  BY <2>1, <2>2
<1>. QED  BY <1>1, <1>2, <1>3, <1>4, WorkersMoved

LEMMA PermissionStopStep == ASSUME IInv, NEW c \in Channel, PermissionStop(c) PROVE IInv'
<1> USE DEF PermissionStop, service
<1>1. UNCHANGED <<exported, files, mode, cancel, result, scenario>>
  BY DEF files
<1>2. mode # "none" /\ MayStop
  BY DEF IInv, RunsInv, Idle, Delivering
<1>3. \A d \in Channel : /\ worker'[d] \in Worker
                         /\ worker'[d].stage \in {"done", "failed", "stopped"}
  BY DEF IInv, TypeOK, Worker, Stage
<1>4. worker' \in [Channel -> Worker]
  BY <1>3 DEF IInv, TypeOK
<1>. QED  BY <1>1, <1>2, <1>3, <1>4, EndedPlace, WorkersMoved

\* The semaphore admits a worker: it starts behind nothing, with what it skips and
\* retries taken from the saved state.
LEMMA AdmitStep == ASSUME IInv, NEW c \in Channel, Admit(c) PROVE IInv'
<1> USE DEF Admit, service
<1> DEFINE w == worker'[c]
<1>1. UNCHANGED <<exported, files, mode, cancel, result, scenario>>
  BY DEF files
<1>2. mode # "none"
  BY DEF IInv, RunsInv, Idle
<1>3. /\ Threshold(c) \in 0..MaxMessages
      /\ FailuresHere(c) \subseteq {i \in disk.failed : i[1] = c}
      /\ FailuresHere(c) \subseteq Item
      /\ FailuresHere(c) # {} => Incremental
  <2>1. /\ mem.high[c] \in 0..MaxMessages
        /\ mem.offset[c] \in 0..MaxMessages
        /\ mem.failed \subseteq Item
        /\ mem.failed = disk.failed
    BY StateShape DEF IInv, TypeOK, MemoryInv
  <2>. QED  BY <2>1, MessagesAssumption DEF Threshold, FailuresHere, Max2
<1>4. /\ w.stage \in {"header", "loop"}
      /\ w.stage = "header" => w.next = 0 /\ disk.high[c] = 0
      /\ w.stage = "loop" => w.next = 1
      /\ w.skipBelow = Threshold(c)
      /\ w.retry = FailuresHere(c)
      /\ w.header = FALSE
      /\ \A d \in Channel \ {c} : worker'[d] = worker[d]
  BY DEF IInv, TypeOK, MemoryInv
<1>5. worker' \in [Channel -> Worker]
  <2>1. w \in Worker
    BY <1>3, <1>4, MessagesAssumption DEF Worker, Stage
  <2>. QED  BY <2>1, <1>4 DEF IInv, TypeOK
<1>6. /\ worker[c].next = 0
      /\ result[c] = EmptyResult
      /\ SkipLimit(c) = Threshold(c)
      /\ Due(c)
  BY DEF IInv, WorkerInv, Idle, SkipLimit, Due
<1>7. PlaceInv!(c)
  BY DEF IInv, PlaceInv
<1>8. exported[c] \in Nat /\ \A i \in disk.ready : i[2] \in Nat
  BY StateShape, ItemShape DEF IInv, TypeOK
<1>9. PlaceInv!(c)'
  BY <1>1, <1>2, <1>4, <1>6, <1>7, <1>8, MessagesAssumption
     DEF files, Due, Active, SkipLimit, Progress, Numbers
<1>10. WorkerInv!(c)'
  <2>1. Tried(c)' = {} /\ result'[c].tokens = {}
    BY <1>1, <1>6 DEF Tried, EmptyResult
  <2>2. \A i \in w.retry : i[1] = c /\ Incremental' /\ StatusOf(i)' # "none"
    BY <1>1, <1>3, <1>4 DEF files, IInv, FailureRetryable, StatusOf, Incremental
  <2>. QED  BY <1>1, <1>4, <2>1, <2>2 DEF Active, files
<1>11. \A d \in Channel : PlaceInv!(d)' /\ WorkerInv!(d)'
  <2> TAKE d \in Channel
  <2>1. CASE d = c
    BY <2>1, <1>9, <1>10
  <2>2. CASE d # c
    BY <2>2, <1>1, <1>4, KeptPlace
  <2>. QED  BY <2>1, <2>2
<1>. QED  BY <1>1, <1>2, <1>4, <1>5, <1>11, WorkersMoved

LEMMA SkipMessageStep == ASSUME IInv, NEW c \in Channel, SkipMessage(c) PROVE IInv'
<1> USE DEF SkipMessage, service
<1> DEFINE w == worker[c]
<1>1. UNCHANGED <<exported, files, mode, cancel, result, scenario>>
  BY DEF files
<1>2. mode # "none"
  BY DEF IInv, RunsInv, Idle
<1>3. /\ w \in Worker
      /\ w.next \in Nat /\ w.skipBelow \in Nat
      /\ exported[c] \in 0..MaxMessages
      /\ w.next <= exported[c]
  BY WorkerShape, MessagesAssumption DEF IInv, TypeOK, LoopOver
<1>4. /\ worker'[c] = [w EXCEPT !.next = @ + 1]
      /\ \A d \in Channel \ {c} : worker'[d] = worker[d]
  BY DEF IInv, TypeOK
<1>5. /\ worker'[c].stage = "loop"
      /\ worker'[c].next = w.next + 1
      /\ worker'[c].skipBelow = w.skipBelow
      /\ worker'[c].retry = w.retry
      /\ worker'[c].header = w.header
      /\ worker'[c] \in Worker
  BY <1>3, <1>4, MessagesAssumption DEF Worker
<1>6. worker' \in [Channel -> Worker]
  BY <1>4, <1>5 DEF IInv, TypeOK
<1>7. PlaceInv!(c) /\ WorkerInv!(c) /\ Due(c) /\ Active(c) /\ SkipLimit(c) = w.skipBelow
  BY DEF IInv, PlaceInv, WorkerInv, Due, Active, SkipLimit
<1>8. w.next <= w.skipBelow
  BY DEF Skipped, SkipsOver
<1>9. \A i \in Item : i[2] \in Nat
  BY ItemShape
<1>10. PlaceInv!(c)'
  <2>1. \A i \in disk.ready : i[2] \in Nat
    BY <1>9, StateShape DEF IInv, TypeOK
  <2>. QED  BY <1>1, <1>2, <1>3, <1>5, <1>7, <1>8, <2>1, MessagesAssumption
            DEF files, Due, Active, SkipLimit, Progress, Numbers
<1>11. WorkerInv!(c)'
  <2>1. Tried(c)' = Tried(c) /\ result'[c].tokens = result[c].tokens
    BY <1>1 DEF Tried
  <2>2. \A i \in Tried(c) \union w.retry : i[2] \in Nat /\ SkipsOver(c, i[2])' = SkipsOver(c, i[2])
    BY <1>5, <1>9, WorkerShape DEF SkipsOver, Tried, IInv
  <2>3. \A i \in Item : StatusOf(i)' = StatusOf(i)
    BY <1>1 DEF StatusOf, files
  <2>4. \A i \in w.retry : i[1] = c /\ Incremental' /\ (i[2] >= w.next + 1 => StatusOf(i)' # "none")
    BY <1>1, <1>3, <1>7, <2>2, <2>3, WorkerShape DEF Incremental, IInv
  <2>5. \A i \in Tried(c) : /\ i[1] = c /\ 0 < i[2] /\ i[2] < w.next + 1 /\ ~SkipsOver(c, i[2])'
                            /\ i \notin disk'.ready /\ StatusOf(i)' # "none"
    BY <1>1, <1>3, <1>7, <2>2, <2>3, WorkerShape DEF files, IInv, Tried
  <2>6. \A i \in result[c].tokens : StatusOf(i)' = "acked"
    BY <1>7, <2>3, WorkerShape DEF IInv
  <2>. QED  BY <1>1, <1>3, <1>5, <1>7, <2>1, <2>4, <2>5, <2>6 DEF Active, files
<1>12. \A d \in Channel : PlaceInv!(d)' /\ WorkerInv!(d)'
  <2> TAKE d \in Channel
  <2>1. CASE d = c
    BY <2>1, <1>10, <1>11
  <2>2. CASE d # c
    BY <2>2, <1>1, <1>4, KeptPlace
  <2>. QED  BY <2>1, <2>2
<1>. QED  BY <1>1, <1>2, <1>5, <1>4, <1>6, <1>12, WorkersMoved

-----------------------------------------------------------------------------
(* Deliveries.                                                             *)

\* One receipt gets a status, the others keep theirs.
StatusMoves(c, n, st) ==
    /\ receipt' \in [Channel -> [0..MaxMessages -> ReceiptStatus]]
    /\ receipt'[c][n] = st
    /\ \A d \in Channel, m \in 0..MaxMessages : <<d, m>> # <<c, n>> => receipt'[d][m] = receipt[d][m]

LEMMA StatusMovesBy ==
    ASSUME TypeOK, NEW c \in Channel, NEW n \in 0..MaxMessages, n = worker[c].next,
           NEW st \in ReceiptStatus, SetStatus(c, st)
    PROVE  StatusMoves(c, n, st)
  BY DEF TypeOK, SetStatus, StatusMoves

LEMMA StatusStays ==
    ASSUME TypeOK, NEW c \in Channel, NEW n \in 0..MaxMessages, UNCHANGED receipt
    PROVE  StatusMoves(c, n, receipt[c][n]) /\ receipt[c][n] \in ReceiptStatus
  BY MessagesAssumption DEF TypeOK, StatusMoves

\* A receipt that gets a new status, on an item whose receipt is not about to be
\* retired: what the files say of the destination stays true.
LEMMA ReceiptMoves ==
    ASSUME IInv, NEW c \in Channel, NEW n \in 0..MaxMessages, NEW st \in ReceiptStatus \ {"none"},
           <<c, n>> \notin disk.ready,
           StatusMoves(c, n, st),
           copies' \in [Channel -> [0..MaxMessages -> Nat]],
           \A d \in Channel, m \in 0..MaxMessages :
               <<d, m>> # <<c, n>> => copies'[d][m] = copies[d][m],
           copies'[c][n] >= copies[c][n],
           copies'[c][n] <= 1 \/ <<c, n>> \in exposed,
           st \in {"landed", "partial", "acked"} => copies'[c][n] > 0,
           st \in {"flying", "rejected"} => copies'[c][n] = 0 \/ <<c, n>> \in exposed,
           UNCHANGED <<disk, mem, exposed>>
    PROVE  /\ \A d \in Channel, m \in 0..MaxMessages : copies'[d][m] >= copies[d][m]
           /\ MemoryInv' /\ ReceiptInv' /\ HeaderInv' /\ ReadyInv'
           /\ NoDuplicate' /\ Accounted' /\ EvidenceOrProgress' /\ FailureRetryable'
<1>1. /\ receipt \in [Channel -> [0..MaxMessages -> ReceiptStatus]]
      /\ copies \in [Channel -> [0..MaxMessages -> Nat]]
      /\ disk.ready \subseteq Item /\ disk.failed \subseteq Item
  BY StateShape DEF IInv, TypeOK
<1>2. /\ receipt' \in [Channel -> [0..MaxMessages -> ReceiptStatus]]
      /\ receipt'[c][n] = st
      /\ \A d \in Channel, m \in 0..MaxMessages :
            <<d, m>> # <<c, n>> => receipt'[d][m] = receipt[d][m]
  BY DEF StatusMoves
<1>3. \A d \in Channel, m \in 0..MaxMessages : copies'[d][m] >= copies[d][m]
  <2> TAKE d \in Channel, m \in 0..MaxMessages
  <2>1. copies[d][m] \in Nat
    BY <1>1, MessagesAssumption
  <2>. QED  BY <2>1
<1>4. MemoryInv'
  BY DEF IInv, MemoryInv
<1>5. ReceiptInv'
  <2> SUFFICES ASSUME NEW d \in Channel, NEW m \in 0..MaxMessages PROVE ReceiptInv!(d, m)'
    BY DEF ReceiptInv
  <2>. QED  BY <1>2 DEF IInv, ReceiptInv
<1>6. HeaderInv' /\ NoDuplicate' /\ EvidenceOrProgress'
  <2>1. HeaderInv'
    <3> SUFFICES ASSUME NEW d \in Channel, copies'[d][0] > 0, receipt'[d][0] = "none"
                 PROVE  disk.high[d] > 0
      BY DEF HeaderInv
    <3>1. 0 \in 0..MaxMessages /\ <<d, 0>> # <<c, n>>
      BY <1>2, MessagesAssumption
    <3>2. copies[d][0] > 0 /\ receipt[d][0] = "none"
      BY <1>2, <3>1
    <3>. QED  BY <3>2 DEF IInv, HeaderInv
  <2>2. NoDuplicate'
    BY <1>1 DEF IInv, NoDuplicate
  <2>3. EvidenceOrProgress'
    BY <1>2 DEF IInv, EvidenceOrProgress, Progress
  <2>. QED  BY <2>1, <2>2, <2>3
<1>7. Accounted'
  <2> SUFFICES ASSUME NEW d \in Channel, NEW m \in 1..MaxMessages, m <= Progress(d)
               PROVE copies'[d][m] > 0 \/ <<d, m>> \in disk.failed
    BY DEF Accounted, Progress
  <2>0. m \in 0..MaxMessages
    BY MessagesAssumption
  <2>1. copies[d][m] \in Nat /\ copies'[d][m] \in Nat /\ copies'[d][m] >= copies[d][m]
    BY ZenonT(30), <1>1, <1>3, <2>0
  <2>2. copies[d][m] > 0 \/ <<d, m>> \in disk.failed
    BY DEF IInv, Accounted
  <2>. QED  BY <2>1, <2>2
<1>8. \A i \in Item : i # <<c, n>> => StatusOf(i)' = StatusOf(i)
  <2> TAKE i \in Item
  <2>1. i[1] \in Channel /\ i[2] \in 0..MaxMessages /\ i = <<i[1], i[2]>>
    BY ItemShape
  <2>. QED  BY <2>1, <1>2 DEF StatusOf
<1>9. ReadyInv'
  BY <1>1, <1>8 DEF IInv, ReadyInv
<1>10. FailureRetryable'
  BY <1>1, <1>2, <1>8 DEF IInv, FailureRetryable, StatusOf
<1>. QED  BY <1>2, <1>3, <1>4, <1>5, <1>6, <1>7, <1>9, <1>10

\* A worker keeps its place when receipts that exist only go on, and none that is
\* acknowledged changes.
LEMMA PlaceStays ==
    ASSUME IInv, NEW d \in Channel, worker'[d] = worker[d], result'[d] = result[d],
           UNCHANGED <<exported, disk, mem, exposed, mode>>,
           \A n \in 0..MaxMessages :
               /\ receipt[d][n] # "none" => receipt'[d][n] # "none"
               /\ receipt[d][n] = "acked" => receipt'[d][n] = "acked"
               /\ copies[d][n] > 0 => copies'[d][n] > 0
    PROVE  PlaceInv!(d)' /\ WorkerInv!(d)'
<1>1. PlaceInv!(d) /\ WorkerInv!(d)
  BY DEF IInv, PlaceInv, WorkerInv
<1>2. PlaceInv!(d)'
  BY <1>1, MessagesAssumption DEF Due, Active, SkipLimit, Threshold, Progress, Numbers
<1>3. ASSUME Active(d) PROVE WorkerInv!(d)'
  <2>1. \A i \in Item : i[1] = d => /\ StatusOf(i) # "none" => StatusOf(i)' # "none"
                                    /\ StatusOf(i) = "acked" => StatusOf(i)' = "acked"
    BY ItemShape DEF StatusOf
  <2>2. worker[d].stage = "waiting" => InHand(d) \in Item /\ InHand(d)[1] = d
    <3>1. worker[d].next \in Nat /\ exported[d] \in 0..MaxMessages
      BY SMTT(30), WorkerShape, MessagesAssumption DEF IInv, TypeOK
    <3>. QED  BY <1>1, <1>3, <3>1, ItemShape, MessagesAssumption DEF InHand
  <2>3. worker[d].retry \subseteq Item /\ Tried(d) \subseteq Item /\ result[d].tokens \subseteq Item
    BY WorkerShape DEF IInv, Tried
  <2>4. worker[d].header => receipt'[d][0] = "acked"
    BY <1>1, <1>3, MessagesAssumption
  <2>5. /\ Tried(d)' = Tried(d)
        /\ InHand(d)' = InHand(d)
        /\ Skipped(d)' = Skipped(d)
        /\ Incremental' = Incremental
        /\ \A n : SkipsOver(d, n)' = SkipsOver(d, n)
    BY DEF Tried, InHand, Skipped, SkipsOver, Incremental
  <2>6. \A i \in worker[d].retry : /\ i[1] = d /\ Incremental
                                   /\ i[2] >= worker[d].next => StatusOf(i)' # "none"
    BY <1>1, <1>3, <2>1, <2>3
  <2>7. worker[d].stage = "waiting" => StatusOf(InHand(d))' # "none"
    <3>1. worker[d].stage = "waiting" => /\ worker[d].next \in 0..MaxMessages
                                         /\ receipt[d][worker[d].next] # "none"
      BY <1>1, <1>3, <2>2, ItemShape DEF StatusOf, InHand
    <3>. QED  BY <3>1 DEF StatusOf, InHand
  <2>8. \A i \in Tried(d) : /\ i[1] = d /\ 0 < i[2] /\ i[2] < worker[d].next /\ ~SkipsOver(d, i[2])
                            /\ i \notin disk.ready /\ StatusOf(i)' # "none"
    BY <1>1, <1>3, <2>1, <2>3
  <2>9. \A i \in result[d].tokens : StatusOf(i)' = "acked"
    BY <1>1, <1>3, <2>1, <2>3, WorkerShape DEF Tried, IInv
  <2>. QED  BY <1>1, <1>3, <2>4, <2>5, <2>6, <2>7, <2>8, <2>9 DEF Active
<1>4. ASSUME ~Active(d) PROVE WorkerInv!(d)'
  BY <1>1, <1>4 DEF Active
<1>. QED  BY <1>2, <1>3, <1>4

\* The item a worker delivers is never one whose receipt is about to be retired.
LEMMA InHandFree ==
    ASSUME IInv, NEW c \in Channel, Delivering(c) \/ worker[c].stage = "waiting"
    PROVE  /\ mode # "none"
           /\ Due(c) /\ Active(c) /\ SkipLimit(c) = worker[c].skipBelow
           /\ worker[c].next \in 0..MaxMessages
           /\ worker[c].next <= exported[c] \/ worker[c].next = 0
           /\ worker[c].next = 0 \/ ~Skipped(c)
           /\ InHand(c) \in Item
           /\ InHand(c) \notin disk.ready
<1>1. mode # "none"
  BY DEF IInv, RunsInv, Idle, Delivering
<1>2. Due(c) /\ Active(c) /\ SkipLimit(c) = worker[c].skipBelow
  BY DEF Delivering, Due, Active, SkipLimit
<1>3. PlaceInv!(c) /\ WorkerInv!(c)
  BY DEF IInv, PlaceInv, WorkerInv
<1>4. worker[c].next \in Nat /\ exported[c] \in 0..MaxMessages /\ worker[c].skipBelow \in Nat
  BY WorkerShape, MessagesAssumption DEF IInv, TypeOK
<1>5. /\ worker[c].next <= exported[c] \/ worker[c].next = 0
      /\ worker[c].next = 0 \/ ~Skipped(c)
  BY <1>2, <1>3, <1>4 DEF Delivering, LoopOver
<1>6. worker[c].next \in 0..MaxMessages
  BY <1>4, <1>5, MessagesAssumption
<1>7. InHand(c) \in Item /\ InHand(c) = <<c, worker[c].next>>
  BY <1>6, ItemShape DEF InHand
<1>8. InHand(c) \notin disk.ready
  <2> SUFFICES ASSUME InHand(c) \in disk.ready PROVE FALSE
    OBVIOUS
  <2>1. worker[c].next > 0
    BY <1>2, <1>3, <1>4, <1>7 DEF IInv, ReadyInv
  <2>2. mode = "resume" /\ worker[c].next <= worker[c].skipBelow
    BY <1>2, <1>3, <1>4, <1>7
  <2>3. <<c, worker[c].next>> \in worker[c].retry
    BY <1>5, <2>1, <2>2 DEF Skipped, SkipsOver
  <2>. QED  BY <1>2, <1>3, <2>2, <2>3 DEF Incremental
<1>. QED  BY <1>1, <1>2, <1>5, <1>6, <1>7, <1>8

\* The destination does not hold an item that is sent, unless it was exposed.
LEMMA SendIsNew ==
    ASSUME IInv, NEW c \in Channel, Send(c)
    PROVE  copies[c][worker[c].next] = 0 \/ InHand(c) \in exposed
<1> DEFINE n == worker[c].next
<1>1. /\ Due(c) /\ Active(c) /\ SkipLimit(c) = worker[c].skipBelow
      /\ n \in 0..MaxMessages /\ worker[c].skipBelow \in Nat
      /\ n = 0 \/ ~Skipped(c)
      /\ InHand(c) = <<c, n>>
  BY InHandFree, WorkerShape, MessagesAssumption DEF Send, InHand, IInv
<1>2. copies[c][n] \in Nat
  BY <1>1 DEF IInv, TypeOK
<1>3. CASE StatusOf(InHand(c)) = "rejected"
  BY <1>1, <1>3 DEF IInv, ReceiptInv, StatusOf
<1>4. CASE StatusOf(InHand(c)) = "none" /\ InHand(c) \notin worker[c].retry /\ n = 0
  BY <1>1, <1>2, <1>4 DEF IInv, HeaderInv, WorkerInv, StatusOf
<1>5. CASE StatusOf(InHand(c)) = "none" /\ InHand(c) \notin worker[c].retry /\ n # 0
  <2>1. n > SkipLimit(c)
    BY <1>1, <1>5 DEF Skipped, SkipsOver
  <2>2. n \in 1..MaxMessages
    BY <1>1, <1>5, MessagesAssumption
  <2>3. n <= Progress(c) => InHand(c) \in exposed
    BY <1>1, <2>1, <2>2 DEF IInv, PlaceInv, Numbers
  <2>. QED  BY <1>1, <1>2, <1>5, <2>2, <2>3 DEF IInv, EvidenceOrProgress, StatusOf
<1>. QED  BY <1>3, <1>4, <1>5 DEF Send

\* How a delivery ends: resolved, with only its first part, or failed.
Ending == {"resolved", "partial", "failed"}
Ended(c, how) == Outcome(c, how # "failed", how = "resolved")

LEMMA OutcomeEnded ==
    ASSUME NEW c
    PROVE  /\ Outcome(c, TRUE, TRUE) => Ended(c, "resolved")
           /\ Outcome(c, TRUE, FALSE) => Ended(c, "partial")
           /\ Outcome(c, FALSE, FALSE) => Ended(c, "failed")
  BY DEF Ended, Outcome, ResultWith

\* What the end of a delivery does to its worker and to the channel's result.
LEMMA OutcomeShape ==
    ASSUME TypeOK, NEW c \in Channel, NEW how \in Ending, Ended(c, how),
           NEW n \in 0..MaxMessages, n = worker[c].next
    PROVE  /\ worker' \in [Channel -> Worker]
           /\ result' \in [Channel -> Result]
           /\ \A d \in Channel \ {c} : worker'[d] = worker[d] /\ result'[d] = result[d]
           /\ worker'[c].stage = "loop"
           /\ worker'[c].next = n + 1
           /\ worker'[c].skipBelow = worker[c].skipBelow
           /\ worker'[c].retry = worker[c].retry
           /\ n = 0 => (worker'[c].header => how = "resolved")
           /\ n # 0 => worker'[c].header = worker[c].header
           /\ n = 0 => result'[c] = result[c]
           /\ n # 0 => \A i : /\ i \in result'[c].failed <=>
                                   i \in result[c].failed \/ (how # "resolved" /\ i = <<c, n>>)
                              /\ i \in result'[c].tokens <=>
                                   i \in result[c].tokens \/ (how = "resolved" /\ i = <<c, n>>)
                              /\ i \in result'[c].marked <=>
                                   i \in result[c].marked \/ (how # "failed" /\ i = <<c, n>>)
           /\ n # 0 => result'[c].count =
                         IF how # "failed" /\ <<c, n>> \notin mem.marked \union result[c].marked
                         THEN result[c].count + 1 ELSE result[c].count
<1> DEFINE w == worker[c]
           r == result[c]
<1>1. w \in Worker /\ w.next = n /\ <<c, n>> \in Item /\ InHand(c) = <<c, n>>
  BY ItemShape, WorkerShape DEF InHand
<1>2. worker \in [Channel -> Worker] /\ result \in [Channel -> Result]
  BY DEF TypeOK
<1>3. ASSUME NEW f, f = [worker EXCEPT ![c].stage = "loop", ![c].next = @ + 1]
      PROVE  /\ f \in [Channel -> Worker]
             /\ \A d \in Channel \ {c} : f[d] = worker[d]
             /\ f[c] = [w EXCEPT !.stage = "loop", !.next = n + 1]
  <2>1. ASSUME NEW v \in Worker, NEW k \in 0..MaxMessages + 1
        PROVE  [v EXCEPT !.stage = "loop", !.next = k] \in Worker
    BY DEF Worker, Stage
  <2>2. n + 1 \in 0..MaxMessages + 1
    BY <1>1, MessagesAssumption
  <2>3. [w EXCEPT !.stage = "loop", !.next = n + 1] \in Worker
    BY <1>1, <2>1, <2>2
  <2>. QED  BY <1>2, <1>3, <2>3
<1>4. PICK f : f = [worker EXCEPT ![c].stage = "loop", ![c].next = @ + 1]
  OBVIOUS
<1>5. f \in [Channel -> Worker] /\ f[c].stage = "loop" /\ f[c].next = n + 1
      /\ f[c].skipBelow = w.skipBelow /\ f[c].retry = w.retry /\ f[c].header = w.header
      /\ \A d \in Channel \ {c} : f[d] = worker[d]
  BY <1>1, <1>3, <1>4 DEF Worker
<1>6. CASE n = 0
  <2>1. worker' = [f EXCEPT ![c].header = (how = "resolved")] /\ result' = result
    BY <1>1, <1>4, <1>6 DEF Ended, Outcome
  <2>2. ASSUME NEW v \in Worker PROVE [v EXCEPT !.header = (how = "resolved")] \in Worker
    BY DEF Worker
  <2>3. /\ worker' \in [Channel -> Worker]
        /\ worker'[c] = [f[c] EXCEPT !.header = (how = "resolved")]
        /\ \A d \in Channel \ {c} : worker'[d] = f[d]
    BY <1>5, <2>1, <2>2
  <2>. QED  BY <1>2, <1>5, <1>6, <2>1, <2>3 DEF Worker
<1>7. CASE n # 0
  <2>1. /\ worker' = f
        /\ result' = [result EXCEPT ![c] = ResultWith(c, how # "failed", how = "resolved")]
    BY <1>1, <1>4, <1>7 DEF Ended, Outcome
  <2>2. r.failed \subseteq Item /\ r.tokens \subseteq Item /\ r.marked \subseteq Item /\ r.count \in Nat
    BY WorkerShape
  <2>3. PICK new : /\ new = [failed |-> IF how = "resolved" THEN r.failed ELSE r.failed \union {<<c, n>>},
                             marked |-> IF how # "failed" THEN r.marked \union {<<c, n>>} ELSE r.marked,
                             tokens |-> IF how = "resolved" THEN r.tokens \union {<<c, n>>} ELSE r.tokens,
                             count |-> IF how # "failed" /\ ~(<<c, n>> \in mem.marked \union r.marked)
                                       THEN r.count + 1 ELSE r.count]
                   /\ result' = [result EXCEPT ![c] = new]
    BY <1>1, <2>1 DEF ResultWith
  <2>4. new \in Result
    BY <1>1, <2>2, <2>3 DEF Result
  <2>5. /\ result' \in [Channel -> Result]
        /\ result'[c] = new
        /\ \A d \in Channel \ {c} : result'[d] = result[d]
    BY <1>2, <2>3, <2>4
  <2>. QED  BY <1>5, <1>7, <2>1, <2>3, <2>5
<1>. QED  BY <1>6, <1>7

\* The end of a delivery: its item is behind the worker, in the destination or recorded
\* as failed.
LEMMA OutcomeStep ==
    ASSUME IInv, NEW c \in Channel, NEW how \in Ending, Ended(c, how),
           NEW n \in 0..MaxMessages, n = worker[c].next,
           NEW st \in ReceiptStatus \ {"none"},
           Delivering(c) \/ worker[c].stage = "waiting",
           StatusMoves(c, n, st),
           how = "resolved" => st = "acked",
           st \in {"landed", "partial", "acked"} => copies[c][n] > 0,
           st \in {"flying", "rejected"} => copies[c][n] = 0 \/ <<c, n>> \in exposed,
           UNCHANGED <<exported, copies, disk, mem, mode, cancel, scenario, exposed>>
    PROVE  IInv'
<1>1. /\ mode # "none" /\ Due(c) /\ Active(c) /\ SkipLimit(c) = worker[c].skipBelow
      /\ InHand(c) = <<c, n>> /\ <<c, n>> \in Item
      /\ n <= exported[c] \/ n = 0
      /\ n = 0 \/ ~Skipped(c)
      /\ <<c, n>> \notin disk.ready
  BY InHandFree DEF InHand
<1>2. /\ copies \in [Channel -> [0..MaxMessages -> Nat]]
      /\ exported[c] \in Nat
      /\ copies[c][n] \in Nat
      /\ worker[c].skipBelow \in Nat
  <2>1. /\ copies \in [Channel -> [0..MaxMessages -> Nat]]
        /\ exported \in [Channel -> 0..MaxMessages]
    BY DEF IInv, TypeOK
  <2>2. worker[c].skipBelow \in Nat
    BY WorkerShape DEF IInv, TypeOK
  <2>. QED  BY <2>1, <2>2, MessagesAssumption
<1>3. copies[c][n] <= 1 \/ <<c, n>> \in exposed
  BY <1>1 DEF IInv, NoDuplicate
<1>4. /\ MemoryInv' /\ ReceiptInv' /\ HeaderInv' /\ ReadyInv'
      /\ NoDuplicate' /\ Accounted' /\ EvidenceOrProgress' /\ FailureRetryable'
  <2>1. copies'[c][n] >= copies[c][n]
    BY <1>2
  <2>. QED  BY <1>1, <1>2, <1>3, <2>1, ReceiptMoves
<1>5. /\ worker' \in [Channel -> Worker]
      /\ result' \in [Channel -> Result]
      /\ \A d \in Channel \ {c} : worker'[d] = worker[d] /\ result'[d] = result[d]
      /\ worker'[c].stage = "loop"
      /\ worker'[c].next = n + 1
      /\ worker'[c].skipBelow = worker[c].skipBelow
      /\ worker'[c].retry = worker[c].retry
      /\ n = 0 => (worker'[c].header => how = "resolved")
      /\ n # 0 => worker'[c].header = worker[c].header
      /\ n = 0 => result'[c] = result[c]
      /\ n # 0 => \A i : /\ i \in result'[c].failed <=>
                              i \in result[c].failed \/ (how # "resolved" /\ i = <<c, n>>)
                         /\ i \in result'[c].tokens <=>
                              i \in result[c].tokens \/ (how = "resolved" /\ i = <<c, n>>)
  BY OutcomeShape DEF IInv
<1>6. TypeOK' /\ ShapeInv'
  BY <1>5 DEF IInv, TypeOK, ShapeInv, StatusMoves
<1>7. RunsInv'
  <2>1. \A d \in Channel : worker'[d].stage \in {"failed", "stopped"} =>
                             worker[d].stage \in {"failed", "stopped"}
    BY <1>5
  <2>. QED  BY <1>1, <2>1 DEF IInv, RunsInv, MayStop
<1>8. PlaceInv!(c) /\ WorkerInv!(c)
  BY DEF IInv, PlaceInv, WorkerInv
<1>9. PlaceInv!(c)'
  <2>1. \A i \in disk.ready : i[2] \in Nat
    BY StateShape, ItemShape DEF IInv, TypeOK
  <2>2. SkipLimit(c)' = SkipLimit(c)
    BY <1>1, <1>5 DEF SkipLimit
  <2>3. \A m \in Numbers : m < n + 1 \/ m <= SkipLimit(c) =>
           copies[c][m] > 0 \/ <<c, m>> \in disk.failed \union result'[c].failed
    <3> SUFFICES ASSUME NEW m \in Numbers, m < n + 1 \/ m <= SkipLimit(c)
                 PROVE  copies[c][m] > 0 \/ <<c, m>> \in disk.failed \union result'[c].failed
      OBVIOUS
    <3>1. CASE m = n
      BY <1>1, <1>5, <3>1, MessagesAssumption DEF Numbers, Ending
    <3>2. CASE m # n
      <4>1. m < n \/ m <= SkipLimit(c)
        BY <1>1, <3>2, MessagesAssumption DEF Numbers
      <4>. QED  BY <1>1, <1>5, <1>8, <4>1
    <3>. QED  BY <3>1, <3>2
  <2>4. \A m \in Numbers : m >= n + 1 /\ m > SkipLimit(c) /\ m <= Progress(c) => <<c, m>> \in exposed
    BY <1>1, <1>8, MessagesAssumption DEF Numbers
  <2>5. \A i \in disk.ready : i[1] = c => i[2] < n + 1 \/ (mode = "resume" /\ i[2] <= SkipLimit(c))
    BY <1>1, <1>8, <2>1
  <2>6. n + 1 <= exported[c] + 1
    BY <1>1, <1>2
  <2>. QED  BY <1>1, <1>5, <1>8, <2>2, <2>3, <2>4, <2>5, <2>6 DEF Progress
<1>10. WorkerInv!(c)'
  <2>1. \A i \in Item : i # <<c, n>> => StatusOf(i)' = StatusOf(i)
    <3> TAKE i \in Item
    <3>1. i[1] \in Channel /\ i[2] \in 0..MaxMessages /\ i = <<i[1], i[2]>>
      BY ItemShape
    <3>. QED  BY <3>1 DEF StatusOf, StatusMoves
  <2>2. StatusOf(<<c, n>>)' = st
    BY DEF StatusOf, StatusMoves
  <2>3. /\ worker[c].retry \subseteq Item /\ Tried(c) \subseteq Item /\ result[c].tokens \subseteq Tried(c)
        /\ \A i \in Item : i[2] \in Nat
    BY WorkerShape, ItemShape DEF IInv, Tried
  <2>4. \A m : SkipsOver(c, m)' = SkipsOver(c, m)
    BY <1>5 DEF SkipsOver
  <2>5. \A i \in worker[c].retry : /\ i[1] = c /\ Incremental'
                                   /\ i[2] >= n + 1 => StatusOf(i)' # "none"
    BY <1>1, <1>8, <2>1, <2>3 DEF Incremental
  <2>6. worker'[c].header => receipt'[c][0] = "acked"
    <3>1. CASE n = 0
      BY <1>5, <3>1 DEF StatusMoves
    <3>2. CASE n # 0
      <4>1. worker[c].header => receipt[c][0] = "acked"
        BY <1>1, <1>8
      <4>2. 0 \in 0..MaxMessages /\ <<c, 0>> # <<c, n>>
        BY <3>2, MessagesAssumption
      <4>. QED  BY <1>5, <3>2, <4>1, <4>2 DEF StatusMoves
    <3>. QED  BY <3>1, <3>2
  <2>7. \A i \in Tried(c)' : i \in Tried(c) \/ (n # 0 /\ i = <<c, n>>)
    BY <1>5 DEF Tried
  <2>8. \A i \in Tried(c) : /\ i[1] = c /\ 0 < i[2] /\ i[2] < n + 1 /\ ~SkipsOver(c, i[2])
                            /\ i \notin disk.ready /\ StatusOf(i)' # "none"
    <3> TAKE i \in Tried(c)
    <3>1. i[1] = c /\ 0 < i[2] /\ i[2] < n /\ ~SkipsOver(c, i[2]) /\ i \notin disk.ready
          /\ StatusOf(i) # "none" /\ i \in Item /\ i[2] \in Nat
      BY <1>1, <1>8, <2>3
    <3>. QED  BY <1>1, <2>1, <3>1
  <2>9. n # 0 => /\ 0 < n /\ n < n + 1 /\ ~SkipsOver(c, n)
                 /\ <<c, n>> \notin disk.ready /\ StatusOf(<<c, n>>)' # "none"
    BY <1>1, <2>2 DEF Skipped
  <2>10. \A i \in result'[c].tokens : StatusOf(i)' = "acked"
    <3>1. \A i \in result[c].tokens : StatusOf(i)' = "acked"
      <4> TAKE i \in result[c].tokens
      <4>1. i \in Item /\ i[2] < n /\ i[2] \in Nat /\ StatusOf(i) = "acked"
        BY <1>1, <1>8, <2>3
      <4>. QED  BY <1>1, <2>1, <4>1
    <3>2. \A i \in result'[c].tokens : i \in result[c].tokens \/ (how = "resolved" /\ i = <<c, n>>)
      BY <1>5
    <3>. QED  BY <2>2, <3>1, <3>2
  <2>11. \A i \in Tried(c)' : /\ i[1] = c /\ 0 < i[2] /\ i[2] < n + 1 /\ ~SkipsOver(c, i[2])
                              /\ i \notin disk.ready /\ StatusOf(i)' # "none"
    BY <2>7, <2>8, <2>9
  <2>. QED  BY <1>1, <1>5, <2>4, <2>5, <2>6, <2>10, <2>11 DEF Active
<1>11. \A d \in Channel : PlaceInv!(d)' /\ WorkerInv!(d)'
  <2> TAKE d \in Channel
  <2>1. CASE d = c
    BY <2>1, <1>9, <1>10
  <2>2. CASE d # c
    <3>1. \A m \in 0..MaxMessages : receipt'[d][m] = receipt[d][m]
      BY <2>2 DEF StatusMoves
    <3>. QED  BY <2>2, <3>1, <1>5, PlaceStays
  <2>. QED  BY <2>1, <2>2
<1>12. PlaceInv' /\ WorkerInv'
  BY <1>11 DEF PlaceInv, WorkerInv
<1>. QED  BY <1>4, <1>6, <1>7, <1>12 DEF IInv

\* deliver_part settles an item without sending it.
LEMMA KnownStep == ASSUME IInv, NEW c \in Channel, Known(c) PROVE IInv'
<1>1. PICK n \in 0..MaxMessages : n = worker[c].next
  BY InHandFree DEF Known
<1>2. /\ Active(c) /\ Delivering(c) /\ InHand(c) = <<c, n>>
      /\ UNCHANGED <<exported, copies, disk, mem, mode, cancel, scenario, exposed>>
  BY <1>1, InHandFree DEF Known, InHand
<1>3. /\ receipt[c][n] \in {"landed", "partial", "acked"} => copies[c][n] > 0
      /\ receipt[c][n] \in {"flying", "rejected"} => copies[c][n] = 0 \/ <<c, n>> \in exposed
  BY DEF IInv, ReceiptInv
<1>4. TypeOK
  BY DEF IInv
<1>5. CASE receipt[c][n] \in {"acked", "landed", "partial"} /\ Outcome(c, TRUE, TRUE)
           /\ StatusMoves(c, n, "acked")
  <2>1. Ended(c, "resolved")
    BY <1>5, OutcomeEnded
  <2>. QED  BY <1>1, <1>2, <1>3, <1>5, <2>1, OutcomeStep DEF Ending, ReceiptStatus
<1>6. CASE receipt[c][n] # "none" /\ Outcome(c, FALSE, FALSE) /\ UNCHANGED receipt
  <2>1. Ended(c, "failed")
    BY <1>6, OutcomeEnded
  <2>2. StatusMoves(c, n, receipt[c][n]) /\ receipt[c][n] \in ReceiptStatus \ {"none"}
    BY <1>4, <1>6, StatusStays
  <2>. QED  BY <1>1, <1>2, <1>3, <2>1, <2>2, OutcomeStep DEF Ending
<1>7. CASE receipt[c][n] = "partial" /\ Outcome(c, TRUE, FALSE) /\ UNCHANGED receipt
  <2>1. Ended(c, "partial")
    BY <1>7, OutcomeEnded
  <2>2. StatusMoves(c, n, receipt[c][n]) /\ receipt[c][n] \in ReceiptStatus \ {"none"}
    BY <1>4, <1>7, StatusStays
  <2>. QED  BY <1>1, <1>2, <1>3, <2>1, <2>2, OutcomeStep DEF Ending
<1>8. StatusOf(InHand(c)) = receipt[c][n]
  BY <1>2 DEF StatusOf
<1>9. InHand(c) \in worker[c].retry => receipt[c][n] # "none"
  <2>1. WorkerInv!(c)
    BY DEF IInv, WorkerInv
  <2>. QED  BY <1>1, <1>2, <1>8, <2>1
<1>10. ASSUME Outcome(c, TRUE, TRUE), UNCHANGED receipt, receipt[c][n] = "acked" PROVE IInv'
  BY <1>4, <1>5, <1>10, StatusStays
<1>11. ASSUME Outcome(c, TRUE, TRUE), SetStatus(c, "acked"), receipt[c][n] \in {"landed", "partial"}
       PROVE IInv'
  BY <1>1, <1>4, <1>5, <1>11, StatusMovesBy DEF ReceiptStatus
<1>. QED  BY <1>6, <1>7, <1>8, <1>9, <1>10, <1>11 DEF Known

\* The call of a delivery returns.
LEMMA AnswerStep == ASSUME IInv, NEW c \in Channel, Answer(c) PROVE IInv'
<1>1. PICK n \in 0..MaxMessages : n = worker[c].next
  BY InHandFree DEF Answer
<1>2. /\ worker[c].stage = "waiting" /\ Active(c) /\ InHand(c) = <<c, n>>
      /\ UNCHANGED <<exported, copies, disk, mem, mode, cancel, scenario, exposed>>
  BY <1>1, InHandFree DEF Answer, InHand
<1>3. /\ receipt[c][n] \in {"landed", "partial", "acked"} => copies[c][n] > 0
      /\ receipt[c][n] \in {"flying", "rejected"} => copies[c][n] = 0 \/ <<c, n>> \in exposed
  BY DEF IInv, ReceiptInv
<1>4. TypeOK
  BY DEF IInv
<1>5. StatusOf(InHand(c)) = receipt[c][n] /\ receipt[c][n] # "none"
  <2>1. WorkerInv!(c)
    BY DEF IInv, WorkerInv
  <2>. QED  BY <1>2, <2>1 DEF StatusOf
<1>6. CASE receipt[c][n] = "landed" /\ Outcome(c, TRUE, TRUE) /\ SetStatus(c, "acked")
  <2>1. Ended(c, "resolved") /\ StatusMoves(c, n, "acked")
    BY <1>1, <1>4, <1>6, OutcomeEnded, StatusMovesBy DEF ReceiptStatus
  <2>. QED  BY <1>1, <1>2, <1>3, <1>6, <2>1, OutcomeStep DEF Ending, ReceiptStatus
<1>7. CASE receipt[c][n] = "landed" /\ Outcome(c, TRUE, FALSE) /\ SetStatus(c, "partial")
  <2>1. Ended(c, "partial") /\ StatusMoves(c, n, "partial")
    BY <1>1, <1>4, <1>7, OutcomeEnded, StatusMovesBy DEF ReceiptStatus
  <2>. QED  BY <1>1, <1>2, <1>3, <1>7, <2>1, OutcomeStep DEF Ending, ReceiptStatus
<1>8. CASE receipt[c][n] = "flying" /\ Outcome(c, FALSE, FALSE) /\ SetStatus(c, "rejected")
  <2>1. Ended(c, "failed") /\ StatusMoves(c, n, "rejected")
    BY <1>1, <1>4, <1>8, OutcomeEnded, StatusMovesBy DEF ReceiptStatus
  <2>. QED  BY <1>1, <1>2, <1>3, <1>8, <2>1, OutcomeStep DEF Ending, ReceiptStatus
<1>9. CASE Outcome(c, FALSE, FALSE) /\ UNCHANGED receipt
  <2>1. Ended(c, "failed")
    BY <1>9, OutcomeEnded
  <2>2. StatusMoves(c, n, receipt[c][n]) /\ receipt[c][n] \in ReceiptStatus \ {"none"}
    BY <1>4, <1>5, <1>9, StatusStays
  <2>. QED  BY <1>1, <1>2, <1>3, <2>1, <2>2, OutcomeStep DEF Ending
<1>. QED  BY <1>5, <1>6, <1>7, <1>8, <1>9 DEF Answer

\* deliver_part dispatches.
LEMMA SendStep == ASSUME IInv, NEW c \in Channel, Send(c) PROVE IInv'
<1>1. PICK n \in 0..MaxMessages : n = worker[c].next
  BY InHandFree DEF Send
<1>2. /\ Delivering(c) /\ Active(c) /\ Due(c) /\ InHand(c) = <<c, n>> /\ <<c, n>> \in Item
      /\ mode # "none" /\ <<c, n>> \notin disk.ready
      /\ SkipLimit(c) = worker[c].skipBelow
      /\ n <= exported[c] \/ n = 0
      /\ n = 0 \/ ~Skipped(c)
      /\ UNCHANGED <<exported, copies, disk, mem, mode, cancel, result, scenario, exposed>>
  BY <1>1, InHandFree DEF Send, InHand
<1>3. copies[c][n] = 0 \/ <<c, n>> \in exposed
  BY <1>1, <1>2, SendIsNew
<1>4. /\ copies \in [Channel -> [0..MaxMessages -> Nat]]
      /\ copies[c][n] \in Nat
      /\ worker \in [Channel -> Worker] /\ worker[c] \in Worker
  BY DEF IInv, TypeOK
<1>5. StatusMoves(c, n, "flying")
  BY <1>1, StatusMovesBy DEF Send, IInv, ReceiptStatus
<1>6. /\ MemoryInv' /\ ReceiptInv' /\ HeaderInv' /\ ReadyInv'
      /\ NoDuplicate' /\ Accounted' /\ EvidenceOrProgress' /\ FailureRetryable'
  <2>1. copies'[c][n] >= copies[c][n] /\ (copies[c][n] <= 1 \/ <<c, n>> \in exposed)
    BY <1>2, <1>3, <1>4
  <2>2. "flying" \in ReceiptStatus \ {"none"}
    BY DEF ReceiptStatus
  <2>. QED  BY <1>2, <1>3, <1>4, <1>5, <2>1, <2>2, ReceiptMoves
<1>7. /\ worker' \in [Channel -> Worker]
      /\ worker'[c].stage = "waiting"
      /\ worker'[c].next = n
      /\ worker'[c].skipBelow = worker[c].skipBelow
      /\ worker'[c].retry = worker[c].retry
      /\ worker'[c].header = worker[c].header
      /\ \A d \in Channel \ {c} : worker'[d] = worker[d]
  <2>1. ASSUME NEW v \in Worker
        PROVE  [v EXCEPT !.stage = "waiting"] \in Worker
    BY DEF Worker, Stage
  <2>2. worker' = [worker EXCEPT ![c].stage = "waiting"]
    BY DEF Send
  <2>3. worker'[c] = [worker[c] EXCEPT !.stage = "waiting"] /\ worker'[c] \in Worker
    BY <1>4, <2>1, <2>2
  <2>. QED  BY <1>1, <1>4, <2>2, <2>3 DEF Worker
<1>8. TypeOK' /\ ShapeInv'
  BY <1>2, <1>5, <1>7 DEF IInv, TypeOK, ShapeInv, StatusMoves
<1>9. RunsInv'
  <2>1. \A d \in Channel : worker'[d].stage \in {"failed", "stopped"} =>
                             worker[d].stage \in {"failed", "stopped"}
    BY <1>7
  <2>. QED  BY <1>2, <2>1 DEF IInv, RunsInv, MayStop
<1>10. PlaceInv!(c) /\ WorkerInv!(c)
  BY DEF IInv, PlaceInv, WorkerInv
<1>11. PlaceInv!(c)'
  BY <1>1, <1>2, <1>7, <1>10 DEF Due, Active, SkipLimit, Progress
<1>12. WorkerInv!(c)'
  <2>1. \A i \in Item : StatusOf(i) # "none" \/ i = <<c, n>> => StatusOf(i)' # "none"
    BY <1>5, ItemShape DEF StatusOf, StatusMoves
  <2>2. \A i \in Item : i # <<c, n>> /\ StatusOf(i) = "acked" => StatusOf(i)' = "acked"
    BY <1>5, ItemShape DEF StatusOf, StatusMoves
  <2>3. /\ worker[c].retry \subseteq Item /\ Tried(c) \subseteq Item /\ result[c].tokens \subseteq Tried(c)
        /\ \A i \in Item : i[2] \in Nat
    BY WorkerShape, ItemShape DEF IInv, Tried
  <2>4. \A m : SkipsOver(c, m)' = SkipsOver(c, m)
    BY <1>7 DEF SkipsOver
  <2>5. worker'[c].header => receipt'[c][0] = "acked" /\ n > 0
    <3>1. worker[c].header => receipt[c][0] = "acked" /\ n > 0
      BY <1>1, <1>2, <1>10
    <3>2. n > 0 => 0 \in 0..MaxMessages /\ <<c, 0>> # <<c, n>>
      BY MessagesAssumption
    <3>. QED  BY <1>5, <1>7, <3>1, <3>2 DEF StatusMoves
  <2>6. StatusOf(InHand(c))' # "none" /\ (n = 0 \/ ~Skipped(c)')
    BY <1>1, <1>2, <1>5, <1>7, <2>4 DEF StatusOf, InHand, StatusMoves, Skipped
  <2>7. Tried(c)' = Tried(c) /\ result'[c].tokens = result[c].tokens
    BY <1>2 DEF Tried
  <2>8. \A i \in Tried(c) : i # <<c, n>> /\ i \in Item /\ i[2] \in Nat
    BY <1>1, <1>2, <1>10, <2>3
  <2>. QED  BY <1>1, <1>2, <1>7, <1>10, <2>1, <2>2, <2>3, <2>4, <2>5, <2>6, <2>7, <2>8
            DEF Active, Incremental
<1>13. \A d \in Channel : PlaceInv!(d)' /\ WorkerInv!(d)'
  <2> TAKE d \in Channel
  <2>1. CASE d = c
    BY <2>1, <1>11, <1>12
  <2>2. CASE d # c
    <3>1. \A m \in 0..MaxMessages : receipt'[d][m] = receipt[d][m]
      BY <2>2, <1>5 DEF StatusMoves
    <3>. QED  BY <2>2, <3>1, <1>2, <1>7, PlaceStays
  <2>. QED  BY <2>1, <2>2
<1>14. PlaceInv' /\ WorkerInv'
  BY <1>13 DEF PlaceInv, WorkerInv
<1>. QED  BY <1>6, <1>8, <1>9, <1>14 DEF IInv

\* The service creates the message of a request, or the request is lost.
LEMMA LandStep ==
    ASSUME IInv, NEW c \in Channel, NEW n \in 0..MaxMessages, Land(c, n)
    PROVE  IInv'
<1>1. /\ receipt[c][n] = "flying"
      /\ UNCHANGED <<exported, disk, mem, mode, cancel, worker, result, scenario, exposed>>
  BY DEF Land, run
<1>2. /\ copies \in [Channel -> [0..MaxMessages -> Nat]]
      /\ receipt \in [Channel -> [0..MaxMessages -> ReceiptStatus]]
      /\ <<c, n>> \in Item /\ <<c, n>>[1] = c /\ <<c, n>>[2] = n
  BY ItemShape DEF IInv, TypeOK
<1>3. PICK st \in {"landed", "lost"} :
         /\ receipt' = [receipt EXCEPT ![c][n] = st]
         /\ st = "landed" => copies' = [copies EXCEPT ![c][n] = @ + 1]
         /\ st = "lost" => copies' = copies
  BY DEF Land
<1>4. StatusMoves(c, n, st)
  BY <1>2, <1>3 DEF StatusMoves, ReceiptStatus
<1>5. copies[c][n] = 0 \/ <<c, n>> \in exposed
  BY <1>1 DEF IInv, ReceiptInv
<1>6. <<c, n>> \notin disk.ready
  BY <1>1, <1>2 DEF IInv, ReadyInv, StatusOf
<1>7. /\ copies' \in [Channel -> [0..MaxMessages -> Nat]]
      /\ \A d \in Channel, m \in 0..MaxMessages :
            <<d, m>> # <<c, n>> => copies'[d][m] = copies[d][m]
      /\ copies'[c][n] >= copies[c][n]
      /\ copies'[c][n] <= 1 \/ <<c, n>> \in exposed
      /\ st = "landed" => copies'[c][n] > 0
  <2>1. copies[c][n] \in Nat
    BY <1>2
  <2>2. CASE st = "landed"
    <3>1. copies' = [copies EXCEPT ![c][n] = @ + 1]
      BY <1>3, <2>2
    <3>2. copies'[c][n] = copies[c][n] + 1
      BY <1>2, <3>1
    <3>. QED  BY <1>2, <1>5, <2>1, <3>1, <3>2
  <2>3. CASE st = "lost"
    <3>1. copies[c][n] <= 1 \/ <<c, n>> \in exposed
      BY DEF IInv, NoDuplicate
    <3>. QED  BY <1>2, <1>3, <2>1, <2>3, <3>1
  <2>. QED  BY <2>2, <2>3
<1>8. /\ \A d \in Channel, m \in 0..MaxMessages : copies'[d][m] >= copies[d][m]
      /\ MemoryInv' /\ ReceiptInv' /\ HeaderInv' /\ ReadyInv'
      /\ NoDuplicate' /\ Accounted' /\ EvidenceOrProgress' /\ FailureRetryable'
  <2>1. st \in ReceiptStatus \ {"none"} /\ st \notin {"partial", "acked", "flying", "rejected"}
    BY DEF ReceiptStatus
  <2>. QED  BY <1>1, <1>4, <1>6, <1>7, <2>1, ReceiptMoves
<1>9. TypeOK' /\ ShapeInv' /\ RunsInv'
  BY <1>1, <1>4, <1>7 DEF IInv, TypeOK, ShapeInv, RunsInv, StatusMoves, MayStop
<1>10. \A d \in Channel : PlaceInv!(d)' /\ WorkerInv!(d)'
  <2> TAKE d \in Channel
  <2>1. \A m \in 0..MaxMessages :
           /\ receipt[d][m] # "none" => receipt'[d][m] # "none"
           /\ receipt[d][m] = "acked" => receipt'[d][m] = "acked"
    BY <1>1, <1>4 DEF StatusMoves
  <2>2. \A m \in 0..MaxMessages : copies[d][m] > 0 => copies'[d][m] > 0
    <3> TAKE m \in 0..MaxMessages
    <3>1. copies[d][m] \in Nat /\ copies'[d][m] \in Nat
      BY <1>2, <1>7
    <3>. QED  BY <1>8, <3>1
  <2>. QED  BY <1>1, <2>1, <2>2, PlaceStays
<1>11. PlaceInv' /\ WorkerInv'
  BY <1>10 DEF PlaceInv, WorkerInv
<1>. QED  BY <1>8, <1>9, <1>11 DEF IInv

-----------------------------------------------------------------------------
(* Saving the state.                                                       *)

\* A state that may replace the saved one: the progress moves forward but for the items
\* in E, what it covers is accounted for, failures keep their receipts, and what may be
\* retired is covered and no failure.
MaySave(m, E) ==
    /\ m \in State
    /\ E \subseteq Item
    /\ \A c \in Channel :
          disk.high[c] <= m.high[c] /\ m.high[c] <= exported[c] /\ m.offset[c] <= exported[c]
    /\ \A c \in Channel, n \in Numbers :
          /\ n <= Progress(c) => n <= Max2(m.high[c], m.offset[c]) \/ <<c, n>> \in E
          /\ n <= Max2(m.high[c], m.offset[c]) => copies[c][n] > 0 \/ <<c, n>> \in m.failed
    /\ \A i \in m.failed : i[2] > 0 /\ StatusOf(i) # "none"
    /\ \A i \in m.ready :
          /\ StatusOf(i) \in {"none", "acked"} /\ i \notin m.failed
          /\ \/ i[1] \in m.completed /\ i[2] <= m.high[i[1]] /\ m.high[i[1]] > 0
             \/ 0 < i[2] /\ i[2] <= m.offset[i[1]]

\* The invariants that hold between the files and the destination.
FileInv == ReceiptInv /\ HeaderInv /\ ReadyInv /\ NoDuplicate /\ Accounted
           /\ EvidenceOrProgress /\ FailureRetryable

\* What remains of the receipts when some that may be retired are gone.
LEMMA RetiredReceipts ==
    ASSUME TypeOK, NEW m \in State, NEW S \in SUBSET Retirable(m), receipt' = Without(S)
    PROVE  /\ receipt' \in [Channel -> [0..MaxMessages -> ReceiptStatus]]
           /\ \A c \in Channel, n \in 0..MaxMessages :
                 \/ receipt'[c][n] = receipt[c][n] /\ <<c, n>> \notin S
                 \/ /\ receipt'[c][n] = "none" /\ receipt[c][n] = "acked"
                    /\ <<c, n>> \in m.ready
           /\ \A i \in Item : \/ StatusOf(i)' = StatusOf(i)
                              \/ /\ StatusOf(i)' = "none" /\ StatusOf(i) = "acked"
                                 /\ i \in m.ready
<1>1. S \subseteq Item /\ \A i \in S : i \in m.ready /\ StatusOf(i) = "acked"
  BY StateShape DEF Retirable
<1>2. /\ receipt' \in [Channel -> [0..MaxMessages -> ReceiptStatus]]
      /\ \A c \in Channel, n \in 0..MaxMessages :
            /\ <<c, n>> \in S => receipt'[c][n] = "none"
            /\ <<c, n>> \notin S => receipt'[c][n] = receipt[c][n]
  BY <1>1, WithoutShape
<1>3. \A c \in Channel, n \in 0..MaxMessages :
         \/ receipt'[c][n] = receipt[c][n] /\ <<c, n>> \notin S
         \/ receipt'[c][n] = "none" /\ receipt[c][n] = "acked" /\ <<c, n>> \in m.ready
  BY <1>1, <1>2 DEF StatusOf
<1>4. ASSUME NEW i \in Item
      PROVE  \/ StatusOf(i)' = StatusOf(i)
             \/ StatusOf(i)' = "none" /\ StatusOf(i) = "acked" /\ i \in m.ready
  BY <1>3, ItemShape DEF StatusOf
<1>. QED  BY <1>2, <1>3, <1>4

LEMMA SavedFiles ==
    ASSUME IInv, NEW m, NEW E, MaySave(m, E), NEW S \in SUBSET Retirable(m),
           receipt' = Without(S), disk' = m, UNCHANGED <<exported, copies>>,
           exposed' = exposed \union E
    PROVE  /\ receipt' \in [Channel -> [0..MaxMessages -> ReceiptStatus]]
           /\ exposed' \subseteq Item
           /\ FileInv'
<1>1. /\ m \in State /\ m.failed \subseteq Item /\ m.ready \subseteq Item
      /\ TypeOK
  BY StateShape DEF MaySave, IInv
<1>2. /\ receipt' \in [Channel -> [0..MaxMessages -> ReceiptStatus]]
      /\ \A c \in Channel, n \in 0..MaxMessages :
            \/ receipt'[c][n] = receipt[c][n] /\ <<c, n>> \notin S
            \/ receipt'[c][n] = "none" /\ receipt[c][n] = "acked" /\ <<c, n>> \in m.ready
      /\ \A i \in Item : \/ StatusOf(i)' = StatusOf(i)
                         \/ StatusOf(i)' = "none" /\ StatusOf(i) = "acked" /\ i \in m.ready
  BY <1>1, RetiredReceipts
<1>3. exposed' \subseteq Item
  BY DEF MaySave, IInv, TypeOK
<1>4. ReceiptInv'
  <2> SUFFICES ASSUME NEW c \in Channel, NEW n \in 0..MaxMessages PROVE ReceiptInv!(c, n)'
    BY DEF ReceiptInv
  <2>1. ReceiptInv!(c, n)
    BY DEF IInv, ReceiptInv
  <2>2. receipt'[c][n] = receipt[c][n] \/ receipt'[c][n] = "none"
    BY <1>2
  <2>. QED  BY <2>1, <2>2
<1>5. HeaderInv'
  <2> SUFFICES ASSUME NEW c \in Channel, copies[c][0] > 0, receipt'[c][0] = "none"
               PROVE  m.high[c] > 0
    BY DEF HeaderInv
  <2>1. 0 \in 0..MaxMessages /\ <<c, 0>>[1] = c /\ <<c, 0>>[2] = 0
    BY MessagesAssumption
  <2>2. CASE receipt[c][0] = "none"
    <3>1. disk.high[c] \in Nat /\ m.high[c] \in Nat /\ disk.high[c] <= m.high[c]
      BY <1>1, StateShape, MessagesAssumption DEF TypeOK, MaySave
    <3>2. disk.high[c] > 0
      BY <2>2 DEF IInv, HeaderInv
    <3>. QED  BY <3>1, <3>2
  <2>3. CASE receipt[c][0] # "none"
    <3>1. <<c, 0>> \in m.ready
      BY <1>2, <2>1, <2>3
    <3>. QED  BY <2>1, <3>1 DEF MaySave
  <2>. QED  BY <2>2, <2>3
<1>6. ReadyInv'
  <2> SUFFICES ASSUME NEW i \in m.ready PROVE ReadyInv!(i)'
    BY DEF ReadyInv
  <2>1. StatusOf(i)' \in {"none", "acked"}
    BY <1>1, <1>2 DEF MaySave
  <2>. QED  BY <2>1 DEF MaySave
<1>7. NoDuplicate'
  BY DEF IInv, NoDuplicate
<1>8. Accounted'
  BY DEF MaySave, Accounted, Progress, Numbers
<1>9. EvidenceOrProgress'
  <2> SUFFICES ASSUME NEW c \in Channel, NEW n \in 1..MaxMessages, copies[c][n] > 0,
                      receipt'[c][n] = "none"
               PROVE  n <= Max2(m.high[c], m.offset[c]) \/ <<c, n>> \in exposed \union E
    BY DEF EvidenceOrProgress, Progress
  <2>1. n \in 0..MaxMessages /\ <<c, n>>[1] = c /\ <<c, n>>[2] = n
    BY MessagesAssumption
  <2>2. CASE receipt[c][n] = "none"
    BY <2>2 DEF IInv, EvidenceOrProgress, MaySave, Numbers
  <2>3. CASE receipt[c][n] # "none"
    <3>1. <<c, n>> \in m.ready
      BY <1>2, <2>1, <2>3
    <3>2. n <= m.high[c] \/ n <= m.offset[c]
      BY <2>1, <3>1 DEF MaySave
    <3>3. m.high[c] \in Nat /\ m.offset[c] \in Nat
      BY <1>1, StateShape, MessagesAssumption
    <3>. QED  BY <3>2, <3>3 DEF Max2
  <2>. QED  BY <2>2, <2>3
<1>10. FailureRetryable'
  <2> SUFFICES ASSUME NEW i \in m.failed PROVE StatusOf(i)' # "none"
    BY DEF FailureRetryable
  <2>1. i \in Item /\ StatusOf(i) # "none" /\ i \notin m.ready
    BY <1>1 DEF MaySave
  <2>. QED  BY <1>2, <2>1
<1>. QED  BY <1>2, <1>3, <1>4, <1>5, <1>6, <1>7, <1>8, <1>9, <1>10 DEF FileInv

\* The run ends, by itself or by a stop, with m saved.
LEMMA RunOverStep ==
    ASSUME IInv, NEW m, NEW E, MaySave(m, E), NEW S \in SUBSET Retirable(m),
           receipt' = Without(S), disk' = m, UNCHANGED <<exported, copies>>,
           exposed' = exposed \union E,
           mode # "none", RunOver(m), MayStop \/ \A c \in Channel : worker[c].stage = "done"
    PROVE  IInv'
<1>1. /\ receipt' \in [Channel -> [0..MaxMessages -> ReceiptStatus]]
      /\ exposed' \subseteq Item
      /\ FileInv'
  BY SavedFiles
<1>2. /\ mode' = "none" /\ cancel' = FALSE /\ mem' = m /\ m \in State
      /\ worker' = [c \in Channel |-> Idle]
      /\ result' = [c \in Channel |-> EmptyResult]
  BY DEF RunOver, MaySave
<1>3. /\ scenario' \in [runs : Seq({"fresh", "resume", "incremental"}), stops : Nat, slots : Nat,
                        longest : [Channel -> 0..MaxMessages]]
      /\ scenario'.runs = scenario.runs
      /\ scenario'.stops \in Nat
  <2>1. scenario \in [runs : Seq({"fresh", "resume", "incremental"}), stops : Nat, slots : Nat,
                      longest : [Channel -> 0..MaxMessages]]
    BY DEF IInv, ShapeInv
  <2>2. scenario' = scenario \/ (MayStop /\ scenario' = [scenario EXCEPT !.stops = @ - 1])
    BY DEF RunOver
  <2>. QED  BY <2>1, <2>2 DEF MayStop
<1>4. TypeOK'
  <2>1. worker' \in [Channel -> Worker] /\ result' \in [Channel -> Result]
    BY <1>2, EmptyShape
  <2>2. mode' \in Mode /\ cancel' \in BOOLEAN
    BY <1>2 DEF Mode
  <2>. QED  BY <1>1, <1>2, <1>3, <2>1, <2>2 DEF TypeOK, IInv
<1>5. ShapeInv'
  BY <1>3 DEF ShapeInv, MaySave
<1>6. RunsInv'
  <2>1. \A c \in Channel : worker'[c] = Idle /\ result'[c] = EmptyResult /\ Idle.stage = "done"
    BY <1>2 DEF Idle
  <2>. QED  BY <1>2, <1>3, <2>1 DEF IInv, RunsInv
<1>7. MemoryInv'
  BY <1>2 DEF MemoryInv
<1>8. PlaceInv' /\ WorkerInv'
  <2>1. \A c \in Channel : worker'[c].stage = "done"
    BY <1>2 DEF Idle
  <2>. QED  BY <2>1, EndedPlace DEF PlaceInv, WorkerInv
<1>. QED  BY <1>1, <1>4, <1>5, <1>6, <1>7, <1>8 DEF IInv, FileInv

\* The run's own state may be saved: it is the saved one, but for some markers.
LEMMA MemoryMaySave ==
    ASSUME IInv, NEW m \in State, m.completed = disk.completed, m.high = disk.high,
           m.offset = disk.offset, m.failed = disk.failed, m.ready \subseteq disk.ready
    PROVE  MaySave(m, {})
<1>1. \A c \in Channel : disk.high[c] <= m.high[c] /\ m.high[c] <= exported[c] /\ m.offset[c] <= exported[c]
  <2>1. \A c \in Channel : disk.high[c] \in Nat
    BY StateShape DEF IInv, TypeOK
  <2>. QED  BY <2>1 DEF IInv, ShapeInv
<1>2. \A c \in Channel, n \in Numbers :
         /\ n <= Progress(c) => n <= Max2(m.high[c], m.offset[c]) \/ <<c, n>> \in {}
         /\ n <= Max2(m.high[c], m.offset[c]) => copies[c][n] > 0 \/ <<c, n>> \in m.failed
  BY DEF IInv, Accounted, Progress, Numbers
<1>3. \A i \in m.failed : i[2] > 0 /\ StatusOf(i) # "none"
  BY DEF IInv, ShapeInv, FailureRetryable
<1>4. \A i \in m.ready :
         /\ StatusOf(i) \in {"none", "acked"} /\ i \notin m.failed
         /\ \/ i[1] \in m.completed /\ i[2] <= m.high[i[1]] /\ m.high[i[1]] > 0
            \/ 0 < i[2] /\ i[2] <= m.offset[i[1]]
  BY DEF IInv, ReadyInv
<1>. QED  BY <1>1, <1>2, <1>3, <1>4 DEF MaySave

LEMMA CrashStep == ASSUME IInv, Crash PROVE IInv'
<1>1. MaySave(disk, {})
  BY MemoryMaySave DEF IInv, TypeOK
<1>2. receipt' = Without({})
  <2>1. receipt \in [Channel -> [0..MaxMessages -> ReceiptStatus]]
    BY DEF IInv, TypeOK
  <2>. QED  BY <2>1 DEF Crash, service, Without
<1>. QED  BY <1>1, <1>2, RunOverStep DEF Crash, service

LEMMA EndPhaseStep == ASSUME IInv, EndPhase PROVE IInv'
<1>1. MaySave(mem, {})
  BY MemoryMaySave DEF IInv, TypeOK, MemoryInv
<1>2. MayStop \/ \A c \in Channel : worker[c].stage = "done"
  BY DEF EndPhase, IInv, RunsInv
<1>3. PICK S \in SUBSET Retirable(mem) : receipt' = Without(S)
  BY DEF EndPhase
<1>. QED  BY <1>1, <1>2, <1>3, RunOverStep DEF EndPhase

-----------------------------------------------------------------------------
(* A run begins.                                                           *)

\* What the state is loaded as.
LEMMA LoadedShape ==
    ASSUME IInv, NEW how \in Mode \ {"none"}
    PROVE  /\ Loaded(how) \in State
           /\ Loaded(how).completed = IF how = "incremental" THEN {} ELSE disk.completed
           /\ Loaded(how).ready = IF how = "incremental" THEN {} ELSE disk.ready
           /\ Loaded(how).high = disk.high
           /\ Loaded(how).offset = disk.offset
           /\ Loaded(how).failed = disk.failed
           /\ Loaded(how).marked = disk.marked
           /\ Loaded(how).count = disk.count
<1>1. disk \in State
  BY DEF IInv, TypeOK
<1>2. CASE how = "incremental"
  <2>1. Loaded(how) = [disk EXCEPT !.completed = {}, !.ready = {}]
    BY <1>2 DEF Loaded
  <2>. QED  BY <1>1, <1>2, <2>1 DEF State
<1>3. CASE how # "incremental"
  BY <1>1, <1>3 DEF Loaded
<1>. QED  BY <1>2, <1>3

\* The loaded state may be saved, with the items that a resume forgets exposed.
LEMMA LoadedMaySave ==
    ASSUME IInv, NEW how \in Mode \ {"none"}
    PROVE  MaySave(Loaded(how), Forgotten(how))
<1> DEFINE m == Loaded(how)
<1>1. /\ m \in State /\ m.high = disk.high /\ m.offset = disk.offset /\ m.failed = disk.failed
      /\ m.ready \subseteq disk.ready
      /\ how # "incremental" => m.completed = disk.completed
      /\ how = "incremental" => m.ready = {}
  BY LoadedShape
<1> HIDE DEF m
<1>2. \A c \in Channel : disk.high[c] <= m.high[c] /\ m.high[c] <= exported[c] /\ m.offset[c] <= exported[c]
  <2>1. \A c \in Channel : disk.high[c] \in Nat
    BY StateShape DEF IInv, TypeOK
  <2>. QED  BY <1>1, <2>1 DEF IInv, ShapeInv
<1>3. \A c \in Channel, n \in Numbers :
         /\ n <= Progress(c) => n <= Max2(m.high[c], m.offset[c])
         /\ n <= Max2(m.high[c], m.offset[c]) => copies[c][n] > 0 \/ <<c, n>> \in m.failed
  BY <1>1 DEF IInv, Accounted, Progress, Numbers
<1>4. \A i \in m.failed : i[2] > 0 /\ StatusOf(i) # "none"
  BY <1>1 DEF IInv, ShapeInv, FailureRetryable
<1>5. \A i \in m.ready :
         /\ StatusOf(i) \in {"none", "acked"} /\ i \notin m.failed
         /\ \/ i[1] \in m.completed /\ i[2] <= m.high[i[1]] /\ m.high[i[1]] > 0
            \/ 0 < i[2] /\ i[2] <= m.offset[i[1]]
  BY <1>1 DEF IInv, ReadyInv
<1>6. Forgotten(how) \subseteq Item
  BY DEF Forgotten
<1>. QED  BY <1>1, <1>2, <1>3, <1>4, <1>5, <1>6 DEF MaySave, m

LEMMA BeginRunStep == ASSUME IInv, NEW how \in Mode \ {"none"}, BeginRun(how) PROVE IInv'
<1> DEFINE m == Loaded(how)
<1>1. /\ mode = "none" /\ mode' = how /\ scenario.runs # <<>> /\ how = Head(scenario.runs)
      /\ scenario' = [scenario EXCEPT !.runs = Tail(@)]
      /\ disk' = m
      /\ worker' = [c \in Channel |->
                      IF how = "resume" /\ c \in disk.completed THEN Idle
                      ELSE [Idle EXCEPT !.stage = "queued"]]
      /\ exposed' = exposed \union Forgotten(how)
      /\ UNCHANGED <<exported, copies, cancel, result>>
  BY DEF BeginRun
<1>2. /\ m \in State /\ m.high = disk.high /\ m.offset = disk.offset /\ m.failed = disk.failed
      /\ m.count = disk.count /\ m.marked = disk.marked /\ m.ready \subseteq disk.ready
      /\ how # "incremental" => m.completed = disk.completed
      /\ how = "incremental" => m.completed = {} /\ m.ready = {}
      /\ MaySave(m, Forgotten(how))
  BY LoadedShape, LoadedMaySave
<1>3. /\ mem' \in State
      /\ mem'.completed = m.completed /\ mem'.high = m.high /\ mem'.offset = m.offset
      /\ mem'.failed = m.failed /\ mem'.count = m.count
      /\ mem'.ready \subseteq m.ready /\ mem'.marked \subseteq m.marked
  <2>1. CASE mem' = AfterRetiring(m)
    BY <1>2, <2>1, RetiringShape
  <2>2. CASE how = "resume" /\ mem' = disk
    BY <1>2, <2>2 DEF Loaded, IInv, TypeOK
  <2>. QED  BY <2>1, <2>2 DEF BeginRun
<1>4. PICK S \in SUBSET Retirable(m) : receipt' = Without(S)
  <2>1. CASE receipt' = Without(Retirable(m))
    BY <2>1
  <2>2. CASE UNCHANGED receipt
    <3>1. receipt \in [Channel -> [0..MaxMessages -> ReceiptStatus]]
      BY DEF IInv, TypeOK
    <3>2. receipt' = Without({})
      BY <2>2, <3>1 DEF Without
    <3>. QED  BY <3>2
  <2>. QED  BY <2>1, <2>2 DEF BeginRun
<1>5. /\ receipt' \in [Channel -> [0..MaxMessages -> ReceiptStatus]]
      /\ exposed' \subseteq Item
      /\ FileInv'
  BY <1>1, <1>2, <1>4, SavedFiles
<1> HIDE DEF m
<1>6. /\ worker' \in [Channel -> Worker]
      /\ \A c \in Channel :
            \/ worker'[c].stage = "done" /\ how = "resume" /\ c \in disk.completed
            \/ /\ worker'[c] = [Idle EXCEPT !.stage = "queued"]
               /\ worker'[c].stage = "queued" /\ worker'[c].next = 0
               /\ ~(how = "resume" /\ c \in disk.completed)
  <2>1. Idle.stage = "done" /\ [Idle EXCEPT !.stage = "queued"].stage = "queued"
        /\ [Idle EXCEPT !.stage = "queued"].next = 0
    BY DEF Idle
  <2>. QED  BY <1>1, <2>1, EmptyShape
<1>7. /\ scenario' \in [runs : Seq({"fresh", "resume", "incremental"}), stops : Nat, slots : Nat,
                        longest : [Channel -> 0..MaxMessages]]
      /\ scenario'.runs = Tail(scenario.runs)
      /\ scenario'.stops = scenario.stops
      /\ scenario.runs \in Seq({"fresh", "resume", "incremental"})
  <2>1. scenario \in [runs : Seq({"fresh", "resume", "incremental"}), stops : Nat, slots : Nat,
                      longest : [Channel -> 0..MaxMessages]]
    BY DEF IInv, ShapeInv
  <2>2. Tail(scenario.runs) \in Seq({"fresh", "resume", "incremental"})
    BY <1>1, <2>1
  <2>. QED  BY <1>1, <2>1, <2>2
<1>8. \A c \in Channel : result[c] = EmptyResult /\ ~cancel
  BY <1>1 DEF IInv, RunsInv
<1>9. TypeOK'
  BY <1>1, <1>2, <1>3, <1>5, <1>6, <1>7 DEF IInv, TypeOK
<1>10. ShapeInv'
  BY <1>1, <1>2, <1>7 DEF IInv, ShapeInv
<1>11. RunsInv'
  <2>1. \A k \in 2..Len(scenario.runs) : scenario.runs[k] # "fresh"
    BY DEF IInv, RunsInv
  <2>2. \A k \in 1..Len(Tail(scenario.runs)) : Tail(scenario.runs)[k] # "fresh"
    BY SMTT(30), <1>1, <1>7, <2>1
  <2>3. Tail(scenario.runs) # <<>> => Head(Tail(scenario.runs)) # "fresh"
    <3>1. ASSUME NEW t \in Seq({"fresh", "resume", "incremental"}), t # <<>>
          PROVE  Head(t) = t[1] /\ 1 \in 1..Len(t)
      BY <3>1
    <3>2. Tail(scenario.runs) \in Seq({"fresh", "resume", "incremental"})
      BY <1>1, <1>7
    <3>. QED  BY <2>2, <3>1, <3>2
  <2>4. \A k \in 2..Len(scenario'.runs) : scenario'.runs[k] # "fresh"
    BY <1>7, <2>2
  <2>5. ~cancel' /\ \A c \in Channel : worker'[c].stage \notin {"failed", "stopped"}
    BY <1>1, <1>6, <1>8 DEF IInv, RunsInv
  <2>. QED  BY <1>1, <1>7, <2>3, <2>4, <2>5 DEF RunsInv
<1>12. MemoryInv'
  BY <1>1, <1>2, <1>3 DEF MemoryInv
<1>13. \A c \in Channel : disk.high[c] \in 0..MaxMessages /\ disk.offset[c] \in 0..MaxMessages
                          /\ exported[c] \in Nat
  BY StateShape, MessagesAssumption DEF IInv, TypeOK
<1>14. \A c \in Channel : Progress(c)' = Progress(c)
  BY <1>1, <1>2 DEF Progress
<1>15. ASSUME NEW c \in Channel, worker'[c] = [Idle EXCEPT !.stage = "queued"],
              worker'[c].stage = "queued", worker'[c].next = 0,
              ~(how = "resume" /\ c \in disk.completed)
       PROVE  PlaceInv!(c)' /\ WorkerInv!(c)'
  <2>1. how = "fresh" => disk = EmptyState
    BY <1>1 DEF IInv, RunsInv
  <2>2. c \notin m.completed
    BY <1>2, <1>15, <2>1 DEF EmptyState, Mode
  <2>3. SkipLimit(c)' = CASE how = "resume" -> disk.offset[c]
                          [] how = "incremental" -> Progress(c)
                          [] OTHER -> 0
    BY <1>1, <1>2, <1>3, <1>15 DEF SkipLimit, Threshold, Progress
  <2>4. SkipLimit(c)' \in Nat /\ SkipLimit(c)' <= Progress(c)
    BY <1>13, <2>3 DEF Progress, Max2
  <2>5. \A n \in Numbers : n > SkipLimit(c)' /\ n <= Progress(c) => <<c, n>> \in exposed'
    <3> SUFFICES ASSUME NEW n \in Numbers, n > SkipLimit(c)', n <= Progress(c)
                 PROVE  <<c, n>> \in exposed'
      OBVIOUS
    <3>0. n \in 1..MaxMessages /\ n \in 0..MaxMessages
      BY MessagesAssumption DEF Numbers
    <3>1. CASE how = "resume"
      <4>1. disk.offset[c] < n /\ n <= disk.high[c]
        BY <1>13, <2>3, <3>0, <3>1 DEF Progress, Max2
      <4>2. <<c, n>> \in Forgotten(how)
        BY <1>15, <3>0, <3>1, <4>1, ItemShape DEF Forgotten
      <4>. QED  BY <1>1, <4>2
    <3>2. CASE how = "incremental"
      BY <1>13, <2>3, <2>4, <3>0, <3>2 DEF Progress, Max2
    <3>3. CASE how = "fresh"
      BY <2>1, <3>0, <3>3 DEF Progress, Max2, EmptyState
    <3>. QED  BY <3>1, <3>2, <3>3 DEF Mode
  <2>6. \A n \in Numbers : n < 0 \/ n <= SkipLimit(c)' => copies[c][n] > 0 \/ <<c, n>> \in disk.failed
    <3> SUFFICES ASSUME NEW n \in Numbers, n <= SkipLimit(c)'
                 PROVE  copies[c][n] > 0 \/ <<c, n>> \in disk.failed
      BY MessagesAssumption DEF Numbers
    <3>1. Progress(c) \in Nat /\ n \in Nat
      BY <1>13, MessagesAssumption DEF Progress, Max2, Numbers
    <3>. QED  BY <2>4, <3>1 DEF IInv, Accounted, Numbers
  <2>7. \A i \in m.ready : i[1] = c => how = "resume" /\ i[2] <= SkipLimit(c)'
    <3> SUFFICES ASSUME NEW i \in m.ready, i[1] = c PROVE how = "resume" /\ i[2] <= SkipLimit(c)'
      OBVIOUS
    <3>1. how = "resume"
      BY <1>2, <2>1 DEF Mode, EmptyState
    <3>2. i[2] <= disk.offset[c]
      BY <1>2, <2>2, <3>1 DEF MaySave
    <3>. QED  BY <2>3, <3>1, <3>2
  <2>8. mode' # "none" /\ 0 <= exported[c] + 1
    BY <1>1, <1>13
  <2>9. PlaceInv!(c)'
    BY <1>1, <1>2, <1>14, <1>15, <2>2, <2>5, <2>6, <2>7, <2>8
  <2>10. WorkerInv!(c)'
    BY <1>1, <1>8, <1>15 DEF Active
  <2>. QED  BY <2>9, <2>10
<1>16. PlaceInv' /\ WorkerInv'
  BY <1>6, <1>15, EndedPlace DEF PlaceInv, WorkerInv
<1>. QED  BY <1>5, <1>9, <1>10, <1>11, <1>12, <1>16 DEF IInv, FileInv

-----------------------------------------------------------------------------
(* A worker saves.                                                         *)

\* The parts of the merged state, of a checkpoint's and of a completion's.
LEMMA MergedShape ==
    ASSUME IInv, NEW c \in Channel
    PROVE  /\ Merged(mem, c) \in State
           /\ Merged(mem, c).completed = disk.completed
           /\ Merged(mem, c).high = disk.high
           /\ Merged(mem, c).offset = disk.offset
           /\ Merged(mem, c).failed = (disk.failed \union result[c].failed) \ result[c].tokens
           /\ Merged(mem, c).marked = mem.marked \union result[c].marked
           /\ Merged(mem, c).ready = mem.ready \union result[c].tokens
           /\ Merged(mem, c).count = [disk.count EXCEPT ![c] = @ + result[c].count]
           /\ Merged(mem, c).count \in [Channel -> Nat]
<1>1. /\ mem \in State
      /\ result[c].failed \subseteq Item /\ result[c].marked \subseteq Item
      /\ result[c].tokens \subseteq Item /\ result[c].count \in Nat
      /\ mem.completed = disk.completed /\ mem.high = disk.high /\ mem.offset = disk.offset
      /\ mem.failed = disk.failed /\ mem.count = disk.count
      /\ disk.count \in [Channel -> Nat]
  BY WorkerShape, StateShape DEF IInv, TypeOK, MemoryInv
<1>2. [disk.count EXCEPT ![c] = @ + result[c].count] \in [Channel -> Nat]
  BY <1>1
<1>3. /\ Merged(mem, c).completed = mem.completed
      /\ Merged(mem, c).high = mem.high
      /\ Merged(mem, c).offset = mem.offset
      /\ Merged(mem, c).failed = (mem.failed \union result[c].failed) \ result[c].tokens
      /\ Merged(mem, c).marked = mem.marked \union result[c].marked
      /\ Merged(mem, c).ready = mem.ready \union result[c].tokens
      /\ Merged(mem, c).count = [mem.count EXCEPT ![c] = @ + result[c].count]
  BY <1>1 DEF Merged, State
<1>4. Merged(mem, c) \in State
  <2>1. PICK f, k, y, n : /\ f = (mem.failed \union result[c].failed) \ result[c].tokens
                          /\ k = mem.marked \union result[c].marked
                          /\ y = mem.ready \union result[c].tokens
                          /\ n = [mem.count EXCEPT ![c] = @ + result[c].count]
    OBVIOUS
  <2>2. Merged(mem, c) = [mem EXCEPT !.failed = f, !.marked = k, !.ready = y, !.count = n]
    BY <1>1, <2>1 DEF Merged, State
  <2>3. f \subseteq Item /\ k \subseteq Item /\ y \subseteq Item /\ n \in [Channel -> Nat]
    BY <1>1, <1>2, <2>1, StateShape
  <2>. QED  BY <1>1, <2>2, <2>3 DEF State
<1>. QED  BY <1>1, <1>2, <1>3, <1>4

LEMMA CheckpointShape ==
    ASSUME IInv, NEW c \in Channel, worker[c].next \in 1..MaxMessages + 1
    PROVE  /\ CheckpointState(c) \in State
           /\ CheckpointState(c).completed = disk.completed
           /\ CheckpointState(c).high = disk.high
           /\ CheckpointState(c).offset[c] = worker[c].next - 1
           /\ \A d \in Channel \ {c} : CheckpointState(c).offset[d] = disk.offset[d]
           /\ CheckpointState(c).failed = Merged(mem, c).failed
           /\ CheckpointState(c).marked = Merged(mem, c).marked
           /\ CheckpointState(c).ready = Merged(mem, c).ready
           /\ CheckpointState(c).count = Merged(mem, c).count
<1>1. PICK m \in State : m = Merged(mem, c) /\ m.offset = disk.offset /\ m.high = disk.high
                         /\ m.completed = disk.completed
  BY MergedShape
<1>2. worker[c].next - 1 \in 0..MaxMessages
  BY MessagesAssumption
<1>3. CheckpointState(c) = [m EXCEPT !.offset = [m.offset EXCEPT ![c] = worker[c].next - 1]]
  BY <1>1 DEF CheckpointState, State
<1>4. [m.offset EXCEPT ![c] = worker[c].next - 1] \in [Channel -> 0..MaxMessages]
  BY <1>2, StateShape
<1>. QED  BY <1>1, <1>2, <1>3, <1>4 DEF State

LEMMA CompletedShape ==
    ASSUME IInv, NEW c \in Channel
    PROVE  /\ Completed(c) \in State
           /\ Completed(c).completed = disk.completed \union {c}
           /\ Completed(c).high[c] = IF exported[c] > 0 THEN exported[c] ELSE disk.high[c]
           /\ \A d \in Channel \ {c} : Completed(c).high[d] = disk.high[d]
           /\ Completed(c).offset[c] = 0
           /\ \A d \in Channel \ {c} : Completed(c).offset[d] = disk.offset[d]
           /\ Completed(c).failed = Merged(mem, c).failed
           /\ \A i : i \in Completed(c).marked <=>
                       \/ i \in Merged(mem, c).marked
                       \/ worker[c].header /\ exported[c] > 0 /\ i = <<c, 0>>
           /\ \A i : i \in Completed(c).ready <=>
                       \/ i \in Merged(mem, c).ready
                       \/ worker[c].header /\ exported[c] > 0 /\ i = <<c, 0>>
           /\ Completed(c).count = Merged(mem, c).count
<1>1. PICK m \in State : m = Merged(mem, c) /\ m.offset = disk.offset /\ m.high = disk.high
                         /\ m.completed = disk.completed
  BY MergedShape
<1>2. /\ exported[c] \in 0..MaxMessages /\ 0 \in 0..MaxMessages /\ <<c, 0>> \in Item
      /\ m.high[c] \in 0..MaxMessages /\ m.completed \subseteq Channel
      /\ m.marked \subseteq Item /\ m.ready \subseteq Item
  <2>1. exported[c] \in 0..MaxMessages /\ 0 \in 0..MaxMessages
    BY MessagesAssumption DEF IInv, TypeOK
  <2>2. <<c, 0>> \in Item
    BY <2>1, ItemShape
  <2>3. m.high \in [Channel -> 0..MaxMessages] /\ m.completed \subseteq Channel
        /\ m.marked \subseteq Item /\ m.ready \subseteq Item
    BY StateShape
  <2>. QED  BY <2>1, <2>2, <2>3
<1>3. PICK h, o, k, y :
         /\ h = [m.high EXCEPT ![c] = IF exported[c] > 0 THEN exported[c] ELSE @]
         /\ o = [m.offset EXCEPT ![c] = 0]
         /\ k = IF exported[c] > 0 /\ worker[c].header THEN m.marked \union {<<c, 0>>} ELSE m.marked
         /\ y = IF exported[c] > 0 /\ worker[c].header THEN m.ready \union {<<c, 0>>} ELSE m.ready
  OBVIOUS
<1>4. Completed(c) = [completed |-> m.completed \union {c}, high |-> h, offset |-> o,
                      failed |-> m.failed, marked |-> k, ready |-> y, count |-> m.count]
  <2>1. Completed(c) = [m EXCEPT !.completed = m.completed \union {c}, !.high = h, !.marked = k,
                                 !.ready = y, !.offset = o]
    BY <1>1, <1>3 DEF Completed, State
  <2>2. m \in [completed : SUBSET Channel, high : [Channel -> 0..MaxMessages],
               offset : [Channel -> 0..MaxMessages], failed : SUBSET Item,
               marked : SUBSET Item, ready : SUBSET Item, count : [Channel -> Nat]]
    BY <1>1 DEF State
  <2>. QED  BY <2>1, <2>2
<1>5. /\ h \in [Channel -> 0..MaxMessages] /\ o \in [Channel -> 0..MaxMessages]
      /\ h[c] = IF exported[c] > 0 THEN exported[c] ELSE m.high[c]
      /\ o[c] = 0
      /\ \A d \in Channel \ {c} : h[d] = m.high[d] /\ o[d] = m.offset[d]
  BY <1>2, <1>3, StateShape
<1>6. k \subseteq Item /\ y \subseteq Item /\ m.completed \union {c} \subseteq Channel
  BY <1>2, <1>3
<1>7. Completed(c) \in State
  <2>1. m.failed \subseteq Item /\ m.count \in [Channel -> Nat]
    BY StateShape
  <2>. QED  BY <1>4, <1>5, <1>6, <2>1 DEF State
<1>8. /\ Completed(c).completed = m.completed \union {c} /\ Completed(c).high = h
      /\ Completed(c).marked = k /\ Completed(c).ready = y /\ Completed(c).offset = o
      /\ Completed(c).failed = m.failed /\ Completed(c).count = m.count
  BY <1>1, <1>4 DEF State
<1>. QED  BY <1>1, <1>3, <1>5, <1>7, <1>8

\* What a merge leaves to the failures and to the receipts that may be retired.
LEMMA MergedSound ==
    ASSUME IInv, NEW c \in Channel, worker[c].stage = "loop",
           NEW m \in State, m.failed = Merged(mem, c).failed,
           \A i \in m.ready : i \in Merged(mem, c).ready \/ (worker[c].header /\ i = <<c, 0>>)
    PROVE  /\ \A i \in m.failed : i[2] > 0 /\ StatusOf(i) # "none"
           /\ \A i \in m.ready :
                 /\ StatusOf(i) \in {"none", "acked"} /\ i \notin m.failed
                 /\ \/ i \in disk.ready /\ (i[1] = c => 0 < i[2] /\ i[2] <= disk.offset[c])
                    \/ i[1] = c /\ i[2] < worker[c].next /\ (i[2] = 0 => worker[c].header)
           /\ \A n \in Numbers : n < worker[c].next \/ n <= worker[c].skipBelow =>
                 copies[c][n] > 0 \/ <<c, n>> \in m.failed
           /\ \A d \in Channel, n \in Numbers :
                 n <= Progress(d) => copies[d][n] > 0 \/ <<d, n>> \in m.failed
<1>1. /\ Active(c) /\ Due(c) /\ SkipLimit(c) = worker[c].skipBelow
      /\ PlaceInv!(c) /\ WorkerInv!(c)
  BY DEF Active, Due, SkipLimit, IInv, PlaceInv, WorkerInv
<1>2. /\ m.failed = (disk.failed \union result[c].failed) \ result[c].tokens
      /\ \A i \in m.ready : i \in disk.ready \/ i \in result[c].tokens
                            \/ (worker[c].header /\ i = <<c, 0>>)
  BY MergedShape DEF IInv, MemoryInv
<1>3. /\ disk.failed \subseteq Item /\ disk.ready \subseteq Item
      /\ result[c].failed \subseteq Item /\ result[c].tokens \subseteq Item
      /\ worker[c].next \in Nat
  <2>1. disk.failed \subseteq Item /\ disk.ready \subseteq Item
    BY StateShape DEF IInv, TypeOK
  <2>. QED  BY <2>1, WorkerShape, MessagesAssumption DEF IInv
<1>4. \A i \in result[c].failed \union result[c].tokens :
         /\ i[1] = c /\ 0 < i[2] /\ i[2] < worker[c].next
         /\ i \notin disk.ready /\ StatusOf(i) # "none"
  BY <1>1 DEF Tried
<1>5. \A i \in m.failed : i[2] > 0 /\ StatusOf(i) # "none"
  BY <1>2, <1>4 DEF IInv, ShapeInv, FailureRetryable
<1>6. ASSUME NEW i \in m.ready
      PROVE  /\ StatusOf(i) \in {"none", "acked"} /\ i \notin m.failed
             /\ \/ i \in disk.ready /\ (i[1] = c => 0 < i[2] /\ i[2] <= disk.offset[c])
                \/ i[1] = c /\ i[2] < worker[c].next /\ (i[2] = 0 => worker[c].header)
  <2>1. CASE i \in disk.ready
    BY <1>1, <1>2, <1>4, <2>1 DEF IInv, ReadyInv
  <2>2. CASE i \in result[c].tokens
    <3>1. StatusOf(i) = "acked"
      BY <1>1, <2>2
    <3>2. i[2] \in Nat
      BY <1>3, <2>2, ItemShape
    <3>. QED  BY <1>2, <1>4, <2>2, <3>1, <3>2
  <2>3. CASE worker[c].header /\ i = <<c, 0>>
    <3>1. i[1] = c /\ i[2] = 0 /\ worker[c].next > 0 /\ receipt[c][0] = "acked"
      BY <1>1, <2>3
    <3>2. i \notin m.failed
      BY <1>5, <3>1
    <3>. QED  BY <2>3, <3>1, <3>2 DEF StatusOf
  <2>. QED  BY <1>2, <2>1, <2>2, <2>3
<1>7. \A i \in result[c].tokens : copies[c][i[2]] > 0
  <2> SUFFICES ASSUME NEW i \in result[c].tokens PROVE copies[c][i[2]] > 0
    OBVIOUS
  <2>1. i[1] = c /\ i[2] \in 0..MaxMessages /\ StatusOf(i) = "acked"
    BY <1>1, <1>3, <1>4, ItemShape
  <2>. QED  BY <2>1 DEF IInv, ReceiptInv, StatusOf
<1>8. ASSUME NEW d \in Channel, NEW n \in Numbers,
             copies[d][n] > 0 \/ <<d, n>> \in disk.failed \union result[c].failed
      PROVE  copies[d][n] > 0 \/ <<d, n>> \in m.failed
  <2>1. <<d, n>> \in result[c].tokens => copies[d][n] > 0
    BY <1>4, <1>7
  <2>. QED  BY <1>2, <1>8, <2>1
<1>9. \A n \in Numbers : n < worker[c].next \/ n <= worker[c].skipBelow =>
         copies[c][n] > 0 \/ <<c, n>> \in m.failed
  BY <1>1, <1>8
<1>10. \A d \in Channel, n \in Numbers :
          n <= Progress(d) => copies[d][n] > 0 \/ <<d, n>> \in m.failed
  BY <1>8 DEF IInv, Accounted, Numbers
<1>. QED  BY <1>5, <1>6, <1>9, <1>10

\* The other workers keep their places when one saves.
LEMMA OthersKeepPlace ==
    ASSUME IInv, NEW c \in Channel, worker[c].stage = "loop",
           NEW m \in State, m.failed = Merged(mem, c).failed,
           \A i \in m.ready : i \in Merged(mem, c).ready \/ (worker[c].header /\ i = <<c, 0>>),
           m.completed \subseteq disk.completed \union {c},
           \A d \in Channel \ {c} : m.high[d] = disk.high[d] /\ m.offset[d] = disk.offset[d],
           NEW S \in SUBSET Retirable(m), receipt' = Without(S), disk' = m,
           mem' = AfterRetiring(m), UNCHANGED <<exported, copies, mode>>,
           exposed \subseteq exposed',
           NEW d \in Channel \ {c}, worker'[d] = worker[d], result'[d] = result[d]
    PROVE  PlaceInv!(d)' /\ WorkerInv!(d)'
<1>1. PlaceInv!(d) /\ WorkerInv!(d)
  BY DEF IInv, PlaceInv, WorkerInv
<1>2. /\ m.failed = (disk.failed \union result[c].failed) \ result[c].tokens
      /\ \A i \in result[c].tokens : i[1] = c
      /\ \A i \in m.ready : i[1] = d => i \in disk.ready
  <2>1. Active(c) /\ WorkerInv!(c)
    BY DEF Active, IInv, WorkerInv
  <2>2. \A i \in result[c].tokens : i[1] = c
    BY <2>1 DEF Tried
  <2>3. m.failed = (disk.failed \union result[c].failed) \ result[c].tokens
    BY MergedShape
  <2>4. Merged(mem, c).ready = mem.ready \union result[c].tokens /\ mem.ready \subseteq disk.ready
    BY MergedShape DEF IInv, MemoryInv
  <2>. QED  BY <2>2, <2>3, <2>4
<1>3. /\ mem'.high = m.high /\ mem'.offset = m.offset
      /\ m.high[d] = disk.high[d] /\ m.offset[d] = disk.offset[d]
      /\ mem.high = disk.high /\ mem.offset = disk.offset
  BY RetiringShape DEF IInv, MemoryInv
<1>4. SkipLimit(d)' = SkipLimit(d) /\ Due(d)' = Due(d) /\ Progress(d)' = Progress(d)
      /\ Active(d)' = Active(d)
  BY <1>3 DEF SkipLimit, Due, Active, Threshold, Progress
<1>5. PlaceInv!(d)'
  <2>1. \A n \in Numbers : <<d, n>> \in disk.failed => <<d, n>> \in m.failed
    BY <1>2
  <2>. QED  BY <1>1, <1>2, <1>4, <2>1
<1>6. ASSUME Active(d) PROVE WorkerInv!(d)'
  <2>1. \A i \in Item : i[1] = d => \/ StatusOf(i)' = StatusOf(i)
                                    \/ i \in disk.ready
    BY <1>2, RetiredReceipts DEF IInv
  <2>2. Due(d) /\ SkipLimit(d) = worker[d].skipBelow /\ d \notin disk.completed
    BY <1>1, <1>6 DEF Due, Active, SkipLimit
  <2>3. \A i \in disk.ready : i[1] = d => i[2] > 0
    BY <2>2 DEF IInv, ReadyInv
  <2>4. /\ worker[d].retry \subseteq Item /\ Tried(d) \subseteq Item /\ result[d].tokens \subseteq Tried(d)
        /\ worker[d].next \in Nat
        /\ \A i \in Item : i[2] \in Nat
    BY WorkerShape, ItemShape, MessagesAssumption DEF IInv, Tried
  <2>5. \A n : SkipsOver(d, n)' = SkipsOver(d, n)
    BY DEF SkipsOver
  <2>6. \A i \in worker[d].retry : i[1] = d /\ Incremental' /\ (i[2] >= worker[d].next => StatusOf(i)' # "none")
    <3> TAKE i \in worker[d].retry
    <3>1. /\ i[1] = d /\ Incremental /\ i \in Item /\ i[2] \in Nat
          /\ i[2] >= worker[d].next => StatusOf(i) # "none"
      BY <1>1, <1>6, <2>4
    <3>2. i[2] >= worker[d].next => i \notin disk.ready
      BY <1>1, <2>2, <2>4, <3>1 DEF Incremental
    <3>. QED  BY <2>1, <3>1, <3>2 DEF Incremental
  <2>7. worker[d].header => receipt'[d][0] = "acked" /\ worker[d].next > 0
    <3>1. 0 \in 0..MaxMessages /\ <<d, 0>>[1] = d /\ <<d, 0>>[2] = 0 /\ <<d, 0>> \in Item
      BY ItemShape, MessagesAssumption
    <3>2. StatusOf(<<d, 0>>)' = StatusOf(<<d, 0>>)
      BY <2>1, <2>3, <3>1
    <3>. QED  BY <1>1, <1>6, <3>1, <3>2 DEF StatusOf
  <2>8. worker[d].stage = "waiting" => /\ StatusOf(InHand(d))' # "none"
                                       /\ worker[d].next <= exported[d] \/ worker[d].next = 0
                                       /\ worker[d].next = 0 \/ ~Skipped(d)'
    <3> SUFFICES ASSUME worker[d].stage = "waiting" PROVE <2>8!2
      OBVIOUS
    <3>1. InHand(d) \in Item /\ InHand(d)[1] = d /\ InHand(d) \notin disk.ready
      BY InHandFree DEF InHand
    <3>2. InHand(d)' = InHand(d) /\ Skipped(d)' = Skipped(d)
      BY DEF InHand, Skipped, SkipsOver
    <3>3. StatusOf(InHand(d))' = StatusOf(InHand(d))
      <4>1. PICK i \in Item : i = InHand(d)
        BY <3>1
      <4>2. StatusOf(i)' = StatusOf(i)
        BY <2>1, <3>1, <4>1
      <4>. QED  BY <3>2, <4>1, <4>2 DEF StatusOf
    <3>. QED  BY <1>1, <1>6, <3>2, <3>3
  <2>9. \A i \in Tried(d) : /\ i[1] = d /\ 0 < i[2] /\ i[2] < worker[d].next /\ ~SkipsOver(d, i[2])
                            /\ i \notin m.ready /\ StatusOf(i)' # "none"
    <3> TAKE i \in Tried(d)
    <3>1. /\ i[1] = d /\ 0 < i[2] /\ i[2] < worker[d].next /\ ~SkipsOver(d, i[2])
          /\ i \notin disk.ready /\ StatusOf(i) # "none" /\ i \in Item
      BY <1>1, <1>6, <2>4
    <3>. QED  BY <1>2, <2>1, <3>1
  <2>10. \A i \in result[d].tokens : StatusOf(i)' = "acked"
    <3> TAKE i \in result[d].tokens
    <3>1. i[1] = d /\ i \notin disk.ready /\ StatusOf(i) = "acked" /\ i \in Item
      BY <1>1, <1>6, <2>4
    <3>. QED  BY <2>1, <3>1
  <2>11. Tried(d)' = Tried(d)
    BY DEF Tried
  <2>. QED  BY <1>1, <1>3, <1>6, <2>5, <2>6, <2>7, <2>8, <2>9, <2>10, <2>11 DEF Active
<1>7. ASSUME ~Active(d) PROVE WorkerInv!(d)'
  BY <1>1, <1>7 DEF Active
<1>. QED  BY <1>5, <1>6, <1>7

\* After a save the worker goes on from where it was, or has ended.
LEMMA SaveContinues ==
    ASSUME IInv, NEW c \in Channel, worker[c].stage = "loop",
           NEW m, NEW E, MaySave(m, E), m.failed = Merged(mem, c).failed,
           \A i \in m.ready : i \in Merged(mem, c).ready \/ (worker[c].header /\ i = <<c, 0>>),
           m.completed \subseteq disk.completed \union {c},
           \A d \in Channel \ {c} : m.high[d] = disk.high[d] /\ m.offset[d] = disk.offset[d],
           receipt' = Without(Retirable(m)), disk' = m, mem' = AfterRetiring(m),
           UNCHANGED <<exported, copies, mode, cancel, scenario>>,
           exposed' = exposed \union E,
           worker' \in [Channel -> Worker], worker'[c].stage \in {"loop", "done"},
           \A d \in Channel \ {c} : worker'[d] = worker[d],
           result' = Emptied(c),
           PlaceInv!(c)' /\ WorkerInv!(c)'
    PROVE  IInv'
<1>1. m \in State
  BY DEF MaySave
<1>2. /\ receipt' \in [Channel -> [0..MaxMessages -> ReceiptStatus]]
      /\ exposed' \subseteq Item
      /\ FileInv'
  BY SavedFiles
<1>3. /\ mem' \in State
      /\ MemoryInv'
  BY <1>1, RetiringShape DEF MemoryInv
<1>4. /\ result' \in [Channel -> Result]
      /\ \A d \in Channel \ {c} : result'[d] = result[d]
  BY EmptyShape DEF Emptied, IInv, TypeOK
<1>5. TypeOK'
  BY <1>1, <1>2, <1>3, <1>4 DEF IInv, TypeOK
<1>6. ShapeInv'
  BY DEF IInv, ShapeInv, MaySave
<1>7. mode # "none"
  BY DEF IInv, RunsInv, Idle
<1>8. RunsInv'
  <2>1. \A d \in Channel : worker'[d].stage \in {"failed", "stopped"} =>
                             worker[d].stage \in {"failed", "stopped"}
    OBVIOUS
  <2>. QED  BY <1>7, <2>1 DEF IInv, RunsInv, MayStop
<1>9. ASSUME NEW d \in Channel PROVE PlaceInv!(d)' /\ WorkerInv!(d)'
  <2>1. CASE d # c
    BY <1>1, <1>4, <2>1, OthersKeepPlace
  <2>2. CASE d = c
    BY <2>2
  <2>. QED  BY <2>1, <2>2
<1>10. PlaceInv' /\ WorkerInv'
  BY <1>9 DEF PlaceInv, WorkerInv
<1>. QED  BY <1>2, <1>3, <1>5, <1>6, <1>8, <1>10 DEF IInv, FileInv

\* The state of a checkpoint may be saved.
LEMMA CheckpointMaySave ==
    ASSUME IInv, NEW c \in Channel, worker[c].stage = "loop", worker[c].next > 1,
           <<c, worker[c].next - 1>> \in Tried(c)
    PROVE  /\ MaySave(CheckpointState(c), PassedBack(c))
           /\ \A i \in disk.ready : i[1] = c => i[2] < worker[c].next
           /\ worker[c].next \in 1..MaxMessages + 1
<1> DEFINE m == CheckpointState(c)
           n == worker[c].next
<1>1. n \in 1..MaxMessages + 1 /\ n \in Nat
  BY WorkerShape, MessagesAssumption DEF IInv
<1>2. /\ m \in State /\ m.completed = disk.completed /\ m.high = disk.high
      /\ m.offset[c] = n - 1
      /\ \A d \in Channel \ {c} : m.offset[d] = disk.offset[d]
      /\ m.failed = Merged(mem, c).failed /\ m.ready = Merged(mem, c).ready
  BY <1>1, CheckpointShape
<1>3. /\ Active(c) /\ Due(c) /\ SkipLimit(c) = worker[c].skipBelow
      /\ PlaceInv!(c) /\ WorkerInv!(c)
  BY DEF Active, Due, SkipLimit, IInv, PlaceInv, WorkerInv
<1> HIDE DEF m
<1>4. /\ \A i \in m.failed : i[2] > 0 /\ StatusOf(i) # "none"
      /\ \A i \in m.ready :
            /\ StatusOf(i) \in {"none", "acked"} /\ i \notin m.failed
            /\ \/ i \in disk.ready /\ (i[1] = c => 0 < i[2] /\ i[2] <= disk.offset[c])
               \/ i[1] = c /\ i[2] < n /\ (i[2] = 0 => worker[c].header)
      /\ \A k \in Numbers : k < n \/ k <= worker[c].skipBelow =>
            copies[c][k] > 0 \/ <<c, k>> \in m.failed
      /\ \A d \in Channel, k \in Numbers :
            k <= Progress(d) => copies[d][k] > 0 \/ <<d, k>> \in m.failed
  BY <1>2, MergedSound
<1>5. \A d \in Channel : /\ disk.high[d] \in 0..MaxMessages /\ disk.offset[d] \in 0..MaxMessages
                         /\ exported[d] \in 0..MaxMessages /\ worker[d].skipBelow \in Nat
                         /\ mem.high[d] = disk.high[d] /\ mem.offset[d] = disk.offset[d]
  <2>1. \A d \in Channel : disk.high[d] \in 0..MaxMessages /\ disk.offset[d] \in 0..MaxMessages
    BY StateShape DEF IInv, TypeOK
  <2>2. \A d \in Channel : exported[d] \in 0..MaxMessages
    BY DEF IInv, TypeOK
  <2>3. \A d \in Channel : worker[d].skipBelow \in Nat
    BY WorkerShape, MessagesAssumption DEF IInv
  <2>4. mem.high = disk.high /\ mem.offset = disk.offset
    BY DEF IInv, MemoryInv
  <2>. QED  BY <2>1, <2>2, <2>3, <2>4
<1>6. \A d \in Channel : disk.high[d] <= m.high[d] /\ m.high[d] <= exported[d] /\ m.offset[d] <= exported[d]
  <2> TAKE d \in Channel
  <2>1. disk.high[d] <= m.high[d] /\ m.high[d] <= exported[d] /\ disk.offset[d] <= exported[d]
    BY <1>2, <1>5 DEF IInv, ShapeInv
  <2>2. CASE d = c
    BY <1>1, <1>2, <1>3, <1>5, <2>1, <2>2
  <2>3. CASE d # c
    BY <1>2, <2>1, <2>3
  <2>. QED  BY <2>2, <2>3
<1>7. ASSUME NEW i \in disk.ready, i[1] = c PROVE i[2] < n
  <2>1. CASE mode = "resume" /\ i[2] <= worker[c].skipBelow
    <3>1. ~SkipsOver(c, n - 1)
      BY <1>3
    <3>2. <<c, n - 1>> \notin worker[c].retry
      BY <1>3, <2>1 DEF Incremental
    <3>3. n - 1 > worker[c].skipBelow
      BY <1>1, <1>5, <3>1, <3>2 DEF SkipsOver
    <3>4. i[2] \in Nat
      BY StateShape, ItemShape DEF IInv, TypeOK
    <3>. QED  BY <1>1, <1>5, <2>1, <3>3, <3>4
  <2>. QED  BY <1>3, <1>7, <2>1
<1>8. ASSUME NEW d \in Channel, NEW k \in Numbers
      PROVE  /\ k <= Progress(d) => k <= Max2(m.high[d], m.offset[d]) \/ <<d, k>> \in PassedBack(c)
             /\ k <= Max2(m.high[d], m.offset[d]) => copies[d][k] > 0 \/ <<d, k>> \in m.failed
  <2>1. CASE d # c
    BY <1>2, <1>4, <2>1 DEF Progress
  <2>2. CASE d = c
    <3>1. k \in 1..MaxMessages
      BY DEF Numbers
    <3>2. ASSUME k <= Progress(c), ~(k <= Max2(m.high[c], m.offset[c])) PROVE <<c, k>> \in PassedBack(c)
      <4>1. k > disk.high[c] /\ k > n - 1 /\ k <= disk.offset[c]
        BY <1>1, <1>2, <1>5, <3>1, <3>2, MessagesAssumption DEF Progress, Max2
      <4>2. k \in Max2(n, mem.high[c] + 1)..mem.offset[c]
        BY SMTT(30), <1>1, <1>5, <3>1, <4>1, MessagesAssumption DEF Max2
      <4>. QED  BY <4>2 DEF PassedBack
    <3>3. ASSUME k <= Max2(m.high[c], m.offset[c]) PROVE copies[c][k] > 0 \/ <<c, k>> \in m.failed
      <4>1. k < n \/ k <= Progress(c)
        BY <1>1, <1>2, <1>5, <3>1, <3>3, MessagesAssumption DEF Progress, Max2
      <4>. QED  BY <1>4, <4>1
    <3>. QED  BY <2>2, <3>2, <3>3
  <2>. QED  BY <2>1, <2>2
<1>9. ASSUME NEW i \in m.ready
      PROVE  /\ StatusOf(i) \in {"none", "acked"} /\ i \notin m.failed
             /\ \/ i[1] \in m.completed /\ i[2] <= m.high[i[1]] /\ m.high[i[1]] > 0
                \/ 0 < i[2] /\ i[2] <= m.offset[i[1]]
  <2>1. i \in Item /\ i[1] \in Channel /\ i[2] \in Nat
    BY <1>2, StateShape, ItemShape
  <2>2. CASE i[1] # c
    BY <1>2, <1>4, <2>1, <2>2 DEF IInv, ReadyInv
  <2>3. CASE i[1] = c
    <3>1. i[2] < n
      BY <1>4, <1>7, <2>3
    <3>2. i[2] # 0
      <4>1. Merged(mem, c).ready = mem.ready \union result[c].tokens /\ mem.ready \subseteq disk.ready
        BY MergedShape DEF IInv, MemoryInv
      <4>2. i \in disk.ready \/ i \in Tried(c)
        BY <1>2, <4>1 DEF Tried
      <4>. QED  BY <1>3, <2>1, <2>3, <4>2 DEF IInv, ReadyInv
    <3>. QED  BY <1>1, <1>2, <1>4, <2>1, <2>3, <3>1, <3>2
  <2>. QED  BY <2>2, <2>3
<1>10. PassedBack(c) \subseteq Item
  <2> SUFFICES ASSUME NEW k \in Max2(n, mem.high[c] + 1)..mem.offset[c] PROVE <<c, k>> \in Item
    BY DEF PassedBack
  <2>1. k \in 0..MaxMessages
    BY SMTT(30), <1>1, <1>5, MessagesAssumption DEF Max2
  <2>. QED  BY <2>1, ItemShape
<1>. QED  BY <1>1, <1>2, <1>4, <1>6, <1>7, <1>8, <1>9, <1>10 DEF MaySave, m

LEMMA CheckpointStep == ASSUME IInv, NEW c \in Channel, Checkpoint(c) PROVE IInv'
<1> DEFINE m == CheckpointState(c)
<1>1. /\ worker[c].stage = "loop" /\ worker[c].next > 1
      /\ <<c, worker[c].next - 1>> \in Tried(c)
      /\ SaveAnd(m, worker, Emptied(c))
      /\ exposed' = exposed \union PassedBack(c)
  BY DEF Checkpoint, Tried
<1>2. /\ MaySave(m, PassedBack(c))
      /\ \A i \in disk.ready : i[1] = c => i[2] < worker[c].next
      /\ worker[c].next \in 1..MaxMessages + 1
  BY <1>1, CheckpointMaySave
<1>3. /\ disk' = m /\ UNCHANGED <<exported, copies>>
      /\ mode # "none"
  BY <1>1 DEF SaveAnd, IInv, RunsInv, Idle
<1>4. CASE MayStop /\ (\E S \in SUBSET Retirable(m) : receipt' = Without(S)) /\ RunOver(m)
  <2>1. PICK S \in SUBSET Retirable(m) : receipt' = Without(S)
    BY <1>4
  <2>. QED  BY <1>1, <1>2, <1>3, <1>4, <2>1, RunOverStep
<1>5. CASE /\ receipt' = Without(Retirable(m))
           /\ mem' = AfterRetiring(m)
           /\ worker' = worker
           /\ result' = Emptied(c)
           /\ UNCHANGED <<mode, cancel, scenario>>
  <2>1. /\ m \in State /\ m.completed = disk.completed /\ m.high = disk.high
        /\ m.offset[c] = worker[c].next - 1
        /\ \A d \in Channel \ {c} : m.offset[d] = disk.offset[d]
        /\ m.failed = Merged(mem, c).failed /\ m.ready = Merged(mem, c).ready
    BY <1>2, CheckpointShape
  <2> HIDE DEF m
  <2>2. /\ Active(c) /\ Due(c) /\ SkipLimit(c) = worker[c].skipBelow
        /\ PlaceInv!(c) /\ WorkerInv!(c)
    BY <1>1 DEF Active, Due, SkipLimit, IInv, PlaceInv, WorkerInv
  <2>3. /\ \A i \in m.ready :
              \/ i \in disk.ready /\ (i[1] = c => 0 < i[2] /\ i[2] <= disk.offset[c])
              \/ i[1] = c /\ i[2] < worker[c].next /\ (i[2] = 0 => worker[c].header)
        /\ \A k \in Numbers : k < worker[c].next \/ k <= worker[c].skipBelow =>
              copies[c][k] > 0 \/ <<c, k>> \in m.failed
    BY <1>1, <2>1, MergedSound
  <2>4. /\ worker[c].next \in Nat /\ worker[c].skipBelow \in Nat
        /\ disk.high[c] \in Nat /\ disk.offset[c] \in Nat
    <3>1. disk.high[c] \in Nat /\ disk.offset[c] \in Nat
      BY StateShape DEF IInv, TypeOK
    <3>. QED  BY <3>1, WorkerShape, MessagesAssumption DEF IInv
  <2>5. /\ result'[c] = EmptyResult /\ Tried(c)' = {} /\ result'[c].tokens = {} /\ result'[c].failed = {}
    BY <1>5 DEF Emptied, Tried, EmptyResult, IInv, TypeOK
  <2>6. \A i \in m.ready : i[1] = c => i[2] < worker[c].next
    BY <1>2, <2>3
  <2>7. PlaceInv!(c)'
    <3>1. SkipLimit(c)' = worker[c].skipBelow /\ Due(c)'
      BY <1>1, <1>5 DEF SkipLimit, Due, Active
    <3>2. \A n \in Numbers : n >= worker[c].next /\ n > worker[c].skipBelow /\ n <= Progress(c)' =>
             <<c, n>> \in exposed'
      <4> SUFFICES ASSUME NEW n \in Numbers, n >= worker[c].next, n > worker[c].skipBelow,
                          n <= Progress(c)'
                   PROVE  <<c, n>> \in exposed'
        OBVIOUS
      <4>1. Progress(c)' = Max2(disk.high[c], worker[c].next - 1) /\ n \in Nat
        BY <1>3, <2>1, MessagesAssumption DEF Progress, Numbers
      <4>2. n <= Progress(c)
        BY <2>4, <4>1 DEF Progress, Max2
      <4>. QED  BY <1>1, <2>2, <4>2
    <3>3. c \notin disk'.completed /\ worker'[c].next <= exported[c] + 1 /\ mode' # "none"
      BY <1>3, <1>5, <2>1, <2>2
    <3>4. /\ exported' = exported /\ copies' = copies /\ worker' = worker /\ disk' = m
          /\ disk'.failed \union result'[c].failed = m.failed
      BY <1>3, <1>5, <2>5
    <3>. QED  BY <2>3, <2>6, <3>1, <3>2, <3>3, <3>4
  <2>8. WorkerInv!(c)'
    <3>1. \A i \in Item : StatusOf(i)' = StatusOf(i) \/ i \in m.ready
      BY <1>5, <2>1, RetiredReceipts DEF IInv
    <3>2. \A i \in worker[c].retry : i[1] = c /\ Incremental'
             /\ (i[2] >= worker[c].next => StatusOf(i)' # "none")
      <4> TAKE i \in worker[c].retry
      <4>1. /\ i[1] = c /\ Incremental /\ (i[2] >= worker[c].next => StatusOf(i) # "none")
            /\ i \in Item /\ i[2] \in Nat
        BY <2>2, WorkerShape, ItemShape DEF IInv
      <4>2. i[2] >= worker[c].next => i \notin m.ready
        BY <2>4, <2>6, <4>1
      <4>. QED  BY <1>5, <3>1, <4>1, <4>2 DEF Incremental
    <3>3. worker[c].header => receipt'[c][0] = "acked"
      <4>1. <<c, 0>> \notin Merged(mem, c).ready
        <5>1. Merged(mem, c).ready = mem.ready \union result[c].tokens /\ mem.ready \subseteq disk.ready
          BY MergedShape DEF IInv, MemoryInv
        <5>2. <<c, 0>> \notin result[c].tokens
          BY <2>2 DEF Tried
        <5>3. <<c, 0>> \notin disk.ready
          BY <2>2 DEF IInv, ReadyInv
        <5>. QED  BY <5>1, <5>2, <5>3
      <4>2. 0 \in 0..MaxMessages /\ <<c, 0>> \in Item
        BY ItemShape, MessagesAssumption
      <4>3. StatusOf(<<c, 0>>)' = StatusOf(<<c, 0>>)
        BY <2>1, <3>1, <4>1, <4>2
      <4>. QED  BY <2>2, <4>3 DEF StatusOf
    <3>. QED  BY <1>1, <1>5, <2>4, <2>5, <3>2, <3>3
  <2>9. worker' \in [Channel -> Worker]
    BY <1>5 DEF IInv, TypeOK
  <2>. QED  BY <1>1, <1>2, <1>3, <1>5, <2>1, <2>7, <2>8, <2>9, SaveContinues
<1>. QED  BY <1>1, <1>4, <1>5 DEF SaveAnd

\* The state of a completed channel may be saved.
LEMMA CompletedMaySave ==
    ASSUME IInv, NEW c \in Channel, worker[c].stage = "loop", LoopOver(c)
    PROVE  MaySave(Completed(c), {})
<1> DEFINE m == Completed(c)
           n == worker[c].next
<1>1. /\ n \in Nat /\ n > exported[c]
  BY WorkerShape, MessagesAssumption DEF IInv, LoopOver
<1>2. /\ m \in State /\ m.completed = disk.completed \union {c}
      /\ m.high[c] = IF exported[c] > 0 THEN exported[c] ELSE disk.high[c]
      /\ m.offset[c] = 0
      /\ \A d \in Channel \ {c} : m.high[d] = disk.high[d] /\ m.offset[d] = disk.offset[d]
      /\ m.failed = Merged(mem, c).failed
      /\ \A i \in m.ready : \/ i \in Merged(mem, c).ready
                            \/ worker[c].header /\ exported[c] > 0 /\ i = <<c, 0>>
  BY CompletedShape
<1>3. /\ Active(c) /\ Due(c) /\ SkipLimit(c) = worker[c].skipBelow
      /\ PlaceInv!(c) /\ WorkerInv!(c)
  BY DEF Active, Due, SkipLimit, IInv, PlaceInv, WorkerInv
<1> HIDE DEF m
<1>4. /\ \A i \in m.failed : i[2] > 0 /\ StatusOf(i) # "none"
      /\ \A i \in m.ready :
            /\ StatusOf(i) \in {"none", "acked"} /\ i \notin m.failed
            /\ \/ i \in disk.ready /\ (i[1] = c => 0 < i[2] /\ i[2] <= disk.offset[c])
               \/ i[1] = c /\ i[2] < n /\ (i[2] = 0 => worker[c].header)
      /\ \A k \in Numbers : k < n \/ k <= worker[c].skipBelow =>
            copies[c][k] > 0 \/ <<c, k>> \in m.failed
      /\ \A d \in Channel, k \in Numbers :
            k <= Progress(d) => copies[d][k] > 0 \/ <<d, k>> \in m.failed
  BY <1>2, MergedSound
<1>5. \A d \in Channel : /\ disk.high[d] \in 0..MaxMessages /\ disk.offset[d] \in 0..MaxMessages
                         /\ exported[d] \in 0..MaxMessages
                         /\ disk.high[d] <= exported[d] /\ disk.offset[d] <= exported[d]
  <2>1. \A d \in Channel : disk.high[d] \in 0..MaxMessages /\ disk.offset[d] \in 0..MaxMessages
    BY StateShape DEF IInv, TypeOK
  <2>. QED  BY <2>1 DEF IInv, TypeOK, ShapeInv
<1>6. \A d \in Channel : disk.high[d] <= m.high[d] /\ m.high[d] <= exported[d] /\ m.offset[d] <= exported[d]
  BY <1>2, <1>5
<1>7. m.high[c] = exported[c]
  BY <1>2, <1>5
<1>8. ASSUME NEW d \in Channel, NEW k \in Numbers
      PROVE  /\ k <= Progress(d) => k <= Max2(m.high[d], m.offset[d])
             /\ k <= Max2(m.high[d], m.offset[d]) => copies[d][k] > 0 \/ <<d, k>> \in m.failed
  <2>1. CASE d # c
    BY <1>2, <1>4, <2>1 DEF Progress
  <2>2. CASE d = c
    <3>1. k \in Nat /\ Max2(m.high[c], m.offset[c]) = exported[c] /\ Progress(c) <= exported[c]
      BY <1>2, <1>5, <1>7, MessagesAssumption DEF Numbers, Progress, Max2
    <3>2. k <= exported[c] => k < n
      BY <1>1, <1>5, <3>1
    <3>3. Progress(c) \in Nat
      BY <1>5 DEF Progress, Max2
    <3>. QED  BY <1>4, <1>5, <2>2, <3>1, <3>2, <3>3
  <2>. QED  BY <2>1, <2>2
<1>9. ASSUME NEW i \in m.ready
      PROVE  /\ StatusOf(i) \in {"none", "acked"} /\ i \notin m.failed
             /\ \/ i[1] \in m.completed /\ i[2] <= m.high[i[1]] /\ m.high[i[1]] > 0
                \/ 0 < i[2] /\ i[2] <= m.offset[i[1]]
  <2>1. i \in Item /\ i[1] \in Channel /\ i[2] \in Nat
    BY <1>2, StateShape, ItemShape
  <2>2. CASE i[1] # c
    BY <1>2, <1>4, <2>1, <2>2 DEF IInv, ReadyInv
  <2>3. CASE i[1] = c
    <3>1. i[2] <= exported[c]
      <4>1. n <= exported[c] + 1
        BY <1>3
      <4>. QED  BY <1>1, <1>4, <1>5, <2>1, <2>3, <4>1
    <3>2. exported[c] > 0
      <4>1. Merged(mem, c).ready = mem.ready \union result[c].tokens /\ mem.ready \subseteq disk.ready
        BY MergedShape DEF IInv, MemoryInv
      <4>2. i \in disk.ready \/ i \in Tried(c) => i[2] > 0
        BY <1>3, <2>1, <2>3 DEF IInv, ReadyInv
      <4>3. i \in disk.ready \/ i \in Tried(c) \/ exported[c] > 0
        BY <1>2, <4>1 DEF Tried
      <4>. QED  BY <1>5, <2>1, <3>1, <4>2, <4>3
    <3>. QED  BY <1>2, <1>4, <1>7, <2>3, <3>1, <3>2
  <2>. QED  BY <2>2, <2>3
<1>. QED  BY <1>2, <1>4, <1>6, <1>8, <1>9 DEF MaySave, m

LEMMA CompleteStep == ASSUME IInv, NEW c \in Channel, Complete(c) PROVE IInv'
<1> DEFINE m == Completed(c)
           w == [worker EXCEPT ![c].stage = "done"]
<1>1. /\ worker[c].stage = "loop" /\ LoopOver(c)
      /\ SaveAnd(m, w, Emptied(c))
      /\ exposed' = exposed
  BY DEF Complete
<1>2. MaySave(m, {})
  BY <1>1, CompletedMaySave
<1>3. /\ disk' = m /\ UNCHANGED <<exported, copies>> /\ exposed' = exposed \union {}
      /\ mode # "none"
  BY <1>1 DEF SaveAnd, IInv, RunsInv, Idle
<1>4. CASE MayStop /\ (\E S \in SUBSET Retirable(m) : receipt' = Without(S)) /\ RunOver(m)
  <2>1. PICK S \in SUBSET Retirable(m) : receipt' = Without(S)
    BY <1>4
  <2>. QED  BY <1>1, <1>2, <1>3, <1>4, <2>1, RunOverStep
<1>5. CASE /\ receipt' = Without(Retirable(m))
           /\ mem' = AfterRetiring(m)
           /\ worker' = w
           /\ result' = Emptied(c)
           /\ UNCHANGED <<mode, cancel, scenario>>
  <2>1. /\ m.completed = disk.completed \union {c}
        /\ \A d \in Channel \ {c} : m.high[d] = disk.high[d] /\ m.offset[d] = disk.offset[d]
        /\ m.failed = Merged(mem, c).failed
        /\ \A i \in m.ready : i \in Merged(mem, c).ready \/ (worker[c].header /\ i = <<c, 0>>)
    BY CompletedShape
  <2>2. /\ worker' \in [Channel -> Worker]
        /\ worker'[c].stage = "done"
        /\ \A d \in Channel \ {c} : worker'[d] = worker[d]
    BY <1>5 DEF IInv, TypeOK, Worker, Stage
  <2>3. PlaceInv!(c)' /\ WorkerInv!(c)'
    BY <2>2, EndedPlace
  <2> HIDE DEF m, w
  <2>. QED  BY <1>1, <1>2, <1>3, <1>5, <2>1, <2>2, <2>3, SaveContinues
<1>. QED  BY <1>1, <1>4, <1>5 DEF SaveAnd

-----------------------------------------------------------------------------
(* The phase.                                                              *)

LEMMA StutterStep == ASSUME IInv, UNCHANGED vars PROVE IInv'
<1> USE DEF vars, service, run
<1>1. UNCHANGED files
  BY DEF files
<1>2. MemoryInv' /\ ReceiptInv' /\ HeaderInv' /\ ReadyInv'
      /\ NoDuplicate' /\ Accounted' /\ EvidenceOrProgress' /\ FailureRetryable'
  BY <1>1, FilesOnly
<1>3. TypeOK' /\ ShapeInv'
  BY DEF IInv, TypeOK, ShapeInv
<1>4. RunsInv'
  BY DEF IInv, RunsInv, MayStop
<1>5. PlaceInv' /\ WorkerInv'
  BY <1>1, KeptPlace DEF PlaceInv, WorkerInv
<1>. QED  BY <1>2, <1>3, <1>4, <1>5 DEF IInv

LEMMA NextStep == ASSUME IInv, [Next]_vars PROVE IInv'
<1>1. ASSUME NEW c \in Channel, Work(c) PROVE IInv'
  BY <1>1, AdmitStep, SkipMessageStep, KnownStep, SendStep, AnswerStep, CheckpointStep,
     CompleteStep, CancelledStep DEF Work
<1>. QED  BY <1>1, ExportStep, WorkerFailsStep, PermissionStopStep, BeginRunStep,
             RequestCancelStep, CrashStep, EndPhaseStep, LandStep, StutterStep DEF Next

\* The inductive invariant of the messages phase.
THEOREM MessagesInvariant == Spec => []IInv
<1>1. Init => IInv
  BY InitInv
<1>2. IInv /\ [Next]_vars => IInv'
  BY NextStep
<1>. QED  BY <1>1, <1>2, PTL DEF Spec

-----------------------------------------------------------------------------
(* What a message can be sent twice by, and that nothing else can.         *)

\* A checkpoint forgets something only after a retried failure of an incremental run.
LEMMA CheckpointGaps ==
    ASSUME IInv, NEW c \in Channel, Checkpoint(c), NEW i \in exposed' \ exposed
    PROVE  /\ i[1] = c /\ Incremental /\ <<c, worker[c].next - 1>> \in worker[c].retry
           /\ worker[c].next <= i[2] /\ i[2] <= disk.offset[c]
<1> DEFINE n == worker[c].next
<1>1. n \in Nat /\ n > 1 /\ worker[c].skipBelow \in Nat
  BY WorkerShape, MessagesAssumption DEF IInv, Checkpoint
<1>2. /\ Active(c) /\ Due(c) /\ SkipLimit(c) = worker[c].skipBelow
      /\ <<c, n - 1>> \in Tried(c) /\ PlaceInv!(c) /\ WorkerInv!(c)
  BY DEF Checkpoint, Tried, Active, Due, SkipLimit, IInv, PlaceInv, WorkerInv
<1>3. PICK k \in Max2(n, mem.high[c] + 1)..mem.offset[c] : i = <<c, k>>
  BY DEF Checkpoint, PassedBack
<1>4. /\ mem.high[c] = disk.high[c] /\ mem.offset[c] = disk.offset[c]
      /\ disk.high[c] \in 0..MaxMessages /\ disk.offset[c] \in 0..MaxMessages
  BY StateShape DEF IInv, MemoryInv, TypeOK
<1>5. k \in Numbers /\ n <= k /\ k <= disk.offset[c] /\ k <= Progress(c) /\ k \in Nat
  BY <1>1, <1>3, <1>4, MessagesAssumption DEF Numbers, Max2, Progress
<1>6. ~(k > worker[c].skipBelow)
  BY <1>2, <1>3, <1>5
<1>7. n - 1 <= worker[c].skipBelow
  BY <1>1, <1>5, <1>6
<1>8. ~SkipsOver(c, n - 1)
  BY <1>2
<1>9. <<c, n - 1>> \in worker[c].retry
  BY <1>7, <1>8 DEF SkipsOver
<1>. QED  BY <1>2, <1>3, <1>5, <1>9

\* Only the beginning of a run and a checkpoint forget anything.
LEMMA GapsNext ==
    ASSUME IInv, [Next]_vars, NEW i \in exposed' \ exposed
    PROVE  \/ /\ mode' = "resume" /\ mode = "none" /\ i[1] \notin disk.completed
              /\ disk.offset[i[1]] < i[2] /\ i[2] <= disk.high[i[1]]
           \/ /\ Incremental /\ <<i[1], worker[i[1]].next - 1>> \in worker[i[1]].retry
              /\ worker[i[1]].next <= i[2] /\ i[2] <= disk.offset[i[1]]
<1>1. CASE \E how \in Mode \ {"none"} : BeginRun(how)
  BY <1>1 DEF BeginRun, Forgotten
<1>2. CASE \E c \in Channel : Checkpoint(c)
  BY <1>2, CheckpointGaps
<1>3. CASE UNCHANGED exposed
  BY <1>3
<1>4. \/ \E how \in Mode \ {"none"} : BeginRun(how)
      \/ \E c \in Channel : Checkpoint(c)
      \/ UNCHANGED exposed
  BY DEF Next, Work, vars, Export, Admit, SkipMessage, Known, Send, Answer, Complete, Cancelled,
         WorkerFails, PermissionStop, RequestCancel, Crash, EndPhase, Land
<1>. QED  BY <1>1, <1>2, <1>3, <1>4

\* A message or a thread header is in the destination twice only when a continuation has
\* forgotten it (exposed); that comes about only by a resume of a channel that is not
\* among the completed below its high-water mark, and by an offset that the retry of a
\* failure has moved back.
THEOREM PhaseNoDuplicate == Spec => []NoDuplicate /\ GapsNamed
<1>1. IInv => NoDuplicate
  BY DEF IInv
<1>2. IInv /\ [Next]_vars =>
         [\A i \in exposed' \ exposed :
             \/ /\ mode' = "resume" /\ mode = "none" /\ i[1] \notin disk.completed
                /\ disk.offset[i[1]] < i[2] /\ i[2] <= disk.high[i[1]]
             \/ /\ Incremental /\ <<i[1], worker[i[1]].next - 1>> \in worker[i[1]].retry
                /\ worker[i[1]].next <= i[2] /\ i[2] <= disk.offset[i[1]]]_vars
  BY GapsNext
<1>. QED  BY <1>1, <1>2, MessagesInvariant, PTL DEF Spec, GapsNamed

-----------------------------------------------------------------------------
(* Without an incremental run there are no gaps.                           *)

\* Steps that leave the file and the plan of the runs.
LEMMA ResumedQuiet ==
    ASSUME ResumedInv, UNCHANGED <<disk, exposed>>, scenario'.runs = scenario.runs,
           mode' \in {mode, "none"}
    PROVE  ResumedInv'
  BY DEF ResumedInv

LEMMA RunOverRuns ==
    ASSUME IInv, NEW m, RunOver(m) PROVE scenario'.runs = scenario.runs /\ mode' = "none"
  BY DEF RunOver, IInv, ShapeInv

LEMMA ResumedSaves ==
    ASSUME IInv, NEW m, NEW w, NEW r, SaveAnd(m, w, r)
    PROVE  disk' = m /\ scenario'.runs = scenario.runs /\ mode' \in {mode, "none"}
  BY RunOverRuns DEF SaveAnd

LEMMA ResumedCheckpoint ==
    ASSUME IInv, ResumedInv, NEW c \in Channel, Checkpoint(c) PROVE ResumedInv'
<1>1. /\ disk' = CheckpointState(c) /\ scenario'.runs = scenario.runs
      /\ mode' \in {mode, "none"}
  BY ResumedSaves DEF Checkpoint
<1>2. worker[c].next \in 1..MaxMessages + 1
  BY WorkerShape, MessagesAssumption DEF IInv, Checkpoint
<1>3. disk'.completed = disk.completed /\ disk'.high = disk.high
  BY <1>1, <1>2, CheckpointShape
<1>4. exposed' = {}
  <2>1. \A i \in exposed' : i \in exposed
    BY CheckpointGaps DEF ResumedInv, Incremental
  <2>. QED  BY <2>1 DEF ResumedInv
<1>. QED  BY <1>1, <1>3, <1>4 DEF ResumedInv

LEMMA ResumedComplete ==
    ASSUME IInv, ResumedInv, NEW c \in Channel, Complete(c) PROVE ResumedInv'
<1>1. /\ disk' = Completed(c) /\ scenario'.runs = scenario.runs
      /\ mode' \in {mode, "none"} /\ exposed' = exposed
  BY ResumedSaves DEF Complete
<1>2. /\ disk'.completed = disk.completed \union {c}
      /\ \A d \in Channel \ {c} : disk'.high[d] = disk.high[d]
  BY <1>1, CompletedShape
<1>. QED  BY <1>1, <1>2 DEF ResumedInv

\* A resume passes over what is complete and begins the rest at its offset: of that there
\* is no high-water mark yet.
LEMMA ResumedBegin ==
    ASSUME IInv, ResumedInv, NEW how \in Mode \ {"none"}, BeginRun(how) PROVE ResumedInv'
<1>1. scenario.runs \in Seq({"fresh", "resume", "incremental"}) /\ scenario.runs # <<>>
  BY DEF BeginRun, IInv, ShapeInv
<1>2. how = scenario.runs[1] /\ 1 \in 1..Len(scenario.runs)
  BY <1>1 DEF BeginRun
<1>3. how # "incremental" /\ mode' = how
  BY <1>2 DEF ResumedInv, BeginRun
<1>4. disk' = disk
  BY <1>3 DEF BeginRun, Loaded
<1>5. Forgotten(how) = {}
  <2> SUFFICES ASSUME NEW i \in Item, i[1] \notin disk.completed,
                      disk.offset[i[1]] < i[2], i[2] <= disk.high[i[1]]
               PROVE  FALSE
    BY DEF Forgotten
  <2>1. i[1] \in Channel /\ disk.offset[i[1]] \in Nat /\ disk.high[i[1]] \in Nat /\ i[2] \in Nat
    BY ItemShape, StateShape, MessagesAssumption DEF IInv, TypeOK
  <2>2. disk.high[i[1]] > 0
    BY <2>1
  <2>. QED  BY <2>1, <2>2 DEF ResumedInv
<1>6. scenario'.runs = Tail(scenario.runs)
  <2>1. scenario' = [scenario EXCEPT !.runs = Tail(scenario.runs)]
    BY DEF BeginRun
  <2>. QED  BY <2>1 DEF IInv, ShapeInv
<1>7. \A k \in 1..Len(scenario'.runs) : scenario'.runs[k] # "incremental"
  <2>1. /\ Len(Tail(scenario.runs)) = Len(scenario.runs) - 1
        /\ \A k \in 1..Len(Tail(scenario.runs)) :
              Tail(scenario.runs)[k] = scenario.runs[k + 1] /\ k + 1 \in 1..Len(scenario.runs)
    BY <1>1
  <2>. QED  BY <1>6, <2>1 DEF ResumedInv
<1>. QED  BY <1>3, <1>4, <1>5, <1>7 DEF ResumedInv, BeginRun

LEMMA ResumedEnds == ASSUME IInv, ResumedInv, Crash \/ EndPhase PROVE ResumedInv'
<1>1. scenario'.runs = scenario.runs /\ mode' = "none" /\ exposed' = exposed
  BY RunOverRuns DEF Crash, EndPhase
<1>2. disk'.high = disk.high /\ disk'.completed = disk.completed
  BY DEF Crash, EndPhase, IInv, MemoryInv
<1>. QED  BY <1>1, <1>2 DEF ResumedInv

LEMMA ResumedNext == IInv /\ ResumedInv /\ [Next]_vars => ResumedInv'
<1> SUFFICES ASSUME IInv, ResumedInv, [Next]_vars PROVE ResumedInv'
  OBVIOUS
<1>1. CASE \E c \in Channel : Checkpoint(c) \/ Complete(c)
  BY <1>1, ResumedCheckpoint, ResumedComplete
<1>2. CASE (\E how \in Mode \ {"none"} : BeginRun(how)) \/ Crash \/ EndPhase
  BY <1>2, ResumedBegin, ResumedEnds
<1>3. CASE UNCHANGED <<disk, mode, scenario, exposed>>
  BY <1>3, ResumedQuiet
<1>4. \/ \E c \in Channel : Checkpoint(c) \/ Complete(c)
      \/ (\E how \in Mode \ {"none"} : BeginRun(how)) \/ Crash \/ EndPhase
      \/ UNCHANGED <<disk, mode, scenario, exposed>>
  <2>1. ASSUME NEW c \in Channel, Work(c)
        PROVE  Checkpoint(c) \/ Complete(c) \/ UNCHANGED <<disk, mode, scenario, exposed>>
    BY <2>1 DEF Work, Admit, SkipMessage, Known, Send, Answer, Cancelled
  <2>2. ASSUME NEW c \in Channel, Export(c) \/ WorkerFails(c) \/ PermissionStop(c)
        PROVE  UNCHANGED <<disk, mode, scenario, exposed>>
    BY <2>2 DEF Export, WorkerFails, PermissionStop, run
  <2>3. ASSUME RequestCancel \/ (\E c \in Channel, n \in 0..MaxMessages : Land(c, n))
               \/ UNCHANGED vars
        PROVE  UNCHANGED <<disk, mode, scenario, exposed>>
    BY <2>3 DEF RequestCancel, Land, run, vars
  <2>. QED  BY <2>1, <2>2, <2>3 DEF Next
<1>. QED  BY <1>1, <1>2, <1>3, <1>4

\* When the operator continues with --resume only, no message and no thread header is in
\* the destination twice: wherever the runs stop or die, whichever receipts a save has
\* retired, whatever answers are lost and however late requests land.
THEOREM DeliveredOnceResumed == ASSUME OnlyResumed PROVE Spec => []DeliveredOnce
<1>1. Init => ResumedInv
  <2> SUFFICES ASSUME Init PROVE ResumedInv
    OBVIOUS
  <2>1. \A k \in 1..Len(scenario.runs) : scenario.runs[k] # "incremental"
    BY DEF Init, OnlyResumed
  <2>2. \A c \in Channel : disk.high[c] = 0
    BY DEF Init, EmptyState
  <2>. QED  BY <2>1, <2>2 DEF Init, ResumedInv
<1>2. IInv /\ ResumedInv /\ [Next]_vars => ResumedInv'
  BY ResumedNext
<1>3. IInv /\ ResumedInv => DeliveredOnce
  BY DEF IInv, ResumedInv, NoDuplicate, DeliveredOnce
<1>. QED  BY <1>1, <1>2, <1>3, MessagesInvariant, PTL DEF Spec

\* Nothing is dropped silently, failures stay retryable, and what is in the destination
\* is known to the files.
THEOREM PhaseHolds == Spec => []PhaseInv
<1>1. IInv => PhaseInv
  BY DEF IInv, PhaseInv
<1>. QED  BY <1>1, MessagesInvariant, PTL

-----------------------------------------------------------------------------
(* What channel_message_counts holds.                                      *)

\* The sets that are counted are finite.
LEMMA CountedFinite ==
    ASSUME TypeOK, NEW c \in Channel
    PROVE  /\ Progress(c) \in 0..MaxMessages
           /\ IsFiniteSet(Counted(c)) /\ Counted(c) \subseteq Numbers
           /\ IsFiniteSet(Added(c)) /\ Added(c) \subseteq Numbers
<1>1. IsFiniteSet(Numbers)
  BY FS_Interval, MessagesAssumption DEF Numbers
<1>2. disk.high[c] \in 0..MaxMessages /\ disk.offset[c] \in 0..MaxMessages
  BY StateShape DEF TypeOK
<1>3. Progress(c) \in 0..MaxMessages
  BY <1>2, MessagesAssumption DEF Progress, Max2
<1>4. Counted(c) \subseteq Numbers
  BY <1>3, MessagesAssumption DEF Counted, Numbers
<1>5. Added(c) \subseteq Numbers
  BY DEF Added
<1>. QED  BY <1>1, <1>3, <1>4, <1>5, FS_Subset

\* An unresolved failure that is identified keeps its mark when receipts are retired.
LEMMA FailedKeepMarks ==
    ASSUME NEW m, NEW E, MaySave(m, E), NEW i \in m.failed, i \in m.marked
    PROVE  i \in AfterRetiring(m).marked
<1>1. m \in State /\ StatusOf(i) # "none" /\ i \notin m.ready
  BY DEF MaySave
<1>. QED  BY <1>1 DEF AfterRetiring, Retirable, State

\* The tally of a channel whose part of the files stays as it is.
LEMMA TallyStays ==
    ASSUME IInv, NEW c \in Channel, SavedTally(c), NEW m \in State, disk' = m,
           m.high[c] = disk.high[c], m.offset[c] = disk.offset[c], m.count[c] = disk.count[c],
           c \in m.completed => c \in disk.completed,
           \A i : i[1] = c => (i \in m.failed <=> i \in disk.failed),
           \A i : i[1] = c /\ i \in m.marked => i \in disk.marked,
           \A i : i[1] = c /\ i \in disk.failed /\ i \in disk.marked => i \in m.marked,
           \A i : i[1] = c /\ i \in m.failed /\ i \in m.marked => i \in mem'.marked
    PROVE  SavedTally(c)'
<1>1. Progress(c)' = Progress(c)
  BY DEF Progress
<1>2. \A n : <<c, n>>[1] = c
  OBVIOUS
<1>3. Counted(c)' = Counted(c)
  BY <1>1, <1>2 DEF Counted
<1>. QED  BY <1>1, <1>3 DEF SavedTally

\* Neither files nor results move, and the worker stays where it is or is not at work.
LEMMA TallyKept ==
    ASSUME CountInv, UNCHANGED <<disk, mem, exposed>>, NEW c \in Channel,
           \/ ~Active(c)'
           \/ /\ Active(c)
              /\ worker'[c].next = worker[c].next
              /\ worker'[c].skipBelow = worker[c].skipBelow
              /\ worker'[c].retry = worker[c].retry
              /\ result'[c] = result[c]
    PROVE  CountInv!(c)'
<1>1. CountInv!(c)
  BY DEF CountInv
<1>2. SavedTally(c) => SavedTally(c)'
  BY DEF SavedTally, Counted, Progress
<1>3. Sound(c)' = Sound(c)
  BY DEF Sound
<1>4. CASE ~Active(c)'
  BY <1>1, <1>2, <1>3, <1>4 DEF MarksTried, WorkTally
<1>5. CASE /\ Active(c)
           /\ worker'[c].next = worker[c].next
           /\ worker'[c].skipBelow = worker[c].skipBelow
           /\ worker'[c].retry = worker[c].retry
           /\ result'[c] = result[c]
  <2>1. Tried(c)' = Tried(c) /\ Added(c)' = Added(c) /\ Progress(c)' = Progress(c)
    BY <1>5 DEF Tried, Added, Progress
  <2>2. MarksTried(c)'
    BY <1>1, <1>5, <2>1 DEF MarksTried
  <2>3. WorkTally(c) => WorkTally(c)'
    BY <1>5, <2>1 DEF WorkTally
  <2>. QED  BY <1>1, <1>2, <1>3, <2>2, <2>3
<1>. QED  BY <1>4, <1>5

\* A run is over or begins: nobody is at work, and the files keep their parts.
LEMMA TallySaved ==
    ASSUME IInv, CountInv, NEW m, NEW E, MaySave(m, E), disk' = m,
           m.high = disk.high, m.offset = disk.offset, m.count = disk.count,
           m.failed = disk.failed, m.completed \subseteq disk.completed,
           m.marked \in {disk.marked, mem.marked},
           mem' \in {m, AfterRetiring(m)},
           exposed' = exposed \union E,
           \A c \in Channel : ~Active(c)'
    PROVE  CountInv'
<1> SUFFICES ASSUME NEW c \in Channel PROVE CountInv!(c)'
  BY DEF CountInv
<1>1. CountInv!(c) /\ MarksTried(c)' /\ WorkTally(c)'
  BY DEF CountInv, MarksTried, WorkTally
<1>2. ASSUME Sound(c)' PROVE SavedTally(c)'
  <2>1. SavedTally(c)
    BY <1>1, <1>2 DEF Sound
  <2>2. \A i : i[1] = c /\ i \in m.marked => i \in disk.marked
    BY DEF IInv, MemoryInv
  <2>3. \A i : i[1] = c /\ i \in disk.failed /\ i \in disk.marked => i \in m.marked
    BY <2>1 DEF SavedTally
  <2>4. \A i : i[1] = c /\ i \in m.failed /\ i \in m.marked => i \in mem'.marked
    BY FailedKeepMarks
  <2>5. m \in State
    BY DEF MaySave
  <2>. QED  BY <2>1, <2>2, <2>3, <2>4, <2>5, TallyStays
<1>. QED  BY <1>1, <1>2

LEMMA InitTally == Init => CountInv
<1> SUFFICES ASSUME Init, NEW c \in Channel PROVE CountInv!(c)
  BY DEF CountInv
<1>1. ~Active(c)
  BY DEF Init, Active, Idle
<1>2. Progress(c) = 0 /\ disk.count[c] = 0 /\ disk.offset[c] <= disk.high[c]
  BY DEF Init, EmptyState, Progress, Max2
<1>3. Counted(c) = {}
  BY <1>2 DEF Counted
<1>4. Cardinality(Counted(c)) = 0
  BY <1>3, FS_EmptySet
<1>. QED  BY <1>1, <1>2, <1>4 DEF Init, EmptyState, MarksTried, SavedTally, WorkTally

\* A worker starts where the saved state lets it.
LEMMA AdmitTally == ASSUME IInv, CountInv, NEW c \in Channel, Admit(c) PROVE CountInv'
<1> USE DEF Admit, service
<1>1. ASSUME NEW d \in Channel, d # c PROVE CountInv!(d)'
  <2>1. worker'[d] = worker[d]
    BY <1>1 DEF IInv, TypeOK
  <2>. QED  BY <2>1, TallyKept DEF Active
<1>2. CountInv!(c)'
  <2>1. /\ worker'[c].skipBelow = Threshold(c) /\ worker'[c].retry = FailuresHere(c)
        /\ worker'[c].next <= 1
    BY DEF IInv, TypeOK
  <2>2. result'[c] = EmptyResult
    BY DEF IInv, WorkerInv
  <2>3. /\ disk.high[c] \in Nat /\ disk.offset[c] \in Nat
        /\ mem.high = disk.high /\ mem.offset = disk.offset /\ mem.failed = disk.failed
    <3>1. disk.high[c] \in 0..MaxMessages /\ disk.offset[c] \in 0..MaxMessages
      BY StateShape DEF IInv, TypeOK
    <3>. QED  BY <3>1, MessagesAssumption DEF IInv, MemoryInv
  <2>4. Threshold(c) <= Progress(c)'
    BY <2>3 DEF Threshold, Progress, Max2
  <2>5. \A i \in FailuresHere(c) : i \in disk.failed
    BY <2>3 DEF FailuresHere
  <2>6. Tried(c)' = {} /\ Added(c)' = {} /\ result'[c].count = 0
        /\ result'[c].tokens = {} /\ result'[c].marked = {}
    BY <2>2 DEF Tried, Added, EmptyResult
  <2>7. \A n \in Numbers : ~(n < worker'[c].next /\ n > Threshold(c))
    <3>1. Threshold(c) \in Nat /\ worker'[c].next \in {0, 1}
      BY <2>3 DEF Threshold, Max2, IInv, TypeOK
    <3>. QED  BY <3>1, MessagesAssumption DEF Numbers
  <2>8. Cardinality(Added(c)') = 0
    BY <2>6, FS_EmptySet
  <2>9. MarksTried(c)' /\ WorkTally(c)'
    BY <2>1, <2>4, <2>5, <2>6, <2>7, <2>8 DEF MarksTried, WorkTally
  <2>10. Sound(c)' = Sound(c) /\ (SavedTally(c) => SavedTally(c)')
    BY DEF Sound, SavedTally, Counted, Progress
  <2>. QED  BY <2>9, <2>10 DEF CountInv
<1>. QED  BY <1>1, <1>2 DEF CountInv

\* A message that is skipped is one that the progress has passed.
LEMMA SkipTally == ASSUME IInv, CountInv, NEW c \in Channel, SkipMessage(c) PROVE CountInv'
<1> USE DEF SkipMessage, service
<1>1. ASSUME NEW d \in Channel, d # c PROVE CountInv!(d)'
  <2>1. worker'[d] = worker[d]
    BY <1>1 DEF IInv, TypeOK
  <2>. QED  BY <2>1, TallyKept DEF Active
<1>2. CountInv!(c)'
  <2>1. /\ worker'[c].skipBelow = worker[c].skipBelow /\ worker'[c].retry = worker[c].retry
        /\ worker'[c].next = worker[c].next + 1
        /\ Active(c)
        /\ worker[c].next \in Nat /\ worker[c].skipBelow \in Nat
        /\ worker[c].next <= worker[c].skipBelow
    <3>1. worker[c].next \in Nat /\ worker[c].skipBelow \in Nat
      BY WorkerShape, MessagesAssumption DEF IInv
    <3>. QED  BY <3>1 DEF IInv, TypeOK, Worker, Skipped, SkipsOver, Active
  <2>2. Tried(c)' = Tried(c) /\ Added(c)' = Added(c) /\ Progress(c)' = Progress(c)
        /\ Sound(c)' = Sound(c)
    BY DEF Tried, Added, Progress, Sound
  <2>3. CountInv!(c)
    BY DEF CountInv
  <2>4. MarksTried(c)'
    BY <2>1, <2>2, <2>3 DEF MarksTried
  <2>5. WorkTally(c) => WorkTally(c)'
    <3> SUFFICES ASSUME WorkTally(c) PROVE WorkTally(c)'
      OBVIOUS
    <3>1. \A n \in Numbers : n > worker[c].skipBelow => ~(n < worker'[c].next)
      BY <2>1, MessagesAssumption DEF Numbers
    <3>2. \A i \in worker[c].retry : i[2] >= worker'[c].next => i[2] >= worker[c].next
      <4>1. \A i \in worker[c].retry : i[2] \in Nat
        BY WorkerShape, ItemShape, MessagesAssumption DEF IInv
      <4>. QED  BY <2>1, <4>1
    <3>. QED  BY <2>1, <2>2, <3>1, <3>2 DEF WorkTally
  <2>6. SavedTally(c) => SavedTally(c)'
    BY DEF SavedTally, Counted, Progress
  <2>. QED  BY <2>2, <2>3, <2>4, <2>5, <2>6
<1>. QED  BY <1>1, <1>2 DEF CountInv


\* The end of a delivery counts its message, unless it was counted before.
LEMMA OutcomeTally ==
    ASSUME IInv, CountInv, NEW c \in Channel, NEW how \in Ending, Ended(c, how),
           Delivering(c) \/ worker[c].stage = "waiting",
           UNCHANGED <<exported, disk, mem, exposed>>
    PROVE  CountInv'
<1>1. PICK n \in 0..MaxMessages : n = worker[c].next
  BY InHandFree
<1>2. /\ Active(c) /\ Due(c) /\ SkipLimit(c) = worker[c].skipBelow
      /\ n = 0 \/ ~Skipped(c)
      /\ n \in Nat /\ worker[c].skipBelow \in Nat
      /\ PlaceInv!(c) /\ WorkerInv!(c) /\ CountInv!(c)
  BY <1>1, InHandFree, WorkerShape, MessagesAssumption DEF IInv, PlaceInv, WorkerInv, CountInv
<1>3. /\ \A d \in Channel \ {c} : worker'[d] = worker[d] /\ result'[d] = result[d]
      /\ worker'[c].stage = "loop" /\ worker'[c].next = n + 1
      /\ worker'[c].skipBelow = worker[c].skipBelow /\ worker'[c].retry = worker[c].retry
      /\ n = 0 => result'[c] = result[c]
      /\ n # 0 => \A i : /\ i \in result'[c].failed <=>
                              i \in result[c].failed \/ (how # "resolved" /\ i = <<c, n>>)
                         /\ i \in result'[c].tokens <=>
                              i \in result[c].tokens \/ (how = "resolved" /\ i = <<c, n>>)
                         /\ i \in result'[c].marked <=>
                              i \in result[c].marked \/ (how # "failed" /\ i = <<c, n>>)
      /\ n # 0 => result'[c].count =
                    IF how # "failed" /\ <<c, n>> \notin mem.marked \union result[c].marked
                    THEN result[c].count + 1 ELSE result[c].count
  BY <1>1, OutcomeShape DEF IInv
<1>4. ASSUME NEW d \in Channel, d # c PROVE CountInv!(d)'
  BY <1>3, <1>4, TallyKept DEF Active
<1>5. SavedTally(c) => SavedTally(c)'
  BY DEF SavedTally, Counted, Progress
<1>6. Sound(c)' = Sound(c) /\ Progress(c)' = Progress(c)
  BY DEF Sound, Progress
<1>7. \A k \in Numbers : k < n + 1 => k < n \/ k = n
  BY <1>2, MessagesAssumption DEF Numbers
<1>8. \A i \in worker[c].retry : i[2] >= n + 1 => i[2] >= n
  <2>1. \A i \in worker[c].retry : i[2] \in Nat
    BY WorkerShape, ItemShape, MessagesAssumption DEF IInv
  <2>. QED  BY <1>2, <2>1
<1>9. CASE n = 0
  <2>1. Tried(c)' = Tried(c) /\ Added(c)' = Added(c)
    BY <1>3, <1>9 DEF Tried, Added
  <2>2. MarksTried(c)'
    BY <1>2, <1>3, <1>9, <2>1 DEF MarksTried
  <2>3. WorkTally(c) => WorkTally(c)'
    <3>1. \A k \in Numbers : ~(k < n + 1)
      BY <1>9, MessagesAssumption DEF Numbers
    <3>. QED  BY <1>1, <1>2, <1>3, <1>6, <1>8, <1>9, <2>1, <3>1 DEF WorkTally
  <2>4. CountInv!(c)'
    BY <1>2, <1>5, <1>6, <2>2, <2>3
  <2>. QED  BY <1>4, <2>4 DEF CountInv
<1>10. CASE n # 0
  <2>1. /\ n \in Numbers /\ <<c, n>>[1] = c /\ <<c, n>>[2] = n
        /\ \A i : i \in Tried(c)' <=> i \in Tried(c) \/ i = <<c, n>>
    BY <1>2, <1>3, <1>10, MessagesAssumption DEF Tried, Ending, Numbers
  <2>2. MarksTried(c)'
    BY <1>2, <1>3, <1>10, <2>1 DEF MarksTried, Tried
  <2>3. ASSUME Sound(c) PROVE WorkTally(c)'
    <3>1. WorkTally(c) /\ Active(c)
      BY <1>2, <2>3
    <3>2. <<c, n>> \in disk.failed \/ n > Progress(c)
      <4>1. CASE <<c, n>> \in worker[c].retry
        BY <1>1, <1>2, <2>1, <3>1, <4>1 DEF WorkTally
      <4>2. CASE <<c, n>> \notin worker[c].retry
        <5>1. n > worker[c].skipBelow
          BY <1>1, <1>2, <1>10, <4>2 DEF Skipped, SkipsOver
        <5>2. <<c, n>> \notin exposed
          BY <2>1, <2>3 DEF Sound
        <5>3. Progress(c) \in Nat
          BY CountedFinite, MessagesAssumption DEF IInv
        <5>. QED  BY <1>1, <1>2, <2>1, <5>1, <5>2, <5>3
      <4>. QED  BY <4>1, <4>2
    <3>3. \A i \in Tried(c)' : i \in disk.failed \/ i[2] > Progress(c)
      BY <2>1, <3>1, <3>2 DEF WorkTally
    <3>4. \A k \in Numbers : k > worker[c].skipBelow /\ k < n + 1 =>
             <<c, k>> \in Tried(c)' \/ k <= Progress(c)
      BY <1>1, <1>7, <2>1, <3>1 DEF WorkTally
    <3>5. \A i \in worker[c].retry : i[2] >= n + 1 => i \in disk.failed
      BY <1>1, <1>8, <3>1 DEF WorkTally
    <3>6. result'[c].count = Cardinality(Added(c)')
      <4>1. CASE how # "failed" /\ <<c, n>> \notin mem.marked \union result[c].marked
        <5>1. Added(c)' = Added(c) \union {n} /\ n \notin Added(c)
          BY <1>3, <1>10, <2>1, <4>1 DEF Added
        <5>2. IsFiniteSet(Added(c))
          BY CountedFinite DEF IInv
        <5>3. Cardinality(Added(c)') = Cardinality(Added(c)) + 1
          BY <5>1, <5>2, FS_AddElement
        <5>. QED  BY <1>3, <1>10, <3>1, <4>1, <5>3 DEF WorkTally
      <4>2. CASE ~(how # "failed" /\ <<c, n>> \notin mem.marked \union result[c].marked)
        <5>1. Added(c)' = Added(c)
          BY <1>3, <1>10, <4>2 DEF Added
        <5>. QED  BY <1>3, <1>10, <3>1, <4>2, <5>1 DEF WorkTally
      <4>. QED  BY <4>1, <4>2
    <3>. QED  BY <1>3, <1>6, <3>1, <3>3, <3>4, <3>5, <3>6 DEF WorkTally
  <2>4. CountInv!(c)'
    BY <1>2, <1>5, <1>6, <2>2, <2>3
  <2>. QED  BY <1>4, <2>4 DEF CountInv
<1>. QED  BY <1>9, <1>10

LEMMA KnownTally == ASSUME IInv, CountInv, NEW c \in Channel, Known(c) PROVE CountInv'
<1>1. Delivering(c) /\ UNCHANGED <<exported, disk, mem, exposed>>
  BY DEF Known
<1>2. Outcome(c, TRUE, TRUE) \/ Outcome(c, TRUE, FALSE) \/ Outcome(c, FALSE, FALSE)
  BY DEF Known
<1>3. \E how \in Ending : Ended(c, how)
  BY <1>2, OutcomeEnded DEF Ending
<1>. QED  BY <1>1, <1>3, OutcomeTally

LEMMA AnswerTally == ASSUME IInv, CountInv, NEW c \in Channel, Answer(c) PROVE CountInv'
<1>1. worker[c].stage = "waiting" /\ UNCHANGED <<exported, disk, mem, exposed>>
  BY DEF Answer
<1>2. Outcome(c, TRUE, TRUE) \/ Outcome(c, TRUE, FALSE) \/ Outcome(c, FALSE, FALSE)
  BY DEF Answer
<1>3. \E how \in Ending : Ended(c, how)
  BY <1>2, OutcomeEnded DEF Ending
<1>. QED  BY <1>1, <1>3, OutcomeTally

LEMMA SendTally == ASSUME IInv, CountInv, NEW c \in Channel, Send(c) PROVE CountInv'
<1>1. /\ UNCHANGED <<disk, mem, exposed, result>>
      /\ worker' = [worker EXCEPT ![c].stage = "waiting"]
      /\ Active(c)
  BY DEF Send, Delivering, Active
<1>2. worker \in [Channel -> Worker]
  BY DEF IInv, TypeOK
<1>3. ASSUME NEW d \in Channel, d # c PROVE CountInv!(d)'
  BY <1>1, <1>2, <1>3, TallyKept DEF Active
<1>4. worker'[c] = [worker[c] EXCEPT !.stage = "waiting"]
  BY <1>1, <1>2
<1>5. CountInv!(c)'
  BY <1>1, <1>2, <1>4, TallyKept DEF Worker
<1>. QED  BY <1>3, <1>5 DEF CountInv


\* What the state m takes over from worker c when it is saved.
Merging(c, m) ==
    /\ m \in State
    /\ \A d \in Channel \ {c} : m.high[d] = disk.high[d] /\ m.offset[d] = disk.offset[d]
    /\ m.failed = Merged(mem, c).failed
    /\ m.count = Merged(mem, c).count
    /\ \A i : i \in m.marked => i \in Merged(mem, c).marked \/ i = <<c, 0>>
    /\ \A i : i \in Merged(mem, c).marked => i \in m.marked
    /\ \A i \in m.ready : i \in Merged(mem, c).ready \/ i = <<c, 0>>
    /\ \A d \in Channel \ {c} : d \in m.completed => d \in disk.completed
    /\ c \in m.completed => m.offset[c] <= m.high[c]

\* A merge adds to the counted messages those that the worker has identified, each once.
LEMMA MergedCounted ==
    ASSUME IInv, NEW c \in Channel, worker[c].stage = "loop", CountInv!(c), Sound(c),
           NEW m, Merging(c, m), disk' = m,
           Max2(m.high[c], m.offset[c]) = Max2(Progress(c), worker[c].next - 1)
    PROVE  /\ Counted(c)' = Counted(c) \union Added(c)
           /\ Counted(c) \cap Added(c) = {}
           /\ Progress(c)' = Max2(Progress(c), worker[c].next - 1)
           /\ worker[c].next \in Nat \ {0} /\ Progress(c) \in Nat
           /\ m.count[c] = disk.count[c] + result[c].count
           /\ \A i \in m.failed : i \in disk.failed \/ i \in Tried(c)
           /\ \A i \in disk.failed : i \in m.failed \/ i \in Tried(c)
           /\ \A i \in m.marked : \/ i \in mem.marked \/ i = <<c, 0>>
                                  \/ i \in Tried(c)
           /\ mem.marked \subseteq disk.marked
<1>1. /\ Active(c) /\ PlaceInv!(c) /\ WorkerInv!(c) /\ MarksTried(c) /\ SavedTally(c) /\ WorkTally(c)
      /\ worker[c].next > 0
  BY DEF IInv, PlaceInv, WorkerInv, Active
<1>2. /\ Progress(c)' = Max2(Progress(c), worker[c].next - 1)
      /\ Progress(c) \in Nat /\ worker[c].next \in Nat /\ worker[c].skipBelow \in Nat
  BY CountedFinite, WorkerShape, MessagesAssumption DEF Merging, IInv, Progress
<1>3. /\ \A i : i \in m.failed <=> (i \in disk.failed \/ i \in result[c].failed) /\ i \notin result[c].tokens
      /\ \A i : i \in m.marked => i \in mem.marked \/ i \in result[c].marked \/ i = <<c, 0>>
      /\ \A i : i \in mem.marked \/ i \in result[c].marked => i \in m.marked
      /\ mem.marked \subseteq disk.marked
      /\ m.count[c] = disk.count[c] + result[c].count
  <2>1. /\ m.failed = (disk.failed \union result[c].failed) \ result[c].tokens
        /\ Merged(mem, c).marked = mem.marked \union result[c].marked
        /\ m.count = [disk.count EXCEPT ![c] = @ + result[c].count]
    BY MergedShape DEF Merging
  <2>2. mem.marked \subseteq disk.marked
    BY DEF IInv, MemoryInv
  <2>3. disk.count \in [Channel -> Nat]
    BY StateShape DEF IInv, TypeOK
  <2>. QED  BY <2>1, <2>2, <2>3 DEF Merging
<1>4. ASSUME NEW n \in Numbers
      PROVE  /\ n \in Counted(c)' <=> n \in Counted(c) \/ n \in Added(c)
             /\ ~(n \in Counted(c) /\ n \in Added(c))
  <2> DEFINE i == <<c, n>>
  <2>1. /\ n \in 1..MaxMessages /\ n \in Nat /\ i[1] = c /\ i[2] = n /\ i # <<c, 0>>
    BY MessagesAssumption DEF Numbers
  <2>2. /\ n \in Counted(c) <=> n <= Progress(c) /\ (i \notin disk.failed \/ i \in disk.marked)
        /\ n \in Added(c) <=> i \in result[c].marked /\ i \notin mem.marked
        /\ n \in Counted(c)' <=> n <= Progress(c)' /\ (i \notin m.failed \/ i \in m.marked)
    <3>1. Progress(c)' \in Nat
      BY <1>2 DEF Max2
    <3>. QED  BY <1>2, <2>1, <3>1 DEF Counted, Added
  <2> HIDE DEF i
  <2>3. /\ i \in disk.marked => n <= Progress(c)
        /\ i \in disk.failed /\ i \in disk.marked => i \in mem.marked
    BY <1>1, <2>1 DEF SavedTally
  <2>4. i \in m.marked <=> i \in mem.marked \/ i \in result[c].marked
    BY <1>3, <2>1
  <2>5. CASE i \in Tried(c)
    <3>1. i \in disk.failed \/ n > Progress(c)
      BY <1>1, <2>1, <2>5 DEF WorkTally
    <3>2. n <= Progress(c)'
      BY <1>1, <1>2, <2>1, <2>5 DEF Max2
    <3>3. i \in result[c].tokens => i \in result[c].marked
      BY <1>1 DEF MarksTried
    <3>4. i \notin result[c].tokens => i \in m.failed
      BY <1>3, <2>5 DEF Tried
    <3>5. i \in result[c].tokens => i \notin m.failed
      BY <1>3
    <3>6. n <= Progress(c) => ~(n > Progress(c))
      BY <1>2, <2>1
    <3>. QED  BY <1>3, <2>2, <2>3, <2>4, <3>1, <3>2, <3>3, <3>4, <3>5, <3>6
  <2>6. CASE i \notin Tried(c)
    <3>1. i \notin result[c].marked
      BY <1>1, <2>6 DEF MarksTried
    <3>2. i \in m.failed <=> i \in disk.failed
      BY <1>3, <2>6 DEF Tried
    <3>3. n <= Progress(c)' <=> n <= Progress(c)
      <4>1. n > worker[c].skipBelow /\ n < worker[c].next => n <= Progress(c)
        BY <1>1, <2>6 DEF WorkTally, i
      <4>2. worker[c].skipBelow <= Progress(c)
        BY <1>1 DEF WorkTally
      <4>. QED  BY <1>1, <1>2, <2>1, <4>1, <4>2 DEF Max2
    <3>. QED  BY <1>3, <2>2, <2>3, <2>4, <3>1, <3>2, <3>3
  <2>. QED  BY <2>5, <2>6
<1>5. Counted(c)' \subseteq Numbers /\ Counted(c) \subseteq Numbers /\ Added(c) \subseteq Numbers
  <2>1. Progress(c)' \in 0..MaxMessages
    <3>1. m.high[c] \in 0..MaxMessages /\ m.offset[c] \in 0..MaxMessages
      BY StateShape DEF Merging
    <3>. QED  BY <3>1, MessagesAssumption DEF Progress, Max2
  <2>2. Counted(c)' \subseteq Numbers
    BY <2>1, MessagesAssumption DEF Counted, Numbers
  <2>. QED  BY <2>2, CountedFinite DEF IInv
<1>6. Counted(c)' = Counted(c) \union Added(c) /\ Counted(c) \cap Added(c) = {}
  BY <1>4, <1>5
<1>7. \A i \in result[c].marked : i \in Tried(c)
  BY <1>1 DEF MarksTried
<1>. QED  BY <1>1, <1>2, <1>3, <1>6, <1>7 DEF Tried


\* What a save with worker c's result leaves to the other channels.
LEMMA OthersTally ==
    ASSUME IInv, CountInv, NEW c \in Channel, worker[c].stage = "loop",
           NEW m, NEW E, MaySave(m, E), Merging(c, m), disk' = m,
           mem' \in {m, AfterRetiring(m)}, exposed' = exposed \union E,
           NEW d \in Channel \ {c},
           \/ ~Active(d)'
           \/ worker'[d] = worker[d] /\ result'[d] = result[d] /\ mem' = AfterRetiring(m)
    PROVE  CountInv!(d)'
<1>1. /\ CountInv!(d) /\ CountInv!(c) /\ WorkerInv!(d) /\ WorkerInv!(c) /\ Active(c)
  BY DEF CountInv, IInv, WorkerInv, Active
<1>2. /\ m.failed = (disk.failed \union result[c].failed) \ result[c].tokens
      /\ \A i : i \in m.marked => i \in mem.marked \/ i \in result[c].marked \/ i = <<c, 0>>
      /\ \A i : i \in mem.marked \/ i \in result[c].marked => i \in m.marked
      /\ \A i \in m.ready : i \in mem.ready \/ i \in result[c].tokens \/ i = <<c, 0>>
      /\ mem.ready \subseteq disk.ready /\ mem.marked \subseteq disk.marked
      /\ m.high[d] = disk.high[d] /\ m.offset[d] = disk.offset[d]
      /\ d \in m.completed => d \in disk.completed
  BY ZenonT(30), MergedShape DEF Merging, IInv, MemoryInv
<1>3. m.count[d] = disk.count[d]
  <2>1. m.count = [disk.count EXCEPT ![c] = @ + result[c].count]
    BY MergedShape DEF Merging
  <2>2. disk.count \in [Channel -> Nat]
    BY StateShape DEF IInv, TypeOK
  <2>. QED  BY <2>1, <2>2
<1>4. \A i : i \in result[c].failed \/ i \in result[c].tokens \/ i \in result[c].marked => i[1] = c
  BY <1>1 DEF MarksTried, Tried
<1>5. \A i : i[1] = d => /\ i \in m.failed <=> i \in disk.failed
                         /\ i \in m.marked <=> i \in mem.marked
                         /\ i \in m.ready => i \in disk.ready
  <2>1. \A i : i[1] = d => i # <<c, 0>>
    OBVIOUS
  <2>. QED  BY <1>2, <1>4, <2>1
<1>6. \A i : i[1] = d /\ i \in m.failed /\ i \in m.marked => i \in mem'.marked
  BY FailedKeepMarks
<1>7. SavedTally(d) => SavedTally(d)'
  <2> SUFFICES ASSUME SavedTally(d) PROVE SavedTally(d)'
    OBVIOUS
  <2>1. \A i : i[1] = d /\ i \in disk.failed /\ i \in disk.marked => i \in m.marked
    BY <1>5 DEF SavedTally
  <2>2. \A i : i[1] = d /\ i \in m.marked => i \in disk.marked
    BY <1>2, <1>5
  <2>3. m \in State
    BY DEF Merging
  <2>. QED  BY <1>2, <1>3, <1>5, <1>6, <2>1, <2>2, <2>3, TallyStays
<1>8. Sound(d)' => Sound(d)
  BY DEF Sound
<1>9. CASE ~Active(d)'
  BY <1>1, <1>7, <1>8, <1>9 DEF MarksTried, WorkTally
<1>10. CASE Active(d)' /\ worker'[d] = worker[d] /\ result'[d] = result[d] /\ mem' = AfterRetiring(m)
  <2>1. Active(d) /\ Tried(d)' = Tried(d) /\ Progress(d)' = Progress(d)
    BY <1>2, <1>10 DEF Active, Tried, Progress
  <2>2. MarksTried(d)'
    BY <1>1, <1>10, <2>1 DEF MarksTried
  <2>3. \A i \in Tried(d) : i \in mem'.marked <=> i \in mem.marked
    <3> TAKE i \in Tried(d)
    <3>1. i[1] = d /\ i \notin disk.ready /\ StatusOf(i) # "none"
      BY <1>1, <2>1
    <3>2. i \in AfterRetiring(m).marked <=> i \in m.marked
      BY <1>5, <3>1 DEF AfterRetiring, Retirable, Merging, State
    <3>. QED  BY <1>5, <1>10, <3>1, <3>2
  <2>4. Added(d)' = Added(d)
    <3>1. \A i \in result[d].marked : i \in Tried(d)
      BY <1>1, <2>1 DEF MarksTried
    <3>. QED  BY <1>10, <2>3, <3>1 DEF Added
  <2>5. ASSUME Sound(d)' PROVE WorkTally(d)'
    <3>1. WorkTally(d)
      BY <1>1, <1>8, <2>5
    <3>2. \A i \in Tried(d) \union worker[d].retry : i[1] = d
      BY <1>1, <2>1
    <3>. QED  BY <1>5, <1>10, <2>1, <2>4, <3>1, <3>2 DEF WorkTally
  <2>. QED  BY <1>1, <1>7, <1>8, <2>2, <2>5
<1>. QED  BY <1>9, <1>10

\* A save with worker c's result.
LEMMA MergeTally ==
    ASSUME IInv, CountInv, NEW c \in Channel, worker[c].stage = "loop",
           NEW m, NEW E, MaySave(m, E), Merging(c, m), disk' = m,
           mem' \in {m, AfterRetiring(m)}, exposed' = exposed \union E,
           Sound(c)' => Max2(m.high[c], m.offset[c]) = Max2(Progress(c), worker[c].next - 1),
           \A d \in Channel \ {c} :
              \/ ~Active(d)'
              \/ worker'[d] = worker[d] /\ result'[d] = result[d] /\ mem' = AfterRetiring(m),
           ~Active(c)' \/ (worker'[c] = worker[c] /\ result'[c] = EmptyResult)
    PROVE  CountInv'
<1>1. ASSUME NEW d \in Channel \ {c} PROVE CountInv!(d)'
  BY OthersTally
<1>2. CountInv!(c)'
  <2>1. /\ CountInv!(c) /\ WorkerInv!(c) /\ Active(c) /\ m \in State
    BY DEF CountInv, IInv, WorkerInv, Active, Merging
  <2>2. MarksTried(c)'
    BY DEF MarksTried, EmptyResult
  <2>3. ASSUME Sound(c)' PROVE SavedTally(c)' /\ WorkTally(c)'
    <3>1. Sound(c) /\ SavedTally(c) /\ WorkTally(c)
      BY <2>1, <2>3 DEF Sound
    <3>2. /\ Counted(c)' = Counted(c) \union Added(c)
          /\ Counted(c) \cap Added(c) = {}
          /\ Progress(c)' = Max2(Progress(c), worker[c].next - 1)
          /\ worker[c].next \in Nat \ {0} /\ Progress(c) \in Nat
          /\ m.count[c] = disk.count[c] + result[c].count
          /\ \A i \in m.failed : i \in disk.failed \/ i \in Tried(c)
          /\ \A i \in disk.failed : i \in m.failed \/ i \in Tried(c)
          /\ \A i \in m.marked : \/ i \in mem.marked \/ i = <<c, 0>>
                                 \/ i \in Tried(c)
          /\ mem.marked \subseteq disk.marked
      BY <2>1, <2>3, <3>1, MergedCounted
    <3>3. /\ worker[c].skipBelow \in Nat
          /\ \A i \in Tried(c) : i[2] \in Nat
          /\ \A i \in disk.marked : i[2] \in Nat
          /\ \A i \in worker[c].retry : i[2] \in Nat
      <4>1. disk.marked \subseteq Item
        BY StateShape DEF IInv, TypeOK
      <4>. QED  BY <4>1, WorkerShape, ItemShape, MessagesAssumption DEF IInv, Tried
    <3>4. /\ Progress(c) <= Progress(c)' /\ worker[c].next - 1 <= Progress(c)' /\ Progress(c)' \in Nat
      BY <3>2 DEF Max2
    <3>5. SavedTally(c)'
      <4>1. m.count[c] = Cardinality(Counted(c)')
        <5>1. Cardinality(Counted(c) \union Added(c)) = Cardinality(Counted(c)) + Cardinality(Added(c))
          <6>1. IsFiniteSet(Counted(c)) /\ IsFiniteSet(Added(c))
            BY CountedFinite DEF IInv
          <6>2. /\ Cardinality(Counted(c)) \in Nat /\ Cardinality(Added(c)) \in Nat
            BY <6>1, FS_CardinalityType
          <6>3. Cardinality(Counted(c) \cap Added(c)) = 0
            BY <3>2, FS_EmptySet
          <6>4. Cardinality(Counted(c) \union Added(c)) =
                   Cardinality(Counted(c)) + Cardinality(Added(c)) - Cardinality(Counted(c) \cap Added(c))
            BY <6>1, FS_Union
          <6>. QED  BY <6>2, <6>3, <6>4
        <5>. QED  BY <2>1, <3>1, <3>2, <5>1 DEF SavedTally, WorkTally
      <4>2. ASSUME NEW i \in m.marked, i[1] = c PROVE i[2] <= Progress(c)'
        <5>1. CASE i \in mem.marked
          BY <3>1, <3>2, <3>3, <3>4, <4>2, <5>1 DEF SavedTally
        <5>2. CASE i = <<c, 0>>
          BY <3>4, <5>2
        <5>3. CASE i \in Tried(c)
          <6>1. i[2] < worker[c].next
            BY <2>1, <5>3
          <6>. QED  BY <3>2, <3>3, <3>4, <5>3, <6>1
        <5>. QED  BY <3>2, <5>1, <5>2, <5>3
      <4>3. \A i \in m.failed : i[1] = c /\ i \in m.marked => i \in mem'.marked
        BY FailedKeepMarks
      <4>. QED  BY <4>1, <4>2, <4>3 DEF SavedTally, Merging
    <3>6. WorkTally(c)'
      <4> SUFFICES ASSUME Active(c)' PROVE WorkTally(c)'
        BY DEF WorkTally
      <4>1. worker'[c] = worker[c] /\ Tried(c)' = {} /\ Added(c)' = {} /\ result'[c].count = 0
        BY DEF Tried, Added, EmptyResult
      <4>2. Cardinality(Added(c)') = 0
        BY <4>1, FS_EmptySet
      <4>3. worker[c].skipBelow <= Progress(c)'
        BY <2>1, <3>1, <3>2, <3>3, <3>4 DEF WorkTally
      <4>4. \A n \in Numbers : n < worker[c].next => n <= Progress(c)'
        BY <3>2, <3>4, MessagesAssumption DEF Numbers
      <4>5. ASSUME NEW i \in worker[c].retry, i[2] >= worker[c].next PROVE i \in m.failed
        <5>1. i \in disk.failed
          BY <2>1, <3>1, <4>5 DEF WorkTally
        <5>2. i \notin Tried(c)
          <6>1. i \in Tried(c) => i[2] < worker[c].next
            BY <2>1
          <6>. QED  BY <3>2, <3>3, <4>5, <6>1
        <5>. QED  BY <3>2, <5>1, <5>2
      <4>. QED  BY <4>1, <4>2, <4>3, <4>4, <4>5 DEF WorkTally
    <3>. QED  BY <3>5, <3>6
  <2>. QED  BY <2>2, <2>3
<1>. QED  BY <1>1, <1>2 DEF CountInv


LEMMA CheckpointTally == ASSUME IInv, CountInv, NEW c \in Channel, Checkpoint(c) PROVE CountInv'
<1> DEFINE m == CheckpointState(c)
<1>1. /\ worker[c].stage = "loop" /\ worker[c].next > 1 /\ Active(c)
      /\ <<c, worker[c].next - 1>> \in Tried(c)
      /\ SaveAnd(m, worker, Emptied(c))
      /\ exposed' = exposed \union PassedBack(c)
  BY DEF Checkpoint, Tried, Active
<1>2. /\ MaySave(m, PassedBack(c))
      /\ worker[c].next \in 1..MaxMessages + 1
  BY <1>1, CheckpointMaySave
<1>3. /\ m.high = disk.high /\ m.offset[c] = worker[c].next - 1 /\ m.completed = disk.completed
      /\ m.marked = Merged(mem, c).marked
  BY <1>2, CheckpointShape
<1>4. Merging(c, m)
  <2>1. c \notin disk.completed
    BY <1>1 DEF IInv, PlaceInv, Due
  <2>. QED  BY <1>2, <1>3, <2>1, CheckpointShape DEF Merging
<1>5. disk' = m /\ mem' \in {m, AfterRetiring(m)}
  BY <1>1 DEF SaveAnd, RunOver
<1>6. /\ disk.high[c] \in Nat /\ disk.offset[c] \in Nat /\ worker[c].next \in Nat
      /\ mem.high = disk.high /\ mem.offset = disk.offset
  <2>1. disk.high[c] \in Nat /\ disk.offset[c] \in Nat
    BY StateShape DEF IInv, TypeOK
  <2>. QED  BY <1>2, <2>1, MessagesAssumption DEF IInv, MemoryInv
<1>7. ASSUME Sound(c)' PROVE Max2(m.high[c], m.offset[c]) = Max2(Progress(c), worker[c].next - 1)
  <2>1. disk.offset[c] < Max2(worker[c].next, disk.high[c] + 1)
    <3> SUFFICES ASSUME disk.offset[c] >= Max2(worker[c].next, disk.high[c] + 1) PROVE FALSE
      BY <1>6 DEF Max2
    <3>1. disk.offset[c] \in Max2(worker[c].next, mem.high[c] + 1)..mem.offset[c]
      BY <1>6 DEF Max2
    <3>2. <<c, disk.offset[c]>> \in exposed'
      BY <1>1, <3>1 DEF PassedBack
    <3>. QED  BY <1>7, <3>2 DEF Sound
  <2>. QED  BY <1>3, <1>6, <2>1 DEF Progress, Max2
<1>8. \A d \in Channel \ {c} :
         ~Active(d)' \/ (worker'[d] = worker[d] /\ result'[d] = result[d] /\ mem' = AfterRetiring(m))
  BY <1>1 DEF SaveAnd, RunOver, Active, Idle, Emptied, IInv, TypeOK
<1>9. ~Active(c)' \/ (worker'[c] = worker[c] /\ result'[c] = EmptyResult)
  BY <1>1 DEF SaveAnd, RunOver, Active, Idle, Emptied, IInv, TypeOK
<1> HIDE DEF m
<1>. QED  BY <1>1, <1>2, <1>4, <1>5, <1>7, <1>8, <1>9, MergeTally

LEMMA CompleteTally == ASSUME IInv, CountInv, NEW c \in Channel, Complete(c) PROVE CountInv'
<1> DEFINE m == Completed(c)
           w == [worker EXCEPT ![c].stage = "done"]
<1>1. /\ worker[c].stage = "loop" /\ LoopOver(c) /\ Active(c) /\ Due(c)
      /\ SaveAnd(m, w, Emptied(c))
      /\ exposed' = exposed \union {}
  BY DEF Complete, Active, Due
<1>2. MaySave(m, {})
  BY <1>1, CompletedMaySave
<1>3. /\ m.high[c] = IF exported[c] > 0 THEN exported[c] ELSE disk.high[c]
      /\ m.offset[c] = 0
      /\ m.completed = disk.completed \union {c}
  BY CompletedShape
<1>4. /\ disk.high[c] \in Nat /\ disk.offset[c] \in Nat /\ worker[c].next \in Nat
      /\ m.high[c] \in Nat /\ exported[c] \in Nat
      /\ disk.high[c] <= exported[c] /\ disk.offset[c] <= exported[c]
      /\ worker[c].next = exported[c] + 1
  <2>1. disk.high[c] \in Nat /\ disk.offset[c] \in Nat
    BY StateShape DEF IInv, TypeOK
  <2>2. m.high \in [Channel -> 0..MaxMessages]
    BY <1>2, StateShape DEF MaySave
  <2>3. exported[c] \in Nat /\ worker[c].next \in Nat
    BY WorkerShape, MessagesAssumption DEF IInv, TypeOK
  <2>4. worker[c].next <= exported[c] + 1 /\ worker[c].next > exported[c]
    BY <1>1 DEF IInv, PlaceInv, LoopOver
  <2>. QED  BY <2>1, <2>2, <2>3, <2>4, MessagesAssumption DEF IInv, ShapeInv
<1>5. Merging(c, m)
  <2>1. m.offset[c] <= m.high[c]
    BY <1>3, <1>4
  <2>. QED  BY <1>2, <1>3, <2>1, CompletedShape DEF Merging
<1>6. disk' = m /\ mem' \in {m, AfterRetiring(m)}
  BY <1>1 DEF SaveAnd, RunOver
<1>7. Max2(m.high[c], m.offset[c]) = Max2(Progress(c), worker[c].next - 1)
  BY <1>3, <1>4 DEF Progress, Max2
<1>8. worker \in [Channel -> Worker] /\ result \in [Channel -> Result]
  BY DEF IInv, TypeOK
<1>9. w[c].stage = "done" /\ \A d \in Channel \ {c} : w[d] = worker[d]
  BY <1>8 DEF Worker
<1>10. \A d \in Channel \ {c} :
         ~Active(d)' \/ (worker'[d] = worker[d] /\ result'[d] = result[d] /\ mem' = AfterRetiring(m))
  BY <1>1, <1>8, <1>9 DEF SaveAnd, RunOver, Active, Idle, Emptied
<1>11. ~Active(c)'
  <2> HIDE DEF m, w
  <2>1. worker' = w \/ RunOver(m)
    BY <1>1 DEF SaveAnd
  <2>2. worker' = w \/ worker'[c] = Idle
    BY <2>1 DEF RunOver
  <2>. QED  BY <1>9, <2>2 DEF Active, Idle
<1> HIDE DEF m, w
<1>. QED  BY <1>1, <1>2, <1>5, <1>6, <1>7, <1>10, <1>11, MergeTally

LEMMA CrashTally == ASSUME IInv, CountInv, Crash PROVE CountInv'
<1>1. MaySave(disk, {})
  BY MemoryMaySave DEF IInv, TypeOK
<1>. QED  BY <1>1, TallySaved DEF Crash, RunOver, Active, Idle

LEMMA EndPhaseTally == ASSUME IInv, CountInv, EndPhase PROVE CountInv'
<1>1. MaySave(mem, {})
  BY MemoryMaySave DEF IInv, TypeOK, MemoryInv
<1>2. /\ disk' = mem /\ mem' = mem /\ exposed' = exposed \union {}
      /\ \A c \in Channel : ~Active(c)'
  BY DEF EndPhase, RunOver, Active, Idle
<1>3. /\ mem.high = disk.high /\ mem.offset = disk.offset /\ mem.count = disk.count
      /\ mem.failed = disk.failed /\ mem.completed = disk.completed
  BY DEF IInv, MemoryInv
<1>. QED  BY <1>1, <1>2, <1>3, TallySaved

LEMMA BeginRunTally ==
    ASSUME IInv, CountInv, NEW how \in Mode \ {"none"}, BeginRun(how) PROVE CountInv'
<1> DEFINE m == Loaded(how)
<1>1. MaySave(m, Forgotten(how))
  BY LoadedMaySave
<1>2. /\ disk' = m /\ mem' \in {m, AfterRetiring(m)}
      /\ exposed' = exposed \union Forgotten(how)
      /\ \A c \in Channel : ~Active(c)'
  BY DEF BeginRun, Active, Idle, Loaded
<1>3. /\ m.high = disk.high /\ m.offset = disk.offset /\ m.count = disk.count
      /\ m.failed = disk.failed /\ m.completed \subseteq disk.completed
      /\ m.marked = disk.marked
  BY LoadedShape
<1> HIDE DEF m
<1>. QED  BY <1>1, <1>2, <1>3, TallySaved

LEMMA EndedTally ==
    ASSUME IInv, CountInv, NEW c \in Channel,
           Cancelled(c) \/ WorkerFails(c) \/ PermissionStop(c) \/ Export(c)
    PROVE  CountInv'
<1>1. UNCHANGED <<disk, mem, exposed, result>>
  BY DEF Cancelled, WorkerFails, PermissionStop, Export, run
<1>2. \A d \in Channel : worker'[d] = worker[d] \/ ~Active(d)'
  <2>1. worker \in [Channel -> Worker]
    BY DEF IInv, TypeOK
  <2>2. \A d \in Channel : worker'[d] = worker[d] \/ worker'[d].stage \in {"stopped", "failed"}
    BY <2>1 DEF Cancelled, WorkerFails, PermissionStop, Export, run, Worker
  <2>. QED  BY <2>2 DEF Active
<1>3. ASSUME NEW d \in Channel PROVE CountInv!(d)'
  BY <1>1, <1>2, TallyKept DEF Active
<1>. QED  BY <1>3 DEF CountInv

LEMMA QuietTally ==
    ASSUME CountInv, UNCHANGED <<disk, mem, exposed, worker, result>> PROVE CountInv'
<1>1. ASSUME NEW d \in Channel PROVE CountInv!(d)'
  BY TallyKept DEF Active
<1>. QED  BY <1>1 DEF CountInv

LEMMA NextTally == ASSUME IInv, CountInv, [Next]_vars PROVE CountInv'
<1>1. ASSUME NEW c \in Channel, Work(c) PROVE CountInv'
  BY <1>1, AdmitTally, SkipTally, KnownTally, SendTally, AnswerTally, CheckpointTally,
     CompleteTally, EndedTally DEF Work
<1>2. ASSUME RequestCancel \/ (\E c \in Channel, n \in 0..MaxMessages : Land(c, n))
             \/ UNCHANGED vars
      PROVE  CountInv'
  <2>1. UNCHANGED <<disk, mem, exposed, worker, result>>
    BY <1>2 DEF RequestCancel, Land, vars, run
  <2>. QED  BY <2>1, QuietTally
<1>. QED  BY <1>1, <1>2, EndedTally, BeginRunTally, CrashTally, EndPhaseTally DEF Next

\* When a channel is complete, channel_message_counts has counted each of its messages
\* that is known to be in the destination exactly once, over all the runs it took.
THEOREM PhaseCountExact == Spec => []CountExact
<1>1. Init => CountInv
  BY InitTally
<1>2. IInv /\ CountInv /\ [Next]_vars => CountInv'
  BY NextTally
<1>3. IInv /\ CountInv => CountExact
  <2> SUFFICES ASSUME IInv, CountInv, NEW c \in disk.completed, \A i \in exposed : i[1] # c
               PROVE  disk.count[c] = Cardinality({n \in 1..disk.high[c] :
                            <<c, n>> \notin disk.failed \/ <<c, n>> \in disk.marked})
    BY DEF CountExact
  <2>1. c \in Channel /\ disk.high[c] \in Nat /\ disk.offset[c] \in Nat
    <3>1. c \in Channel
      BY StateShape DEF IInv, TypeOK
    <3>. QED  BY <3>1, StateShape DEF IInv, TypeOK
  <2>2. SavedTally(c)
    BY <2>1 DEF CountInv, Sound
  <2>3. Progress(c) = disk.high[c]
    BY <2>1, <2>2 DEF SavedTally, Progress, Max2
  <2>. QED  BY <2>2, <2>3 DEF SavedTally, Counted
<1>. QED  BY <1>1, <1>2, <1>3, MessagesInvariant, PTL DEF Spec

=============================================================================
