-------------------------- MODULE MessagesPhaseProps --------------------------
(***************************************************************************)
(* The properties of MessagesPhase.                                        *)
(***************************************************************************)
EXTENDS MessagesPhase

\* Type invariant of the phase's state.
TypeOK ==
    /\ exported \in [Channel -> 0..MaxMessages]
    /\ receipt \in [Channel -> [0..MaxMessages -> ReceiptStatus]]
    /\ copies \in [Channel -> [0..MaxMessages -> Nat]]
    /\ disk \in State
    /\ mem \in State
    /\ mode \in Mode
    /\ cancel \in BOOLEAN
    /\ worker \in [Channel -> Worker]
    /\ result \in [Channel -> Result]
    /\ scenario.stops \in Nat
    /\ exposed \subseteq Item

\* How far the saved state says a channel has been worked through.
Progress(c) == Max2(disk.high[c], disk.offset[c])

\* No message, and no thread header, is in the destination twice, however the
\* runs are interrupted and continued, but for messages that --resume after an
\* interrupted --incremental run starts below, and those an offset that a retry
\* moved back no longer covers (Forgotten, PassedBack).
NoDuplicate ==
    \A c \in Channel, n \in 0..MaxMessages : copies[c][n] <= 1 \/ <<c, n>> \in exposed

\* Nothing is dropped silently: a message the saved progress has passed is
\* in the destination or recorded as failed.
Accounted ==
    \A c \in Channel, n \in 1..MaxMessages :
        n <= Progress(c) => copies[c][n] > 0 \/ <<c, n>> \in disk.failed

\* When a channel is complete, channel_message_counts has counted each of its
\* messages that is known to be in the destination exactly once, over all the
\* runs it took: retried, recovered and partial messages too (but for a channel
\* with messages that are sent again).
CountExact ==
    \A c \in disk.completed :
        (\A i \in exposed : i[1] # c) =>
        disk.count[c] = Cardinality({n \in 1..disk.high[c] :
                            <<c, n>> \notin disk.failed \/ <<c, n>> \in disk.marked})

\* What is in the destination is known to the files: it has a receipt, or
\* the saved progress has passed it.
EvidenceOrProgress ==
    \A c \in Channel, n \in 1..MaxMessages :
        copies[c][n] > 0 =>
            receipt[c][n] # "none" \/ n <= Progress(c) \/ <<c, n>> \in exposed

\* A recorded failure keeps the receipt a later retry needs.
FailureRetryable == \A i \in disk.failed : StatusOf(i) # "none"

\* Nobody waits for ever: as long as the run is in the phase a worker can go on,
\* or all have ended and gather returns, without anything having to fail, also
\* with a configured concurrency of 0 and after a worker that gave up.  (Every
\* such step takes the run nearer to its end, so the phase ends.)
NobodyWaits == mode # "none" => ENABLED (EndPhase \/ \E c \in Channel : Work(c))

\* What else holds of the phase throughout: the types, nothing dropped silently,
\* and what the files know of the destination.
PhaseInv == TypeOK /\ Accounted /\ FailureRetryable /\ EvidenceOrProgress

-----------------------------------------------------------------------------
(***************************************************************************)
(* The inductive invariant behind these properties.                        *)
(***************************************************************************)
Numbers == 1..MaxMessages

\* A worker that will still deliver, and the number it skips up to.
Due(c) == worker[c].stage = "queued" \/ Active(c)
SkipLimit(c) == IF worker[c].stage = "queued" THEN Threshold(c) ELSE worker[c].skipBelow
Tried(c) == result[c].failed \union result[c].tokens

\* The types of what TypeOK says only in part.
ShapeInv ==
    /\ scenario \in [runs : Seq({"fresh", "resume", "incremental"}), stops : Nat, slots : Nat,
                     longest : [Channel -> 0..MaxMessages]]
    /\ \A c \in Channel : disk.high[c] <= exported[c] /\ disk.offset[c] <= exported[c]
    /\ \A i \in disk.failed : i[2] > 0

\* A fresh run is the first one; a worker ends without its channel only by a stop.
RunsInv ==
    /\ scenario.runs # <<>> /\ Head(scenario.runs) = "fresh" => disk = EmptyState /\ mode = "none"
    /\ \A k \in 2..Len(scenario.runs) : scenario.runs[k] # "fresh"
    /\ cancel \/ (\E c \in Channel : worker[c].stage \in {"failed", "stopped"}) => MayStop
    /\ mode = "none" => ~cancel /\ \A c \in Channel : worker[c] = Idle /\ result[c] = EmptyResult

\* The run's state is the saved one, but for the marks of retired receipts.
MemoryInv ==
    /\ mem.completed = disk.completed /\ mem.high = disk.high /\ mem.offset = disk.offset
    /\ mem.failed = disk.failed /\ mem.count = disk.count
    /\ mem.ready \subseteq disk.ready /\ mem.marked \subseteq disk.marked

\* What a receipt says of the destination.
ReceiptInv ==
    \A c \in Channel, n \in 0..MaxMessages :
        /\ receipt[c][n] \in {"landed", "partial", "acked"} => copies[c][n] > 0
        /\ receipt[c][n] \in {"flying", "rejected"} => copies[c][n] = 0 \/ <<c, n>> \in exposed

\* A header without a receipt belongs to a thread that was once complete.
HeaderInv ==
    \A c \in Channel : copies[c][0] > 0 /\ receipt[c][0] = "none" => disk.high[c] > 0

\* A receipt about to be retired is of a delivered item that the progress covers and
\* that no later retry needs.
ReadyInv ==
    \A i \in disk.ready :
        /\ StatusOf(i) \in {"none", "acked"} /\ i \notin disk.failed
        /\ \/ i[1] \in disk.completed /\ i[2] <= disk.high[i[1]] /\ disk.high[i[1]] > 0
           \/ 0 < i[2] /\ i[2] <= disk.offset[i[1]]

\* Where a worker stands against the saved state: what lies ahead of it and is not
\* skipped was never passed, what lies behind or is skipped is accounted for, ...
PlaceInv ==
    \A c \in Channel : Due(c) =>
        /\ mode # "none" /\ c \notin disk.completed
        /\ worker[c].next <= exported[c] + 1
        /\ \A n \in Numbers :
              /\ n >= worker[c].next /\ n > SkipLimit(c) /\ n <= Progress(c) => <<c, n>> \in exposed
              /\ n < worker[c].next \/ n <= SkipLimit(c) =>
                    copies[c][n] > 0 \/ <<c, n>> \in disk.failed \union result[c].failed
        /\ \A i \in disk.ready : i[1] = c =>
              i[2] < worker[c].next \/ (mode = "resume" /\ i[2] <= SkipLimit(c))

\* ... and what it has in hand and has tried.
WorkerInv ==
    \A c \in Channel :
        /\ worker[c].stage = "queued" => worker[c] = [Idle EXCEPT !.stage = "queued"]
                                         /\ result[c] = EmptyResult
        /\ Active(c) =>
              /\ \A i \in worker[c].retry :
                    /\ i[1] = c /\ Incremental
                    /\ i[2] >= worker[c].next => StatusOf(i) # "none"
              /\ worker[c].stage = "header" => worker[c].next = 0
              /\ worker[c].stage = "loop" => worker[c].next > 0
              /\ worker[c].next = 0 => disk.high[c] = 0
              /\ worker[c].header => receipt[c][0] = "acked" /\ worker[c].next > 0
              /\ worker[c].stage = "waiting" =>
                    /\ StatusOf(InHand(c)) # "none"
                    /\ worker[c].next <= exported[c] \/ worker[c].next = 0
                    /\ worker[c].next = 0 \/ ~Skipped(c)
              /\ \A i \in Tried(c) :
                    /\ i[1] = c /\ 0 < i[2] /\ i[2] < worker[c].next /\ ~SkipsOver(c, i[2])
                    /\ i \notin disk.ready /\ StatusOf(i) # "none"
              /\ \A i \in result[c].tokens : StatusOf(i) = "acked"

IInv ==
    /\ TypeOK
    /\ ShapeInv
    /\ RunsInv
    /\ MemoryInv
    /\ ReceiptInv
    /\ HeaderInv
    /\ ReadyInv
    /\ PlaceInv
    /\ WorkerInv
    /\ NoDuplicate
    /\ Accounted
    /\ EvidenceOrProgress
    /\ FailureRetryable

\* What CountExact rests on: the saved count is the number of messages counted, a
\* worker's the number it adds to them.
Sound(c) == \A i \in exposed : i[1] # c
Counted(c) == {n \in 1..Progress(c) : <<c, n>> \notin disk.failed \/ <<c, n>> \in disk.marked}
Added(c) == {n \in Numbers : <<c, n>> \in result[c].marked \ mem.marked}

\* What a worker has resolved it has identified, and what it has identified it has tried.
MarksTried(c) ==
    Active(c) => result[c].tokens \subseteq result[c].marked /\ result[c].marked \subseteq Tried(c)

SavedTally(c) ==
    /\ disk.count[c] = Cardinality(Counted(c))
    /\ \A i \in disk.marked : i[1] = c => i[2] <= Progress(c)
    /\ \A i \in disk.failed : i[1] = c /\ i \in disk.marked => i \in mem.marked
    /\ c \in disk.completed => disk.offset[c] <= disk.high[c]

WorkTally(c) ==
    Active(c) =>
        /\ result[c].count = Cardinality(Added(c))
        /\ worker[c].skipBelow <= Progress(c)
        /\ \A i \in Tried(c) : i \in disk.failed \/ i[2] > Progress(c)
        /\ \A n \in Numbers : n > worker[c].skipBelow /\ n < worker[c].next =>
              <<c, n>> \in Tried(c) \/ n <= Progress(c)
        /\ \A i \in worker[c].retry : i[2] >= worker[c].next => i \in disk.failed

CountInv ==
    \A c \in Channel : MarksTried(c) /\ (Sound(c) => SavedTally(c) /\ WorkTally(c))

-----------------------------------------------------------------------------
(***************************************************************************)
(* The exceptions of NoDuplicate, bounded.                                 *)
(***************************************************************************)
\* A step makes a continuation forget a delivery in two ways only: --resume begins a
\* channel below its high-water mark, because it is no longer among the completed; and
\* an incremental run writes a checkpoint after a failure it has retried below the
\* offset, for what lies between.
GapsNamed ==
    [][\A i \in exposed' \ exposed :
          \/ /\ mode' = "resume" /\ mode = "none" /\ i[1] \notin disk.completed
             /\ disk.offset[i[1]] < i[2] /\ i[2] <= disk.high[i[1]]
          \/ /\ Incremental /\ <<i[1], worker[i[1]].next - 1>> \in worker[i[1]].retry
             /\ worker[i[1]].next <= i[2] /\ i[2] <= disk.offset[i[1]]]_vars

\* The operator continues with --resume only.
OnlyResumed == \A s \in Scenarios : \A k \in 1..Len(s.runs) : s.runs[k] # "incremental"

\* No message and no header is in the destination twice, without an exception.
DeliveredOnce == \A c \in Channel, n \in 0..MaxMessages : copies[c][n] <= 1

\* Without an incremental run there are no gaps: a channel that has a high-water mark is
\* complete.
ResumedInv ==
    /\ mode # "incremental"
    /\ \A k \in 1..Len(scenario.runs) : scenario.runs[k] # "incremental"
    /\ \A c \in Channel : disk.high[c] > 0 => c \in disk.completed
    /\ exposed = {}
=============================================================================
