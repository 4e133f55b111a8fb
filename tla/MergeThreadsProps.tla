-------------------------- MODULE MergeThreadsProps --------------------------
(***************************************************************************)
(* The properties of MergeThreads.                                         *)
(***************************************************************************)
EXTENDS MergeThreads

\* Type invariant of the merge's state.
TypeOK ==
    /\ exported \in [Thread -> Number]
    /\ mapped \subseteq Item
    /\ receipt \in [Thread -> [Number -> ReceiptStatus]]
    /\ revision \in [Thread -> [Number -> Nat]]
    /\ copies \in [Thread -> [Number -> Nat]]
    /\ disk \in State
    /\ mem \in State
    /\ mode \in Mode
    /\ task \in Task
    /\ scenario.stops \in Nat
    /\ exposed \subseteq Item

\* How far the saved state says a thread has been worked through.
Progress(t) == Max2(disk.high[t], disk.offset[t])

\* No message of a thread is in the parent channel twice: not by a later run,
\* and not because the parent channel had the origin message already; but for the
\* messages of a finished thread that --resume merges again (Forgotten), those
\* consumed by a stop before the offset covers them (Uncovered) and those an offset
\* that a retry moved back no longer covers (PassedBack).
NoDuplicate ==
    \A t \in Thread, n \in 1..MaxMessages : copies[t][n] <= 1 \/ <<t, n>> \in exposed

\* However often the merge is interrupted and continued, a thread gets one
\* separator.
OneSeparator == \A t \in Thread : copies[t][0] <= 1

\* Nothing is dropped silently: a message the saved progress has passed is in
\* the parent channel or recorded as failed.
Accounted ==
    \A t \in Thread, n \in 1..MaxMessages :
        n <= Progress(t) => copies[t][n] > 0 \/ <<t, n>> \in disk.failed

\* A message is merged only behind its thread's separator, or when the
\* separator's delivery has been tried and is known to have failed.
BehindSeparator ==
    \A t \in Thread, n \in 1..MaxMessages :
        copies[t][n] > 0 /\ <<t, n>> \notin mapped =>
            copies[t][0] > 0 \/ receipt[t][0] \in {"flying", "lost", "rejected"}

\* A recorded failure keeps the receipt a later retry needs.
FailureRetryable == \A i \in disk.failed : StatusOf(i) # "none"

\* What else holds of the merge throughout: the types, the receipts of failures,
\* and one separator in front of each thread's messages.
MergeInv == TypeOK /\ FailureRetryable /\ OneSeparator /\ BehindSeparator

-----------------------------------------------------------------------------
(***************************************************************************)
(* The inductive invariant behind these properties.                        *)
(***************************************************************************)
Numbers == 1..MaxMessages

\* What the task has behind it in its thread.
Working == task.stage # "start"
Behind(n) == n < task.next \/ (task.stage = "after" /\ n = task.next)

\* The separator's delivery has at least been tried.
Headed(t) == copies[t][0] > 0 \/ receipt[t][0] \in {"flying", "lost", "rejected"}

\* The types of what TypeOK says only in part.
ShapeInv ==
    /\ scenario \in [runs : Seq({"fresh", "resume", "incremental"}), stops : Nat,
                     longest : [Thread -> Number]]
    /\ \A t \in Thread : disk.high[t] <= exported[t] /\ disk.offset[t] <= exported[t]
    /\ \A i \in disk.failed \union mem.failed : i[2] > 0
    /\ \A i \in mapped : i[2] > 0 /\ StatusOf(i) = "none" /\ copies[i[1]][i[2]] = 1

\* A fresh run is the first one.
RunsInv ==
    /\ scenario.runs # <<>> /\ Head(scenario.runs) = "fresh" => disk = EmptyState /\ mode = "none"
    /\ \A k \in 2..Len(scenario.runs) : scenario.runs[k] # "fresh"
    /\ mode = "none" => task = AtThread(1) /\ mem = disk
    /\ mem.high = disk.high /\ mem.offset = disk.offset
    /\ ~Working => task = AtThread(T)

\* What a receipt says of the destination; a separator has no receipt any more only
\* when its thread was once complete, a message only when it is passed.
ReceiptInv ==
    \A t \in Thread, n \in Number :
        /\ receipt[t][n] \in {"landed", "acked"} => copies[t][n] > 0
        /\ receipt[t][n] \in {"flying", "rejected"} =>
              copies[t][n] = 0 \/ (n > 0 /\ <<t, n>> \in exposed)
        /\ copies[t][n] > 0 /\ receipt[t][n] = "none" =>
              IF n = 0 THEN disk.high[t] > 0
              ELSE n <= Progress(t) \/ <<t, n>> \in exposed \/ <<t, n>> \in mapped

\* Whatever was tried in a thread was tried behind its separator.
HeadedInv ==
    \A t \in Thread :
        /\ \A n \in Numbers : receipt[t][n] # "none" => Headed(t)
        /\ Progress(t) > 0 => Headed(t)

\* What a state says: nothing it has passed is lost, a failure is retryable, and a
\* receipt it will retire is settled and not of a failure.
Sound(m) ==
    /\ \A t \in Thread, n \in Numbers : n <= Progress(t) => copies[t][n] > 0 \/ <<t, n>> \in m.failed
    /\ \A i \in m.failed : StatusOf(i) # "none"
    /\ \A e \in m.ready :
          /\ e[2] <= RevisionOf(e[1])
          /\ e[2] = RevisionOf(e[1]) => StatusOf(e[1]) \in {"none", "acked"} /\ e[1] \notin m.failed
          /\ e[1][2] = 0 => disk.high[e[1][1]] > 0
SavedInv ==
    /\ Sound(disk)
    /\ \A e \in disk.ready : e[1][2] > 0 => e[1][2] <= Progress(e[1][1]) \/ e[1] \in exposed

\* The run's state, in which the outcomes since the last save are noted.
MemoryInv ==
    /\ Sound(mem)
    /\ \A e \in mem.ready :
          /\ e[1][2] > 0 => \/ e[1][2] <= Progress(e[1][1]) \/ e[1] \in exposed
                            \/ e[1][1] = T /\ Behind(e[1][2])
          /\ Incremental => e[1][1] < T \/ (e[1][1] = T /\ Behind(e[1][2]))

\* The threads to come: of what they do not skip nothing was passed but the exposed.
ComingInv ==
    \A t \in Thread : t > T \/ (t = T /\ ~Working) =>
        /\ mode = "fresh" => Progress(t) = 0
        /\ mode = "resume" => \A n \in Numbers :
              n > disk.offset[t] /\ n <= disk.high[t] => <<t, n>> \in exposed

\* The task stands in a thread that is not finished; what lies ahead of it and is not
\* skipped was never passed, what lies behind or is skipped is accounted for.
PlaceInv ==
    Working =>
        /\ mode # "none" /\ T \in Thread
        /\ task.next <= exported[T] + 1
        /\ IF task.next = 0 THEN task.stage # "after" /\ disk.high[T] = 0 ELSE Headed(T)
        /\ task.stage \in {"waiting", "after"} /\ task.next > 0 =>
              task.next <= exported[T] /\ ~Skips(task.next)
        /\ task.stage = "waiting" => StatusOf(InHand) \in {"flying", "landed", "lost"}
        /\ task.separator => receipt[T][0] = "acked" /\ disk.high[T] = 0 /\ task.next > 0
        /\ \A n \in Numbers :
              /\ ~Behind(n) /\ n > task.skipBelow /\ n <= Progress(T) => <<T, n>> \in exposed
              /\ Behind(n) \/ n <= task.skipBelow => copies[T][n] > 0 \/ <<T, n>> \in mem.failed
        /\ \A i \in task.retry :
              i[1] = T /\ Incremental /\ (~Behind(i[2]) => i \in mem.failed)

IInv ==
    /\ TypeOK
    /\ ShapeInv
    /\ RunsInv
    /\ ReceiptInv
    /\ HeadedInv
    /\ SavedInv
    /\ MemoryInv
    /\ ComingInv
    /\ PlaceInv
    /\ NoDuplicate
    /\ OneSeparator
    /\ BehindSeparator

-----------------------------------------------------------------------------
(***************************************************************************)
(* The exceptions of NoDuplicate, bounded.                                 *)
(***************************************************************************)
\* A step makes a continuation forget a delivery in three ways only: --resume begins
\* a thread below its high-water mark; a stop comes after the last checkpoint of the
\* thread in hand, for what has been merged of it since; and an incremental run writes a
\* checkpoint after a failure it has retried below the offset, for what lies between.
GapsNamed ==
    [][\A i \in exposed' \ exposed :
          \/ /\ mode' = "resume" /\ mode = "none"
             /\ disk.offset[i[1]] < i[2] /\ i[2] <= disk.high[i[1]]
          \/ /\ mode' = "none" /\ mode # "none"
             /\ i[1] = T /\ Progress(T) < i[2] /\ Behind(i[2])
          \/ /\ Incremental /\ InHand \in task.retry
             /\ i[1] = T /\ task.next < i[2] /\ i[2] <= disk.offset[T]]_vars

\* No run is stopped or killed, and none is a resume.
Uninterrupted == \A s \in Scenarios : s.stops = 0 /\ \A k \in 1..Len(s.runs) : s.runs[k] # "resume"

\* No message and no separator is in the parent channel twice, without an exception.
MergedOnce == \A t \in Thread, n \in Number : copies[t][n] <= 1

\* The gaps of a history without interruptions: none, because only the thread in hand
\* has an offset, and it lies behind the task.
CalmInv ==
    /\ scenario.stops = 0 /\ mode # "resume"
    /\ \A k \in 1..Len(scenario.runs) : scenario.runs[k] # "resume"
    /\ \A t \in Thread : disk.offset[t] > 0 => t = T /\ Working /\ Behind(disk.offset[t])
    /\ exposed = {}

=============================================================================
