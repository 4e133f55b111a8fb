---------------------------- MODULE MergeThreads ----------------------------
(***************************************************************************)
(* --thread-strategy merge (migrator/messages.py): _merge_threads appends  *)
(* the threads to their parent channel one after the other, each behind a  *)
(* separator, in one task that writes the run's MigrationState directly.   *)
(*                                                                         *)
(* Thread t's export holds the messages 1..exported[t]; item 0 is its      *)
(* separator.  The messages in "mapped" are in message_map, because the    *)
(* parent channel had them: the origin message a thread begins with.  The  *)
(* statuses of a receipt are those of MessagesPhase, a message of several  *)
(* parts being "acked" when all of them are.                               *)
(***************************************************************************)
EXTENDS Naturals, FiniteSets, Sequences

CONSTANTS
    Threads,        \* number of threads, in the order they are merged
    MaxMessages,    \* bound: messages of a thread's export
    Scenarios       \* what the operator does, and the bounds that go with it

ASSUME MergeAssumption ==
    /\ Threads \in Nat \ {0}
    /\ MaxMessages \in Nat
    /\ Scenarios \subseteq
          [runs : Seq({"fresh", "resume", "incremental"}),    \* how each run is started
           stops : Nat,                                      \* runs that may end early
           longest : [1..Threads -> 0..MaxMessages]]         \* messages of the last export
    /\ \A s \in Scenarios : \A k \in 1..Len(s.runs) : s.runs[k] = "fresh" <=> k = 1

VARIABLES
    exported,   \* number of messages in the thread's export
    mapped,     \* messages in message_map
    receipt,    \* the item's delivery receipt (durable)
    revision,   \* how many receipts the item has had: delivery_ready tells them apart
    copies,     \* how often the item is in the parent channel
    disk,       \* state.json
    mem,        \* the run's MigrationState
    mode,       \* how the run was started; "none" between runs
    task,       \* the task inside _merge_threads
    scenario,   \* what is left of the scenario
    exposed     \* messages whose delivery a continuation no longer knows (history)

input == <<exported, mapped>>
vars == <<input, receipt, revision, copies, disk, mem, mode, task, scenario, exposed>>

-----------------------------------------------------------------------------
Thread == 1..Threads
Number == 0..MaxMessages
Item == Thread \X Number
ReceiptStatus == {"none", "flying", "landed", "lost", "rejected", "acked"}
Mode == {"none", "fresh", "resume", "incremental"}

State == [high : [Thread -> Number],      \* channel_high_water, 0 if none
          offset : [Thread -> Number],    \* channel_message_offsets, 0 if none
          failed : SUBSET Item,           \* failed_messages
          ready : SUBSET (Item \X Nat),   \* delivery_ready and its marker
          over : BOOLEAN]                 \* current_phase is past "messages"

Task == [thread : 1..Threads + 1,
         stage : {"start", "loop", "waiting", "after"},
         next : 0..MaxMessages + 1,       \* the item in hand
         skipBelow : Number,              \* _thread_skip_below
         retry : SUBSET Item,             \* _failures_here
         separator : BOOLEAN]             \* separator_result is not None

Max2(a, b) == IF a > b THEN a ELSE b

EmptyState == [high |-> [t \in Thread |-> 0], offset |-> [t \in Thread |-> 0],
               failed |-> {}, ready |-> {}, over |-> FALSE]
AtThread(t) == [thread |-> t, stage |-> "start", next |-> 0, skipBelow |-> 0,
                retry |-> {}, separator |-> FALSE]

T == task.thread
InHand == <<T, task.next>>
StatusOf(i) == receipt[i[1]][i[2]]
RevisionOf(i) == revision[i[1]][i[2]]
Incremental == mode = "incremental"

-----------------------------------------------------------------------------
(* consume_delivery and save_state.                                        *)

\* The digest in delivery_ready is that of the receipt that was consumed: a receipt
\* made since is another one.
Retirable(m) == {i \in Item : StatusOf(i) = "acked" /\ <<i, RevisionOf(i)>> \in m.ready}

Without(items) == [t \in Thread |-> [n \in Number |->
                     IF <<t, n>> \in items THEN "none" ELSE receipt[t][n]]]

AfterRetiring(m) ==
    [m EXCEPT !.ready = {e \in @ : e[1] \notin Retirable(m) /\ StatusOf(e[1]) # "none"}]

\* consume_delivery.
Consumed(m, i) == [m EXCEPT !.ready = {e \in @ : e[1] # i} \union {<<i, RevisionOf(i)>>}]

RunOver(m) ==
    /\ mode' = "none"
    /\ mem' = m
    /\ task' = AtThread(1)

EndsEarly == scenario.stops > 0 /\ scenario' = [scenario EXCEPT !.stops = @ - 1]

SaveAnd(m, next) ==
    /\ disk' = m
    /\ \/ /\ receipt' = Without(Retirable(m))
          /\ mem' = AfterRetiring(m)
          /\ task' = next
          /\ UNCHANGED <<mode, scenario>>
       \/ /\ \E some \in SUBSET Retirable(m) : receipt' = Without(some)
          /\ EndsEarly
          /\ RunOver(m)
    /\ UNCHANGED <<input, revision, copies>>

-----------------------------------------------------------------------------
Init ==
    /\ scenario \in Scenarios
    /\ exported \in {e \in [Thread -> Number] : \A t \in Thread : e[t] <= scenario.longest[t]}
    /\ mapped \in SUBSET {<<t, 1>> : t \in {u \in Thread : exported[u] > 0}}
    /\ receipt = [t \in Thread |-> [n \in Number |-> "none"]]
    /\ revision = [t \in Thread |-> [n \in Number |-> 0]]
    /\ copies = [t \in Thread |-> [n \in Number |-> IF <<t, n>> \in mapped THEN 1 ELSE 0]]
    /\ disk = EmptyState
    /\ mem = EmptyState
    /\ mode = "none"
    /\ task = AtThread(1)
    /\ exposed = {}

\* New messages are exported between two runs.
Export(t) ==
    /\ mode = "none"
    /\ exported[t] < scenario.longest[t]
    /\ exported' = [exported EXCEPT ![t] = @ + 1]
    /\ UNCHANGED <<mapped, receipt, revision, copies, disk, mem, mode, task, scenario, exposed>>

\* Mistake: --incremental does not carry the recorded failures.
LoadedForgetful(how) ==
    IF how = "incremental" THEN [disk EXCEPT !.ready = {}, !.over = FALSE, !.failed = {}]
    ELSE disk

\* run_migration: --resume enters the phase unless current_phase is past it.
Loaded(how) ==
    IF how = "incremental" THEN [disk EXCEPT !.ready = {}, !.over = FALSE] ELSE disk

\* A resume starts a thread at its offset, which a finished thread has lost.
Forgotten(how) ==
    {i \in Item : how = "resume" /\ disk.offset[i[1]] < i[2] /\ i[2] <= disk.high[i[1]]}

BeginRun(how) ==
    /\ mode = "none"
    /\ scenario.runs # <<>>
    /\ how = Head(scenario.runs)
    /\ how = "resume" => ~disk.over
    /\ scenario' = [scenario EXCEPT !.runs = Tail(@)]
    /\ exposed' = exposed \union Forgotten(how)
    /\ disk' = Loaded(how)
    /\ \/ receipt' = Without(Retirable(Loaded(how))) /\ mem' = AfterRetiring(Loaded(how))
       \/ how = "resume" /\ mem' = disk /\ UNCHANGED receipt
    /\ mode' = how
    /\ UNCHANGED <<input, revision, copies, task>>

\* The process dies.
Crash ==
    /\ mode # "none"
    /\ EndsEarly
    /\ RunOver(disk)
    /\ UNCHANGED <<input, receipt, revision, copies, disk, exposed>>

-----------------------------------------------------------------------------
(* One thread of _merge_threads.                                           *)

\* Mistake: --incremental forgets the durable high-water mark.
ThresholdOffsetOnly == IF mode = "fresh" THEN 0 ELSE mem.offset[T]
Threshold ==
    CASE mode = "resume" -> mem.offset[T]
      [] Incremental -> Max2(mem.high[T], mem.offset[T])
      [] OTHER -> 0

\* Mistake: a thread that was finished before is not recognised as started.
StartedByOffset == mem.offset[T] > 0
\* Mistake: an incremental run leaves the separator of a new thread out.
StartedEarlier == mem.high[T] > 0 \/ mem.offset[T] > 0 \/ Incremental
AlreadyStarted == mem.high[T] > 0 \/ mem.offset[T] > 0

\* The separator is left out when an earlier run is known to have posted it.
StartThread ==
    /\ mode # "none"
    /\ T <= Threads
    /\ task.stage = "start"
    /\ task' = [task EXCEPT
          !.stage = "loop",
          !.next = IF mode # "fresh" /\ AlreadyStarted THEN 1 ELSE 0,
          !.skipBelow = Threshold,
          !.retry = IF Incremental THEN {i \in mem.failed : i[1] = T} ELSE {}]
    /\ UNCHANGED <<input, receipt, revision, copies, disk, mem, mode, scenario, exposed>>

\* Mistake: a message that message_map has is merged all the same.
SkipsBelow(n) == n > 0 /\ n <= task.skipBelow /\ <<T, n>> \notin task.retry

Skips(n) ==
    /\ n > 0
    /\ \/ n <= task.skipBelow /\ <<T, n>> \notin task.retry
       \/ <<T, n>> \in mapped

InLoop == task.stage = "loop" /\ task.next <= exported[T]

SkipMessage ==
    /\ InLoop
    /\ Skips(task.next)
    /\ task' = [task EXCEPT !.next = @ + 1]
    /\ UNCHANGED <<input, receipt, revision, copies, disk, mem, mode, scenario, exposed>>

\* A separator is due even when the export is empty.
Delivering == (task.stage = "loop" /\ task.next = 0) \/ (InLoop /\ ~Skips(task.next))

\* Mistake: a failure is recorded only when its delivery was refused.
NotedIfRefused(resolved) ==
    IF resolved THEN [Consumed(mem, InHand) EXCEPT !.failed = @ \ {InHand}]
    ELSE IF StatusOf(InHand) = "rejected" THEN [mem EXCEPT !.failed = @ \union {InHand}]
    ELSE mem

\* Mistake: a recovered message stays recorded as failed.
NotedTwice(resolved) ==
    IF resolved THEN Consumed(mem, InHand)
    ELSE [mem EXCEPT !.failed = @ \union {InHand}]

\* _process_merged_message: a resolved delivery is consumed at once in the
\* run's state and clears its failure; any other is recorded as failed.
Noted(resolved) ==
    IF resolved THEN [Consumed(mem, InHand) EXCEPT !.failed = @ \ {InHand}]
    ELSE [mem EXCEPT !.failed = @ \union {InHand}]

\* A failed separator is only a warning.
Outcome(resolved) ==
    IF task.next = 0
    THEN /\ task' = [task EXCEPT !.stage = "loop", !.next = 1, !.separator = resolved]
         /\ UNCHANGED mem
    ELSE /\ task' = [task EXCEPT !.stage = "after"]
         /\ mem' = Noted(resolved)

SetStatus(st) == receipt' = [receipt EXCEPT ![T][task.next] = st]

\* deliver_part settles the item without sending.
Known ==
    /\ Delivering
    /\ LET st == StatusOf(InHand)
       IN  \/ st = "acked" /\ Outcome(TRUE) /\ UNCHANGED receipt
           \/ st = "landed" /\ Outcome(TRUE) /\ SetStatus("acked")
           \/ st \in {"flying", "lost", "landed"} /\ Outcome(FALSE) /\ UNCHANGED receipt
           \/ st = "rejected" /\ ~Incremental /\ Outcome(FALSE) /\ UNCHANGED receipt
           \/ st = "none" /\ InHand \in task.retry /\ Outcome(FALSE) /\ UNCHANGED receipt
    /\ UNCHANGED <<input, revision, copies, disk, mode, scenario, exposed>>

\* deliver_part dispatches: no receipt yet, or a rejected part retried.
Send ==
    /\ Delivering
    /\ \/ /\ StatusOf(InHand) = "none" /\ InHand \notin task.retry
          /\ revision' = [revision EXCEPT ![T][task.next] = @ + 1]
       \/ StatusOf(InHand) = "rejected" /\ Incremental /\ UNCHANGED revision
    /\ SetStatus("flying")
    /\ task' = [task EXCEPT !.stage = "waiting"]
    /\ UNCHANGED <<input, copies, disk, mem, mode, scenario, exposed>>

\* The call returns: acknowledged, refused, or never known.
Answer ==
    /\ task.stage = "waiting"
    /\ \/ StatusOf(InHand) = "landed" /\ Outcome(TRUE) /\ SetStatus("acked")
       \/ StatusOf(InHand) = "flying" /\ Outcome(FALSE) /\ SetStatus("rejected")
       \/ Outcome(FALSE) /\ UNCHANGED receipt
    /\ UNCHANGED <<input, revision, copies, disk, mode, scenario, exposed>>

\* Mistake: the checkpoint names the message that comes next.
CheckpointAhead == [mem EXCEPT !.offset[T] = task.next + 1]
CheckpointState == [mem EXCEPT !.offset[T] = task.next]

\* After a message: perhaps a checkpoint, then the pause and the next one.
NextMessage == [task EXCEPT !.stage = "loop", !.next = @ + 1]

\* A retried failure may lie below the offset, which then moves back.
PassedBack == {<<T, n>> : n \in Max2(task.next, mem.high[T]) + 1..mem.offset[T]}

Checkpoint ==
    /\ task.stage = "after"
    /\ SaveAnd(CheckpointState, NextMessage)
    /\ exposed' = exposed \union PassedBack

GoOn ==
    /\ task.stage = "after"
    /\ task' = NextMessage
    /\ UNCHANGED <<input, receipt, revision, copies, disk, mem, mode, scenario, exposed>>

\* The thread is complete.
Completed ==
    [(IF task.separator /\ exported[T] > 0 THEN Consumed(mem, <<T, 0>>) ELSE mem) EXCEPT
        !.high[T] = IF exported[T] > 0 THEN exported[T] ELSE @,
        !.offset[T] = 0,
        !.failed = @ \ (task.retry \intersect mapped)]

CompleteThread ==
    /\ task.stage = "loop"
    /\ task.next > exported[T]
    /\ task.next > 0
    /\ SaveAnd(Completed, AtThread(T + 1))
    /\ UNCHANGED exposed

\* Consumed deliveries that the offset does not cover yet.
Uncovered == {i \in {e[1] : e \in mem.ready} : i[2] > Max2(mem.high[i[1]], mem.offset[i[1]])}

\* Cancellation, a PermissionSafetyError or an unreadable export leaves
\* _merge_threads in the middle of a thread; the engine saves the state.
Stop ==
    /\ mode # "none"
    /\ T <= Threads
    /\ EndsEarly
    /\ disk' = mem
    /\ \E some \in SUBSET Retirable(mem) : receipt' = Without(some)
    /\ RunOver(mem)
    /\ exposed' = exposed \union Uncovered
    /\ UNCHANGED <<input, revision, copies>>

\* The phase is complete and saved; current_phase reaches the file only with
\* the first save of a later phase, which a crash may prevent.
EndPhase ==
    /\ mode # "none"
    /\ T > Threads
    /\ \/ disk' = [mem EXCEPT !.over = TRUE] /\ UNCHANGED scenario
       \/ disk' = mem /\ EndsEarly
    /\ \E some \in SUBSET Retirable(mem) : receipt' = Without(some)
    /\ RunOver(disk')
    /\ UNCHANGED <<input, revision, copies, exposed>>

-----------------------------------------------------------------------------
\* The service creates the message of a request, or the request is lost.
Land(t, n) ==
    /\ receipt[t][n] = "flying"
    /\ \/ /\ receipt' = [receipt EXCEPT ![t][n] = "landed"]
          /\ copies' = [copies EXCEPT ![t][n] = @ + 1]
       \/ /\ receipt' = [receipt EXCEPT ![t][n] = "lost"]
          /\ UNCHANGED copies
    /\ UNCHANGED <<input, revision, disk, mem, mode, task, scenario, exposed>>

Next ==
    \/ \E t \in Thread : Export(t)
    \/ \E how \in Mode \ {"none"} : BeginRun(how)
    \/ StartThread \/ SkipMessage \/ Known \/ Send \/ Answer \/ Checkpoint \/ GoOn
    \/ CompleteThread \/ Crash \/ Stop \/ EndPhase
    \/ \E t \in Thread, n \in Number : Land(t, n)

Spec == Init /\ [][Next]_vars
=============================================================================
