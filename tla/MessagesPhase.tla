---------------------------- MODULE MessagesPhase ----------------------------
(***************************************************************************)
(* The messages phase (migrator/messages.py): run_messages with one worker *)
(* per channel, _process_single_channel with its skip threshold, local     *)
(* accumulators and checkpoints, save_state with the retirement of         *)
(* receipts, and the runs that follow one another: a fresh one, --resume,  *)
(* --incremental.                                                          *)
(*                                                                         *)
(* A channel's export holds the messages 1..exported[c], in the order of   *)
(* their identifiers; item 0 of a thread is its header.  What deliver_part *)
(* does for an item is Delivery's business: here an item's receipt has one *)
(* of a few statuses, of which "flying" and "landed" and "lost" are        *)
(* Delivery's "uncertain", told apart by what the service did.             *)
(***************************************************************************)
EXTENDS Naturals, FiniteSets, Sequences

CONSTANTS
    Channel,        \* channels, and threads flattened into channels
    Thread,         \* those that get a header
    MaxMessages,    \* bound: messages of a channel's export
    Scenarios       \* what the operator does, and the bounds that go with it

ASSUME MessagesAssumption ==
    /\ IsFiniteSet(Channel)
    /\ Thread \subseteq Channel
    /\ MaxMessages \in Nat
    /\ Scenarios \subseteq
          [runs : Seq({"fresh", "resume", "incremental"}),    \* how each run is started
           stops : Nat,                    \* runs that may end before every channel is done
           slots : Nat,                              \* config.max_concurrent_channels
           longest : [Channel -> 0..MaxMessages]]    \* messages of the last export
    /\ \A s \in Scenarios : \A k \in 1..Len(s.runs) : s.runs[k] = "fresh" <=> k = 1

VARIABLES
    exported,   \* number of messages in the channel's export
    receipt,    \* the item's delivery receipt (durable)
    copies,     \* how often the item is in the destination
    disk,       \* state.json
    mem,        \* the run's MigrationState
    mode,       \* how the run was started; "none" between runs
    cancel,     \* config.cancel_event
    worker,     \* the channel's task in run_messages
    result,     \* its ChannelResult
    scenario,   \* what is left of the scenario
    exposed     \* messages whose delivery a continuation no longer knows (history)

service == <<receipt, copies>>
run == <<mem, mode, cancel, worker, result>>
vars == <<exported, service, disk, run, scenario, exposed>>

-----------------------------------------------------------------------------
Item == Channel \X (0..MaxMessages)
ReceiptStatus == {"none", "flying", "landed", "lost", "rejected", "partial", "acked"}
Mode == {"none", "fresh", "resume", "incremental"}
Stage == {"queued", "header", "loop", "waiting", "done", "failed", "stopped"}

\* The fields of MigrationState that the phase reads and writes.
State == [completed : SUBSET Channel,            \* completed_channel_ids
          high : [Channel -> 0..MaxMessages],    \* channel_high_water, 0 if none
          offset : [Channel -> 0..MaxMessages],  \* channel_message_offsets
          failed : SUBSET Item,                  \* failed_messages
          marked : SUBSET Item,                  \* delivery_bookkeeping
          ready : SUBSET Item,                   \* delivery_ready
          count : [Channel -> Nat]]              \* channel_message_counts

Worker == [stage : Stage,
           next : 0..MaxMessages + 1,    \* the item in hand
           skipBelow : 0..MaxMessages,   \* _skip_below
           retry : SUBSET Item,          \* _failures_here
           header : BOOLEAN]             \* header_result is not None

Result == [failed : SUBSET Item, marked : SUBSET Item, tokens : SUBSET Item, count : Nat]

Max2(a, b) == IF a > b THEN a ELSE b

EmptyState == [completed |-> {}, high |-> [c \in Channel |-> 0],
               offset |-> [c \in Channel |-> 0], failed |-> {}, marked |-> {},
               ready |-> {}, count |-> [c \in Channel |-> 0]]
EmptyResult == [failed |-> {}, marked |-> {}, tokens |-> {}, count |-> 0]
Idle == [stage |-> "done", next |-> 0, skipBelow |-> 0, retry |-> {}, header |-> FALSE]

InHand(c) == <<c, worker[c].next>>
StatusOf(i) == receipt[i[1]][i[2]]
Incremental == mode = "incremental"
Active(c) == worker[c].stage \in {"header", "loop", "waiting"}

\* Mistake: the configured concurrency is used as it is, also when it is 0.
SlotsUnclamped == scenario.slots
Slots == Max2(scenario.slots, 1)

-----------------------------------------------------------------------------
(* save_state.                                                             *)

\* Mistake: a first part with an identifier is enough to drop the receipt.
RetirableOnceMarked(m) == {i \in m.marked : StatusOf(i) # "none"}
\* _consumed_deliveries: receipts whose outcome the saved state accounts for.
Retirable(m) == {i \in m.ready \cap m.marked : StatusOf(i) = "acked"}

Without(items) == [c \in Channel |-> [n \in 0..MaxMessages |->
                     IF <<c, n>> \in items THEN "none" ELSE receipt[c][n]]]

\* _retire_consumed_deliveries: markers whose receipt is gone are dropped.
AfterRetiring(m) ==
    LET gone(i) == i \in Retirable(m) \/ StatusOf(i) = "none"
    IN  [m EXCEPT !.ready = {i \in @ : ~gone(i)}, !.marked = {i \in @ : ~gone(i)}]

\* The bound on the causes of a run that ends early.
MayStop == scenario.stops > 0

RunOver(m) ==
    /\ scenario' = IF \A c \in Channel : worker[c].stage = "done" THEN scenario
                   ELSE [scenario EXCEPT !.stops = @ - 1]
    /\ mode' = "none"
    /\ cancel' = FALSE
    /\ mem' = m
    /\ worker' = [c \in Channel |-> Idle]
    /\ result' = [c \in Channel |-> EmptyResult]

\* Mistake: the receipts go first, then state.json is replaced.
SaveRetiringFirst(m, w, r) ==
    /\ \/ /\ receipt' = Without(Retirable(m))
          /\ disk' = m
          /\ mem' = AfterRetiring(m)
          /\ worker' = w
          /\ result' = r
          /\ UNCHANGED <<mode, cancel, scenario>>
       \/ /\ MayStop
          /\ \E some \in SUBSET Retirable(m) : receipt' = Without(some)
          /\ UNCHANGED disk
          /\ RunOver(m)
    /\ UNCHANGED <<exported, copies>>

\* save_state(m): state.json is replaced, then the receipts are unlinked one
\* by one; the process may die between any two of these.
SaveAnd(m, w, r) ==
    /\ disk' = m
    /\ \/ /\ receipt' = Without(Retirable(m))
          /\ mem' = AfterRetiring(m)
          /\ worker' = w
          /\ result' = r
          /\ UNCHANGED <<mode, cancel, scenario>>
       \/ /\ MayStop
          /\ \E some \in SUBSET Retirable(m) : receipt' = Without(some)
          /\ RunOver(m)
    /\ UNCHANGED <<exported, copies>>

\* Mistake: a merge replaces what other channels have recorded.
MergedOverOthers(m, c) ==
    [m EXCEPT !.failed = result[c].failed \ result[c].tokens,
              !.marked = @ \union result[c].marked,
              !.ready = @ \union result[c].tokens,
              !.count[c] = @ + result[c].count]

\* _merge_channel_result: the worker's accumulators go to the shared state;
\* a delivery that is fully resolved clears its recorded failure.
Merged(m, c) ==
    [m EXCEPT !.failed = (@ \union result[c].failed) \ result[c].tokens,
              !.marked = @ \union result[c].marked,
              !.ready = @ \union result[c].tokens,
              !.count[c] = @ + result[c].count]

-----------------------------------------------------------------------------
Init ==
    /\ scenario \in Scenarios
    /\ exported \in {e \in [Channel -> 0..MaxMessages] :
                        \A c \in Channel : e[c] <= scenario.longest[c]}
    /\ receipt = [c \in Channel |-> [n \in 0..MaxMessages |-> "none"]]
    /\ copies = [c \in Channel |-> [n \in 0..MaxMessages |-> 0]]
    /\ disk = EmptyState
    /\ mem = EmptyState
    /\ mode = "none"
    /\ cancel = FALSE
    /\ worker = [c \in Channel |-> Idle]
    /\ result = [c \in Channel |-> EmptyResult]
    /\ exposed = {}

\* New messages are exported between two runs.
Export(c) ==
    /\ mode = "none"
    /\ exported[c] < scenario.longest[c]
    /\ exported' = [exported EXCEPT ![c] = @ + 1]
    /\ UNCHANGED <<service, disk, run, scenario, exposed>>

\* Mistake: --incremental does not carry the recorded failures.
LoadedForgetful(how) ==
    IF how = "incremental" THEN [disk EXCEPT !.completed = {}, !.ready = {}, !.failed = {}]
    ELSE disk

\* run_migration: --resume loads the state; --incremental carries most of it
\* into a new one, without completed_channel_ids and delivery_ready.  The
\* phases before this one save it; a resume may skip them all.
Loaded(how) ==
    IF how = "incremental" THEN [disk EXCEPT !.completed = {}, !.ready = {}] ELSE disk

\* A resume starts a channel at its offset, which a completed channel has lost;
\* completed_channel_ids makes good for it unless --incremental emptied them.
Forgotten(how) ==
    {i \in Item : /\ how = "resume" /\ i[1] \notin disk.completed
                  /\ disk.offset[i[1]] < i[2] /\ i[2] <= disk.high[i[1]]}

BeginRun(how) ==
    /\ mode = "none"
    /\ scenario.runs # <<>>
    /\ how = Head(scenario.runs)
    /\ scenario' = [scenario EXCEPT !.runs = Tail(@)]
    /\ disk' = Loaded(how)
    /\ \/ receipt' = Without(Retirable(Loaded(how))) /\ mem' = AfterRetiring(Loaded(how))
       \/ how = "resume" /\ mem' = disk /\ UNCHANGED receipt
    /\ mode' = how
    /\ worker' = [c \in Channel |->
                    IF how = "resume" /\ c \in disk.completed THEN Idle
                    ELSE [Idle EXCEPT !.stage = "queued"]]
    /\ exposed' = exposed \union Forgotten(how)
    /\ UNCHANGED <<exported, copies, cancel, result>>

RequestCancel ==
    /\ mode # "none"
    /\ MayStop
    /\ ~cancel
    /\ cancel' = TRUE
    /\ UNCHANGED <<exported, service, disk, mem, mode, worker, result, scenario, exposed>>

\* The process dies.
Crash ==
    /\ mode # "none"
    /\ MayStop
    /\ RunOver(disk)
    /\ UNCHANGED <<exported, service, disk, exposed>>

-----------------------------------------------------------------------------
(* One worker: _process_single_channel.                                    *)

\* Mistake: --incremental forgets the durable high-water mark.
ThresholdOffsetOnly(c) == IF mode = "fresh" THEN 0 ELSE mem.offset[c]
Threshold(c) ==
    CASE mode = "resume" -> mem.offset[c]
      [] mode = "incremental" -> Max2(mem.high[c], mem.offset[c])
      [] OTHER -> 0

FailuresHere(c) == IF Incremental THEN {i \in mem.failed : i[1] = c} ELSE {}

\* The semaphore admits the worker; a thread that has no high-water mark yet
\* gets its header first.
Admit(c) ==
    /\ worker[c].stage = "queued"
    /\ Cardinality({d \in Channel : Active(d)}) < Slots
    /\ LET withHeader == c \in Thread /\ mem.high[c] = 0
       IN  worker' = [worker EXCEPT ![c] =
              [stage |-> IF withHeader THEN "header" ELSE "loop",
               next |-> IF withHeader THEN 0 ELSE 1,
               skipBelow |-> Threshold(c), retry |-> FailuresHere(c),
               header |-> FALSE]]
    /\ UNCHANGED <<exported, service, disk, mem, mode, cancel, result, scenario, exposed>>

SkipsOver(c, n) == n <= worker[c].skipBelow /\ <<c, n>> \notin worker[c].retry
Skipped(c) == SkipsOver(c, worker[c].next)

\* Mistake: a cancelled worker leaves the loop as if its channel were done.
LoopOverOnCancel(c) == worker[c].next > exported[c] \/ cancel
LoopOver(c) == worker[c].next > exported[c]

\* The worker has an item to deliver.
Delivering(c) ==
    \/ worker[c].stage = "header"
    \/ worker[c].stage = "loop" /\ ~cancel /\ ~LoopOver(c) /\ ~Skipped(c)

SkipMessage(c) ==
    /\ worker[c].stage = "loop"
    /\ ~cancel
    /\ ~LoopOver(c)
    /\ Skipped(c)
    /\ worker' = [worker EXCEPT ![c].next = @ + 1]
    /\ UNCHANGED <<exported, service, disk, mem, mode, cancel, result, scenario, exposed>>

\* Mistake: a message that a later run recovers is counted again.
ResultRecounted(c, identified, resolved) ==
    LET i == InHand(c)
        r == result[c]
    IN  [failed |-> IF resolved THEN r.failed ELSE r.failed \union {i},
         marked |-> IF identified THEN r.marked \union {i} ELSE r.marked,
         tokens |-> IF resolved THEN r.tokens \union {i} ELSE r.tokens,
         count |-> IF identified THEN r.count + 1 ELSE r.count]

\* The item's outcome in the ChannelResult: its first part has an identifier
\* or not, it is fully resolved or not.  A message is counted once, however
\* often it is recovered.
ResultWith(c, identified, resolved) ==
    LET i == InHand(c)
        done == i \in mem.marked \union result[c].marked
        r == result[c]
    IN  [failed |-> IF resolved THEN r.failed ELSE r.failed \union {i},
         marked |-> IF identified THEN r.marked \union {i} ELSE r.marked,
         tokens |-> IF resolved THEN r.tokens \union {i} ELSE r.tokens,
         count |-> IF identified /\ ~done THEN r.count + 1 ELSE r.count]

\* After the item: a header only leaves its result with the worker, and a
\* failed header only a warning; a message may be followed by a checkpoint
\* when the interval and five seconds have passed.
Outcome(c, identified, resolved) ==
    LET moved == [worker EXCEPT ![c].stage = "loop", ![c].next = @ + 1]
    IN  IF worker[c].next = 0
        THEN /\ worker' = [moved EXCEPT ![c].header = resolved]
             /\ UNCHANGED result
        ELSE /\ worker' = moved
             /\ result' = [result EXCEPT ![c] = ResultWith(c, identified, resolved)]

SetStatus(c, st) == receipt' = [receipt EXCEPT ![c][worker[c].next] = st]

\* deliver_part settles the item without sending: a saved acknowledgement, a
\* lookup of an uncertain part, a rejection nobody may retry, a retry whose
\* receipt is missing; the other parts of a partial message may turn up in
\* the lookup or be retried.
Known(c) ==
    /\ Delivering(c)
    /\ LET st == StatusOf(InHand(c))
       IN  \/ st = "acked" /\ Outcome(c, TRUE, TRUE) /\ UNCHANGED receipt
           \/ st = "landed" /\ Outcome(c, TRUE, TRUE) /\ SetStatus(c, "acked")
           \/ st \in {"flying", "lost", "landed"}
              /\ Outcome(c, FALSE, FALSE) /\ UNCHANGED receipt
           \/ st = "rejected" /\ ~Incremental /\ Outcome(c, FALSE, FALSE) /\ UNCHANGED receipt
           \/ st = "none" /\ InHand(c) \in worker[c].retry
              /\ Outcome(c, FALSE, FALSE) /\ UNCHANGED receipt
           \/ st = "partial" /\ Outcome(c, TRUE, FALSE) /\ UNCHANGED receipt
           \/ st = "partial" /\ Outcome(c, TRUE, TRUE) /\ SetStatus(c, "acked")
    /\ UNCHANGED <<exported, copies, disk, mem, mode, cancel, scenario, exposed>>

\* deliver_part dispatches: no receipt yet, or a rejected part retried.
Send(c) ==
    /\ Delivering(c)
    /\ \/ StatusOf(InHand(c)) = "none" /\ InHand(c) \notin worker[c].retry
       \/ StatusOf(InHand(c)) = "rejected" /\ Incremental
    /\ SetStatus(c, "flying")
    /\ worker' = [worker EXCEPT ![c].stage = "waiting"]
    /\ UNCHANGED <<exported, copies, disk, mem, mode, cancel, result, scenario, exposed>>

\* The call returns: acknowledged, refused, only the first of several parts
\* acknowledged, or never known.
Answer(c) ==
    /\ worker[c].stage = "waiting"
    /\ LET st == StatusOf(InHand(c))
       IN  \/ st = "landed" /\ Outcome(c, TRUE, TRUE) /\ SetStatus(c, "acked")
           \/ st = "landed" /\ worker[c].next # 0
              /\ Outcome(c, TRUE, FALSE) /\ SetStatus(c, "partial")
           \/ st = "flying" /\ Outcome(c, FALSE, FALSE) /\ SetStatus(c, "rejected")
           \/ Outcome(c, FALSE, FALSE) /\ UNCHANGED receipt
    /\ UNCHANGED <<exported, copies, disk, mem, mode, cancel, scenario, exposed>>

\* Mistake: the checkpoint names the next message.
CheckpointAhead(c) == [Merged(mem, c) EXCEPT !.offset[c] = worker[c].next]
CheckpointState(c) == [Merged(mem, c) EXCEPT !.offset[c] = worker[c].next - 1]

\* Mistake: the accumulators are merged but not emptied.
NotEmptied(c) == result
Emptied(c) == [result EXCEPT ![c] = EmptyResult]

\* A retried failure may lie below the offset, which then moves back.
PassedBack(c) == {<<c, n>> : n \in Max2(worker[c].next, mem.high[c] + 1)..mem.offset[c]}

\* The periodic checkpoint after message next - 1.
Checkpoint(c) ==
    /\ worker[c].stage = "loop"
    /\ worker[c].next > 1
    /\ <<c, worker[c].next - 1>> \in result[c].failed \union result[c].tokens
    /\ SaveAnd(CheckpointState(c), worker, Emptied(c))
    /\ exposed' = exposed \union PassedBack(c)

\* Mistake: the completion of a channel forgets the progress of all.
CompletedForAll(c) ==
    [Merged(mem, c) EXCEPT
        !.completed = @ \union {c},
        !.high[c] = IF exported[c] > 0 THEN exported[c] ELSE @,
        !.offset = [d \in Channel |-> 0]]

\* The channel is complete.
Completed(c) ==
    [Merged(mem, c) EXCEPT
        !.completed = @ \union {c},
        !.high[c] = IF exported[c] > 0 THEN exported[c] ELSE @,
        !.marked = IF exported[c] > 0 /\ worker[c].header THEN @ \union {<<c, 0>>} ELSE @,
        !.ready = IF exported[c] > 0 /\ worker[c].header THEN @ \union {<<c, 0>>} ELSE @,
        !.offset[c] = 0]

Complete(c) ==
    /\ worker[c].stage = "loop"
    /\ LoopOver(c)
    /\ SaveAnd(Completed(c), [worker EXCEPT ![c].stage = "done"], Emptied(c))
    /\ UNCHANGED exposed

\* The cancel flag is seen before a message or in the pause after one.
Cancelled(c) ==
    /\ cancel
    /\ worker[c].stage = "loop"
    /\ \/ worker[c].next <= exported[c]
       \/ worker[c].next > 1 /\ ~SkipsOver(c, worker[c].next - 1)
    /\ worker' = [worker EXCEPT ![c].stage = "stopped"]
    /\ UNCHANGED <<exported, service, disk, mem, mode, cancel, result, scenario, exposed>>

\* The worker raises: its channel cannot be verified, its export not be read.
WorkerFails(c) ==
    /\ MayStop
    /\ worker[c].stage \in {"header", "loop"}
    /\ worker' = [worker EXCEPT ![c].stage = "failed"]
    /\ UNCHANGED <<exported, service, disk, mem, mode, cancel, result, scenario, exposed>>

\* A PermissionSafetyError of one worker cancels all that are not done.
PermissionStop(c) ==
    /\ MayStop
    /\ worker[c].stage = "waiting" \/ Delivering(c)
    /\ worker' = [d \in Channel |->
                    IF worker[d].stage \in {"done", "failed"} THEN worker[d]
                    ELSE [worker[d] EXCEPT !.stage = "stopped"]]
    /\ UNCHANGED <<exported, service, disk, mem, mode, cancel, result, scenario, exposed>>

\* gather returns; whatever the outcome the engine saves the state and the
\* run leaves the phase.
EndPhase ==
    /\ mode # "none"
    /\ \A c \in Channel : worker[c].stage \in {"done", "failed", "stopped"}
    /\ disk' = mem
    /\ \E some \in SUBSET Retirable(mem) : receipt' = Without(some)
    /\ RunOver(mem)
    /\ UNCHANGED <<exported, copies, exposed>>

-----------------------------------------------------------------------------
\* The service creates the message of a request, also long after the call
\* has given up on it; or the request is lost.
Land(c, n) ==
    /\ receipt[c][n] = "flying"
    /\ \/ /\ receipt' = [receipt EXCEPT ![c][n] = "landed"]
          /\ copies' = [copies EXCEPT ![c][n] = @ + 1]
       \/ /\ receipt' = [receipt EXCEPT ![c][n] = "lost"]
          /\ UNCHANGED copies
    /\ UNCHANGED <<exported, disk, run, scenario, exposed>>

Work(c) ==
    \/ Admit(c) \/ SkipMessage(c) \/ Known(c) \/ Send(c) \/ Answer(c)
    \/ Checkpoint(c) \/ Complete(c) \/ Cancelled(c)

Next ==
    \/ \E c \in Channel : Export(c) \/ Work(c) \/ WorkerFails(c) \/ PermissionStop(c)
    \/ \E how \in Mode \ {"none"} : BeginRun(how)
    \/ RequestCancel \/ Crash \/ EndPhase
    \/ \E c \in Channel, n \in 0..MaxMessages : Land(c, n)

Spec == Init /\ [][Next]_vars
=============================================================================
