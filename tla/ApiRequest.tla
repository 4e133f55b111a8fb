----------------------------- MODULE ApiRequest -----------------------------
(***************************************************************************)
(* _api_request and _api_request_inner (migrator/api.py): every request to *)
(* Stoat, with the concurrency semaphore, the circuit breaker, the shadow  *)
(* counter of the rate-limit bucket and the retries.                       *)
(*                                                                         *)
(* A call with message recovery is a message send: it takes a slot for one *)
(* HTTP attempt only, and after a doubtful outcome it asks its recovery,   *)
(* which makes requests of its own.  Every other call keeps its slot from  *)
(* the beginning to the end.  All calls share one bucket.  Time is left    *)
(* out: a sleep may end at any moment, the window of the bucket too.       *)
(***************************************************************************)
EXTENDS Naturals, FiniteSets

CONSTANTS
    Requests,       \* the calls of a run
    MessageSend,    \* those with message recovery
    MaxConcurrent,  \* config.max_concurrent_requests
    MaxRetries,     \* MAX_API_RETRIES
    Threshold,      \* _CIRCUIT_THRESHOLD
    Limit           \* bound: units of a window of the bucket

ASSUME ApiAssumption ==
    /\ IsFiniteSet(Requests)
    /\ MessageSend \subseteq Requests
    /\ MaxConcurrent \in Nat
    /\ MaxRetries \in Nat \ {0}
    /\ Threshold \in Nat \ {0}
    /\ Limit \in Nat

VARIABLES
    requests,   \* the calls' progress
    failures,   \* _circuit_state.consecutive_failures
    bucket,     \* the bucket's published _BucketState
    faults      \* history: answers that were a fault of the service

requestVars == <<requests, failures, bucket, faults>>

-----------------------------------------------------------------------------
Stage == {"idle", "queue", "enter", "paused", "attempt", "pacing", "send",
          "http", "limited", "backoff", "recover", "lookup", "cooldown", "done"}

\* The _BucketState a call has read: the published one, or one that a later
\* response has replaced; the charge is prev_remaining, to be refunded.
BucketRef == {"none", "current", "replaced"}

CallState == [stage : Stage,
              attempt : 0..MaxRetries - 1,
              slot : BOOLEAN,           \* it holds a slot of the semaphore
              state : BucketRef,        \* charged_state
              charge : 0..Limit,        \* prev_remaining
              bypass : BOOLEAN,         \* bypass_state is the published state
              cooled : BOOLEAN]         \* typed_wait_used

Bucket == [known : BOOLEAN,
           remaining : 0..Limit,
           reported : 0..Limit,         \* history: as the service reported it
           elapsed : BOOLEAN]           \* its window is over

NewRequest == [stage |-> "idle", attempt |-> 0, slot |-> FALSE, state |-> "none",
               charge |-> 0, bypass |-> FALSE, cooled |-> FALSE]

SlotCount == IF MaxConcurrent > 1 THEN MaxConcurrent ELSE 1
Free == Cardinality({r \in Requests : requests[r].slot}) < SlotCount

At(r, st) == requests[r].stage = st
IsMessage(r) == r \in MessageSend
Last(r) == requests[r].attempt = MaxRetries - 1

Set(r, c) == requests' = [requests EXCEPT ![r] = c]
Goto(r, st) == Set(r, [requests[r] EXCEPT !.stage = st])

RequestInit ==
    /\ requests = [r \in Requests |-> NewRequest]
    /\ failures = 0
    /\ bucket = [known |-> FALSE, remaining |-> 0, reported |-> 0, elapsed |-> TRUE]
    /\ faults = 0

-----------------------------------------------------------------------------
(* Slots.  A call that ends, and a message send between attempts, has none.*)
(* A charge is forgotten when its attempt is over: the next one, if any,   *)
(* charges again.                                                          *)

End == [NewRequest EXCEPT !.stage = "done"]

\* Mistake: a message send keeps its slot while it asks its recovery.
LeaveHolding(r, st) == [requests[r] EXCEPT !.stage = st, !.state = "none", !.charge = 0]
Leave(r, st) == [LeaveHolding(r, st) EXCEPT !.slot = IF IsMessage(r) THEN FALSE ELSE @]

Issue(r) ==
    /\ At(r, "idle")
    /\ Goto(r, IF IsMessage(r) THEN "enter" ELSE "queue")
    /\ UNCHANGED <<failures, bucket, faults>>

\* Mistake: message sends do not take a slot.
TakesFreeSlot(r) == IsMessage(r) \/ Free
TakesSlot(r) == Free

\* async with _request_semaphore, around the call or around an attempt.
Acquire(r) ==
    /\ \/ At(r, "queue")
       \/ At(r, "send") /\ IsMessage(r)
       \/ At(r, "recover")
    /\ TakesSlot(r)
    /\ Set(r, [requests[r] EXCEPT !.slot = TRUE,
                              !.stage = CASE At(r, "queue") -> "enter"
                                          [] At(r, "send") -> "http"
                                          [] OTHER -> "lookup"])
    /\ UNCHANGED <<failures, bucket, faults>>

-----------------------------------------------------------------------------
(* Before an attempt.                                                      *)

\* The circuit breaker, once for each call of _api_request_inner.
Enter(r) ==
    /\ At(r, "enter")
    /\ Set(r, [requests[r] EXCEPT !.stage = IF failures >= Threshold THEN "paused" ELSE "attempt",
                              !.attempt = 0])
    /\ UNCHANGED <<failures, bucket, faults>>

PauseOver(r) ==
    /\ At(r, "paused")
    /\ Goto(r, "attempt")
    /\ failures' = 0
    /\ UNCHANGED <<bucket, faults>>

Charged == IF bucket.remaining > 0 THEN bucket.remaining - 1 ELSE 0

\* The published state is charged, or the one read before the wait.
Charge(r, ref) ==
    LET c == [requests[r] EXCEPT !.stage = IF IsMessage(r) THEN "send" ELSE "http",
                             !.bypass = FALSE]
    IN  IF ref = "current"
        THEN /\ Set(r, [c EXCEPT !.state = "current", !.charge = bucket.remaining])
             /\ bucket' = [bucket EXCEPT !.remaining = Charged]
        ELSE /\ Set(r, [c EXCEPT !.state = ref])
             /\ UNCHANGED bucket

MustPace(r) == bucket.known /\ bucket.remaining <= 0 /\ ~bucket.elapsed /\ ~requests[r].bypass

Attempt(r) ==
    /\ At(r, "attempt")
    /\ IF MustPace(r)
       THEN /\ Set(r, [requests[r] EXCEPT !.stage = "pacing", !.state = "current", !.bypass = FALSE])
            /\ UNCHANGED bucket
       ELSE Charge(r, IF bucket.known THEN "current" ELSE "none")
    /\ UNCHANGED <<failures, faults>>

\* The wait is not repeated, whatever the bucket says by then.
Paced(r) ==
    /\ At(r, "pacing")
    /\ bucket.elapsed \/ requests[r].state = "replaced"
    /\ Charge(r, requests[r].state)
    /\ UNCHANGED <<failures, faults>>

-----------------------------------------------------------------------------
(* The answer to an attempt.                                               *)

\* _update_pacer_state: a response that carries the headers of the bucket
\* replaces its state; whoever has read the state before has a replaced one.
Outdated(c) ==
    [c EXCEPT !.state = IF @ = "current" THEN "replaced" ELSE @, !.bypass = FALSE]

Published(r, c) ==
    /\ \E n \in 0..Limit :
          bucket' = [known |-> TRUE, remaining |-> n, reported |-> n, elapsed |-> FALSE]
    /\ requests' = [q \in Requests |-> IF q = r THEN c ELSE Outdated(requests[q])]

MayPublish(r, c) == Published(r, Outdated(c)) \/ (Set(r, c) /\ UNCHANGED bucket)

\* Mistake: the refund goes to whatever state is published by then.
RefundPublished(r) ==
    IF requests[r].state = "none" THEN bucket ELSE [bucket EXCEPT !.remaining = requests[r].charge]

\* charged_state.remaining = prev_remaining.
Refunded(r) ==
    IF requests[r].state = "current" THEN [bucket EXCEPT !.remaining = requests[r].charge] ELSE bucket

\* 200, 201, 204, an expected 404; 409 DuplicateNonce ends without a result
\* but counts as an answer; a 200 without JSON or identifier is no success.
Success(r) ==
    /\ At(r, "http")
    /\ failures' = 0
    /\ \/ MayPublish(r, End)
       \/ IsMessage(r) /\ MayPublish(r, Leave(r, "recover"))
    /\ UNCHANGED faults

\* Any other answer that ends the call at once and counts for nothing: a
\* refusal, an error of the request, a permanent proxy or certificate error.
Refusal(r) ==
    /\ At(r, "http")
    /\ \/ Set(r, End)
       \/ IsMessage(r) /\ Set(r, Leave(r, "recover"))
    /\ UNCHANGED <<failures, bucket, faults>>

\* Mistake: a rate limit that uses up the retries counts as a failure.
CountedWhenLast(r) == failures' = IF Last(r) THEN failures + 1 ELSE failures
CountedLimit(r) == UNCHANGED failures

\* 429: the last one ends the call.  The slot is kept during the delay, and
\* the retry skips the pacer if the state published or else charged here is
\* still the published one.
RateLimited(r) ==
    LET c == [requests[r] EXCEPT !.stage = "limited", !.state = "none", !.charge = 0]
    IN  /\ At(r, "http")
        /\ CountedLimit(r)
        /\ IF Last(r)
           THEN Set(r, End) /\ UNCHANGED bucket
           ELSE \/ Published(r, [c EXCEPT !.bypass = TRUE])
                \/ /\ Set(r, [c EXCEPT !.bypass = requests[r].state = "current"])
                   /\ UNCHANGED bucket
        /\ UNCHANGED faults

LimitOver(r) ==
    /\ At(r, "limited")
    /\ Set(r, [Leave(r, "attempt") EXCEPT !.attempt = @ + 1])
    /\ UNCHANGED <<failures, bucket, faults>>

\* 429 InSlowmode of a message send: once the typed wait, with a new budget.
Slowmode(r) ==
    /\ At(r, "http")
    /\ IsMessage(r)
    /\ Set(r, IF requests[r].cooled THEN End
              ELSE [Leave(r, "cooldown") EXCEPT !.cooled = TRUE])
    /\ UNCHANGED <<failures, bucket, faults>>

Cooled(r) ==
    /\ At(r, "cooldown")
    /\ Goto(r, "enter")
    /\ UNCHANGED <<failures, bucket, faults>>

\* Mistake: a message send with a doubtful outcome is retried like the rest.
AfterFaultRetried(r) == IF Last(r) THEN End ELSE [requests[r] EXCEPT !.stage = "backoff"]

\* Where a fault leads: a message send asks its recovery, any other call is
\* retried until its budget is used up.
AfterFault(r) ==
    CASE IsMessage(r) -> Leave(r, "recover")
      [] ~IsMessage(r) /\ Last(r) -> End
      [] OTHER -> [requests[r] EXCEPT !.stage = "backoff"]

RefundedIfMessage(r) == bucket' = IF IsMessage(r) THEN Refunded(r) ELSE bucket

\* A 5xx or a network error.  A call that will be retried counts it, and is
\* refunded, only after its backoff.
Fault(r) ==
    /\ At(r, "http")
    /\ faults' = faults + 1
    /\ Set(r, AfterFault(r))
    /\ IF AfterFault(r).stage = "backoff" THEN UNCHANGED <<failures, bucket>>
       ELSE /\ failures' = failures + 1
            /\ RefundedIfMessage(r)

\* The body of a 200 does not arrive: an answer, and then a fault.
BrokenAnswer(r) ==
    /\ At(r, "http")
    /\ faults' = faults + 1
    /\ failures' = IF AfterFault(r).stage = "backoff" THEN 0 ELSE 1
    /\ \/ Published(r, Outdated(AfterFault(r)))
       \/ Set(r, AfterFault(r)) /\ RefundedIfMessage(r)

BackoffOver(r) ==
    /\ At(r, "backoff")
    /\ Set(r, [Leave(r, "attempt") EXCEPT !.attempt = @ + 1])
    /\ failures' = failures + 1
    /\ bucket' = Refunded(r)
    /\ UNCHANGED faults

\* The recovery's requests, in one step: they may succeed, fail or both.
RecoveryLookup(r) ==
    /\ At(r, "lookup")
    /\ Set(r, End)
    /\ \/ failures' = 0 /\ UNCHANGED faults
       \/ failures' = failures + 1 /\ faults' = faults + 1
       \/ UNCHANGED <<failures, faults>>
    /\ UNCHANGED bucket

\* The task is cancelled at an await: context managers release the slot.
Cancel(r) ==
    /\ ~At(r, "idle")
    /\ ~At(r, "done")
    /\ Set(r, End)
    /\ UNCHANGED <<failures, bucket, faults>>

WindowElapses ==
    /\ bucket.known
    /\ ~bucket.elapsed
    /\ bucket' = [bucket EXCEPT !.elapsed = TRUE]
    /\ UNCHANGED <<requests, failures, faults>>

-----------------------------------------------------------------------------
Response(r) ==
    \/ Success(r) \/ Refusal(r) \/ RateLimited(r) \/ Slowmode(r) \/ Fault(r)
    \/ BrokenAnswer(r)

Step(r) ==
    \/ Acquire(r) \/ Enter(r) \/ PauseOver(r) \/ Attempt(r) \/ Paced(r) \/ Response(r)
    \/ LimitOver(r) \/ Cooled(r) \/ BackoffOver(r) \/ RecoveryLookup(r)

RequestNext == (\E r \in Requests : Issue(r) \/ Step(r) \/ Cancel(r)) \/ WindowElapses

RequestSpec == RequestInit /\ [][RequestNext]_requestVars

\* Sleeps and HTTP attempts end (the session has a timeout), waiting tasks
\* are resumed.
FairRequestSpec ==
    /\ RequestSpec
    /\ WF_requestVars(WindowElapses)
    /\ \A r \in Requests : WF_requestVars(Step(r))
=============================================================================
