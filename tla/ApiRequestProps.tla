--------------------------- MODULE ApiRequestProps ---------------------------
(***************************************************************************)
(* The properties of ApiRequest.                                           *)
(***************************************************************************)
EXTENDS ApiRequest

\* Type invariant of the calls and the shared counters.
RequestTypeOK ==
    /\ requests \in [Requests -> CallState]
    /\ failures \in Nat
    /\ bucket \in Bucket
    /\ faults \in Nat

\* Never more requests on the wire than the semaphore has slots, message
\* sends, their lookups and all other calls taken together.
InFlightBounded ==
    Cardinality({r \in Requests : requests[r].stage \in {"http", "lookup"}}) <= SlotCount

\* A call that waits for a slot holds none: the lookups of a recovery can not
\* starve on the slots of the sends that wait for them.
NoHoldAndWait ==
    \A r \in Requests :
        requests[r].slot => ~(\/ At(r, "queue") \/ At(r, "recover")
                              \/ At(r, "send") /\ IsMessage(r))

\* The circuit breaker counts faults of the service, each at most once, and
\* nothing else: rate limits and refusals never open it.
BreakerCountsFaults ==
    failures + Cardinality({r \in Requests : At(r, "backoff")}) <= faults

\* The shadow counter never promises more than the service last reported,
\* also when calls that read an earlier report are refunded.
ShadowHonest == bucket.remaining <= bucket.reported

\* A message send goes back to the wire only after a rate limit has refused
\* it; a doubtful outcome goes to the recovery and no way leads back from it.
ResentOnlyWhenLimited ==
    [][\A r \in MessageSend :
          /\ At(r, "http") /\ ~At(r, "http")' =>
                requests'[r].stage \in {"done", "recover", "limited", "cooldown"}
          /\ At(r, "recover") \/ At(r, "lookup") =>
                requests'[r].stage \in {"recover", "lookup", "done"}]_requestVars

\* Every call ends, with one slot for all and whatever the service answers.
RequestsEnd == \A r \in Requests : ~At(r, "idle") ~> At(r, "done")

\* What the calls share stays sound however they interleave: the slots, and the
\* counters of the breaker and of the rate limit.
SharedSound == InFlightBounded /\ NoHoldAndWait /\ BreakerCountsFaults /\ ShadowHonest
=============================================================================
