------------------------------ MODULE Delivery ------------------------------
(***************************************************************************)
(* Delivery of one message, part by part, with a durable receipt:          *)
(* deliver_part (migrator/delivery.py), the part loop of _process_message  *)
(* (migrator/messages.py), the message half of _api_request                *)
(* (migrator/api.py), the receipt files of state.py, and the Stoat         *)
(* service as those functions use it.                                      *)
(*                                                                         *)
(* A Ref is a DeliveryRef: a source message, its destination and family.   *)
(* A Render is a render digest: what the message was rendered to; a later  *)
(* run may render it differently.  A crash, a cancellation and a           *)
(* permission stop are all Stop: the memory of the run is lost, files and  *)
(* requests already sent are not.                                          *)
(***************************************************************************)
EXTENDS Naturals, FiniteSets

CONSTANTS
    Ref,        \* delivery references
    Render,     \* render digests
    PartsOf,    \* number of parts of each render
    MaxTries,   \* MAX_API_RETRIES: posts within one retry budget
    MaxBegins,  \* bound: times _process_message is entered
    NoReceipt   \* no receipt file

VARIABLES
    receipts,   \* delivery-receipts/<namespace>/<id>.json, by ref (durable)
    ledger,     \* what state.json says of the message (durable)
    fresh,      \* _fresh_parts: keys this session may still dispatch (memory)
    call,       \* the _process_message call on the message (memory)
    wire,       \* requests on their way to Stoat
    recent,     \* Stoat's idempotency cache
    history,    \* the destination channels' messages
    nextId,     \* Stoat's next message identifier
    begun       \* calls begun so far, for the bound

files == <<receipts, ledger>>
stoat == <<wire, recent, history, nextId>>
vars == <<receipts, ledger, fresh, call, stoat, begun>>

-----------------------------------------------------------------------------
Statuses == {"prepared", "uncertain", "acknowledged", "confirmed_rejected"}
Part == [status : Statuses, attempt : Nat, id : Nat]
IsReceipt(rec) == \E d \in Render : rec \in [render : {d}, parts : [1..PartsOf[d] -> Part]]

ASSUME DeliveryAssumption ==
    /\ Render # {}
    /\ PartsOf \in [Render -> Nat \ {0}]
    /\ MaxTries \in Nat \ {0}
    /\ MaxBegins \in Nat
    /\ \A d \in Render : NoReceipt \notin [render : {d}, parts : [1..PartsOf[d] -> Part]]

\* The structural identity delivery_key hashes.
Key == [ref : Ref, part : Nat \ {0}, attempt : Nat]
Request == [key : Key, render : Render]
Message == [id : Nat \ {0}, key : Key, render : Render]

Replies == {"none", "created", "limited", "slowmode", "forbidden", "duplicate"}
Stages == {"idle", "deliver", "dispatch", "waiting", "finished"}
Call == [stage : Stages, part : Nat, render : Render, retry : BOOLEAN,
         failed : BOOLEAN, tries : Nat, slowed : BOOLEAN,
         reply : Replies, id : Nat]

Part0(a) == [status |-> "prepared", attempt |-> a, id |-> 0]
NewReceipt(d, a) == [render |-> d, parts |-> [p \in 1..PartsOf[d] |-> Part0(a)]]
\* Mistake: the key does not cover the part number.
KeyOfMessage(r, rec, p) == [ref |-> r, part |-> 1, attempt |-> rec.parts[p].attempt]
KeyOf(r, rec, p) == [ref |-> r, part |-> p, attempt |-> rec.parts[p].attempt]
KeysOf(r, rec) == {KeyOf(r, rec, p) : p \in DOMAIN rec.parts}

Exists(r) == receipts[r] # NoReceipt
AllAre(r, st) == \A p \in DOMAIN receipts[r].parts : receipts[r].parts[p].status = st
Current(r) == receipts[r].parts[call[r].part]
CurrentKey(r) == KeyOf(r, receipts[r], call[r].part)
Matches(r) == receipts[r].render = call[r].render

\* The receipts after write_delivery_receipt: r's with the parts f; its part p
\* made pr; its part p changed to status st and identifier i.
WithParts(r, f) == [receipts EXCEPT ![r] = [render |-> @.render, parts |-> f]]
WithPart(r, p, pr) == WithParts(r, [receipts[r].parts EXCEPT ![p] = pr])
\* Mistake: the identifier Stoat answered with is not kept.
MarkedOnly(r, p, st, i) ==
    WithPart(r, p, [status |-> st, attempt |-> receipts[r].parts[p].attempt, id |-> 0])
Marked(r, p, st, i) ==
    WithPart(r, p, [status |-> st, attempt |-> receipts[r].parts[p].attempt, id |-> i])

\* The messages in the destination's history that carry the key of part p.
Found(r, p) == {m \in history : m.key = KeyOf(r, receipts[r], p)}

NewCall(stage, d, retry) ==
    [stage |-> stage, part |-> 1, render |-> d, retry |-> retry, failed |-> FALSE,
     tries |-> 0, slowed |-> FALSE, reply |-> "none", id |-> 0]

Idle(c) == [c EXCEPT !.stage = "idle", !.reply = "none"]

\* The part's outcome is known to the loop of _process_message: on to the
\* next part, also after a failure; after the last one the call is finished.
Settle(r, ok) ==
    LET c == call[r]
        last == c.part = PartsOf[c.render]
    IN  call' = [call EXCEPT ![r] =
                   [c EXCEPT !.stage = IF last THEN "finished" ELSE "deliver",
                             !.part = IF last THEN c.part ELSE c.part + 1,
                             !.failed = c.failed \/ ~ok,
                             !.tries = 0, !.slowed = FALSE,
                             !.reply = "none", !.id = 0]]

-----------------------------------------------------------------------------
Init ==
    /\ receipts = [r \in Ref |-> NoReceipt]
    /\ ledger = [r \in Ref |-> "pending"]
    /\ fresh = {}
    /\ call = [r \in Ref |-> NewCall("idle", CHOOSE d \in Render : TRUE, FALSE)]
    /\ wire = {}
    /\ recent = {}
    /\ history = {}
    /\ nextId = 1
    /\ begun = 0

Begin(r, d, retry) ==
    /\ begun < MaxBegins
    /\ begun' = begun + 1
    /\ call' = [call EXCEPT ![r] = NewCall("deliver", d, retry)]
    /\ UNCHANGED <<files, fresh, stoat>>

\* A migration, a resume or an incremental run (which authorizes retries of
\* rejected parts) reaches a message that state.json does not account for.
BeginRun(r, d) ==
    /\ call[r].stage = "idle"
    /\ ledger[r] = "pending"
    /\ \E retry \in BOOLEAN : Begin(r, d, retry)

\* --retry-failed, or an incremental run, takes up a recorded failure;
\* retry_delivery_context wants the receipt it was recorded with.
BeginRetry(r, d) ==
    /\ call[r].stage = "idle"
    /\ ledger[r] = "failed"
    /\ Exists(r)
    /\ Begin(r, d, TRUE)

\* deliver_part, no receipt: every part is prepared and durable before the
\* first one is dispatched.
CreateReceipt(r) ==
    /\ call[r].stage = "deliver"
    /\ ~Exists(r)
    /\ receipts' = [receipts EXCEPT ![r] = NewReceipt(call[r].render, 0)]
    /\ fresh' = fresh \union KeysOf(r, NewReceipt(call[r].render, 0))
    /\ UNCHANGED <<ledger, call, stoat, begun>>

\* deliver_part, another render than the receipt's: replaced under a new
\* attempt only when every part is known to be rejected.
Reissue(r) ==
    /\ call[r].stage = "deliver"
    /\ Exists(r)
    /\ ~Matches(r)
    /\ call[r].retry
    /\ AllAre(r, "confirmed_rejected")
    /\ \E p \in DOMAIN receipts[r].parts :
          LET latest == receipts[r].parts[p].attempt
              new == NewReceipt(call[r].render, latest + 1)
          IN  /\ \A q \in DOMAIN receipts[r].parts : receipts[r].parts[q].attempt <= latest
              /\ receipts' = [receipts EXCEPT ![r] = new]
              /\ fresh' = fresh \union KeysOf(r, new)
    /\ UNCHANGED <<ledger, call, stoat, begun>>

\* deliver_part, a rejected part that this call may retry: a new key.
RetryRejected(r) ==
    /\ call[r].stage = "deliver"
    /\ Exists(r)
    /\ Matches(r)
    /\ call[r].retry
    /\ Current(r).status = "confirmed_rejected"
    /\ LET a == Current(r).attempt + 1
       IN  /\ receipts' = WithPart(r, call[r].part, Part0(a))
           /\ fresh' = fresh \union {[CurrentKey(r) EXCEPT !.attempt = a]}
    /\ UNCHANGED <<ledger, call, stoat, begun>>

\* deliver_part, the part is already delivered: its saved result.
AlreadyAcknowledged(r) ==
    /\ call[r].stage = "deliver"
    /\ Exists(r)
    /\ Matches(r)
    /\ Current(r).status = "acknowledged"
    /\ Settle(r, TRUE)
    /\ UNCHANGED <<files, fresh, stoat, begun>>

\* deliver_part raises: the render differs from the evidence, or the part is
\* rejected and nobody authorized a retry.
Refuse(r) ==
    /\ call[r].stage = "deliver"
    /\ Exists(r)
    /\ \/ ~Matches(r) /\ ~(call[r].retry /\ AllAre(r, "confirmed_rejected"))
       \/ Matches(r) /\ Current(r).status = "confirmed_rejected" /\ ~call[r].retry
    /\ Settle(r, FALSE)
    /\ UNCHANGED <<files, fresh, stoat, begun>>

\* Only a part prepared by this very session is sent.
\* Mistake: an uncertain part is simply sent again.
MayDispatchAgain(r) == Current(r).status \in {"prepared", "uncertain"}
MayDispatch(r) == Current(r).status = "prepared" /\ CurrentKey(r) \in fresh
NeedsLookup(r) == \/ Current(r).status = "uncertain"
                  \/ Current(r).status = "prepared" /\ CurrentKey(r) \notin fresh

\* Mistake: the request leaves before the receipt says so.
DispatchUnmarked(r) ==
    /\ call[r].stage = "deliver"
    /\ Exists(r)
    /\ Matches(r)
    /\ MayDispatch(r)
    /\ fresh' = fresh \ {CurrentKey(r)}
    /\ call' = [call EXCEPT ![r].stage = "dispatch"]
    /\ UNCHANGED <<files, stoat, begun>>

\* deliver_part: the part is durably uncertain before the request leaves.
Dispatch(r) ==
    /\ call[r].stage = "deliver"
    /\ Exists(r)
    /\ Matches(r)
    /\ MayDispatch(r)
    /\ receipts' = Marked(r, call[r].part, "uncertain", 0)
    /\ fresh' = fresh \ {CurrentKey(r)}
    /\ call' = [call EXCEPT ![r].stage = "dispatch"]
    /\ UNCHANGED <<ledger, stoat, begun>>

\* recover(): ask the history for every part still open, keep what it shows.
Recover(r) ==
    LET open(p) == receipts[r].parts[p].status \in {"prepared", "uncertain"}
        seen(p) == open(p) /\ Found(r, p) # {}
        newParts == [p \in DOMAIN receipts[r].parts |->
                       IF seen(p)
                       THEN [receipts[r].parts[p] EXCEPT
                               !.status = "acknowledged",
                               !.id = (CHOOSE m \in Found(r, p) : TRUE).id]
                       ELSE receipts[r].parts[p]]
    IN  /\ receipts' = WithParts(r, newParts)
        /\ Settle(r, newParts[call[r].part].status = "acknowledged")
        /\ UNCHANGED <<ledger, fresh, stoat, begun>>

\* _find_messages fails (network, partial or conflicting history).
RecoverFails(r) ==
    /\ Settle(r, FALSE)
    /\ UNCHANGED <<files, fresh, stoat, begun>>

\* deliver_part: evidence of an earlier dispatch is resolved by lookup only.
Lookup(r) ==
    /\ call[r].stage = "deliver"
    /\ Exists(r)
    /\ Matches(r)
    /\ NeedsLookup(r)
    /\ Recover(r) \/ RecoverFails(r)

-----------------------------------------------------------------------------
(* _api_request for a message: the posts of one dispatch.                  *)

Post(r) ==
    /\ call[r].stage = "dispatch"
    /\ wire' = wire \union {[key |-> CurrentKey(r), render |-> call[r].render]}
    /\ call' = [call EXCEPT ![r].stage = "waiting", ![r].tries = @ + 1]
    /\ UNCHANGED <<files, fresh, recent, history, nextId, begun>>

\* A permanent TLS or proxy error: the request never leaves, the part stays
\* uncertain.
PostImpossible(r) ==
    /\ call[r].stage = "dispatch"
    /\ Settle(r, FALSE)
    /\ UNCHANGED <<files, fresh, stoat, begun>>

Created(r) ==
    /\ call[r].stage = "waiting"
    /\ call[r].reply = "created"
    /\ receipts' = Marked(r, call[r].part, "acknowledged", call[r].id)
    /\ Settle(r, TRUE)
    /\ UNCHANGED <<ledger, fresh, stoat, begun>>

PostAgain(r, tries, slowed) ==
    /\ call' = [call EXCEPT ![r].stage = "dispatch", ![r].reply = "none",
                            ![r].tries = tries, ![r].slowed = slowed]
    /\ UNCHANGED <<files, fresh, stoat, begun>>

\* Mistake: a request that stays unanswered is repeated, as other requests are.
TryAgainOnSilence(r) ==
    /\ call[r].stage = "waiting"
    /\ call[r].reply \in {"none", "limited"}
    /\ call[r].tries < MaxTries
    /\ PostAgain(r, call[r].tries, call[r].slowed)

\* Mistake: every slowmode answer is waited out, not only the first.
TryAgainAlways(r) ==
    /\ call[r].stage = "waiting"
    /\ \/ call[r].reply = "limited" /\ call[r].tries < MaxTries
          /\ PostAgain(r, call[r].tries, call[r].slowed)
       \/ call[r].reply = "slowmode" /\ PostAgain(r, 0, TRUE)

\* 429 within the budget; or the first typed slowmode answer, which starts a
\* new budget.
TryAgain(r) ==
    /\ call[r].stage = "waiting"
    /\ \/ call[r].reply = "limited" /\ call[r].tries < MaxTries
          /\ PostAgain(r, call[r].tries, call[r].slowed)
       \/ call[r].reply = "slowmode" /\ ~call[r].slowed
          /\ PostAgain(r, 0, TRUE)

\* Mistake: no answer counts as a rejection.
RejectionOnSilence(r) == call[r].reply \in {"none", "limited", "slowmode", "forbidden"}

\* The dispositions that are confirmed_rejected: 429 on the last try, a
\* second slowmode answer, 403 MissingPermission.
ConfirmedRejection(r) ==
    \/ call[r].reply = "limited" /\ call[r].tries >= MaxTries
    \/ call[r].reply = "slowmode" /\ call[r].slowed
    \/ call[r].reply = "forbidden"

Rejected(r) ==
    /\ call[r].stage = "waiting"
    /\ ConfirmedRejection(r)
    /\ receipts' = Marked(r, call[r].part, "confirmed_rejected", 0)
    /\ Settle(r, FALSE)
    /\ UNCHANGED <<ledger, fresh, stoat, begun>>

\* 409 DuplicateNonce, or whatever was answered does not arrive in a usable
\* form (network error, timeout, 5xx, unreadable body): never sent again,
\* looked up instead.
UncertainAnswer(r) ==
    /\ call[r].stage = "waiting"
    /\ Recover(r) \/ RecoverFails(r)

-----------------------------------------------------------------------------
(* _process_message returns; save_state and what may interrupt it.         *)

\* Mistake: the failure of an earlier part is forgotten.
CommitAnyway(r) ==
    /\ call[r].stage = "finished"
    /\ ledger' = [ledger EXCEPT ![r] = "done"]
    /\ call' = [call EXCEPT ![r] = Idle(@)]
    /\ UNCHANGED <<receipts, fresh, stoat, begun>>

\* save_state commits the outcome: the message consumed, or recorded in
\* failed_messages with its ref.
Commit(r) ==
    /\ call[r].stage = "finished"
    /\ ledger' = [ledger EXCEPT ![r] = IF call[r].failed THEN "failed" ELSE "done"]
    /\ call' = [call EXCEPT ![r] = Idle(@)]
    /\ UNCHANGED <<receipts, fresh, stoat, begun>>

\* Mistake: receipts are unlinked before state.json is written.
RetireEarly(r) ==
    /\ Exists(r)
    /\ AllAre(r, "acknowledged")
    /\ receipts' = [receipts EXCEPT ![r] = NoReceipt]
    /\ UNCHANGED <<ledger, fresh, call, stoat, begun>>

\* _retire_consumed_deliveries: only after state.json has the outcome.
Retire(r) ==
    /\ call[r].stage = "idle"
    /\ ledger[r] = "done"
    /\ Exists(r)
    /\ AllAre(r, "acknowledged")
    /\ receipts' = [receipts EXCEPT ![r] = NoReceipt]
    /\ UNCHANGED <<ledger, fresh, call, stoat, begun>>

\* The process dies or the run is stopped and another one is started.
Stop ==
    /\ fresh' = {}
    /\ call' = [r \in Ref |-> Idle(call[r])]
    /\ UNCHANGED <<files, stoat, begun>>

-----------------------------------------------------------------------------
(* The Stoat service, as delivery.py and api.py use it.                    *)

Answer(w, reply, id) ==
    LET r == w.key.ref
        listening == /\ call[r].stage = "waiting"
                     /\ call[r].reply = "none"
                     /\ CurrentKey(r) = w.key
    IN  call' = IF listening
                THEN [call EXCEPT ![r].reply = reply, ![r].id = id]
                ELSE call

StoatCreates(w) ==
    /\ w.key \notin recent
    /\ history' = history \union {[id |-> nextId, key |-> w.key, render |-> w.render]}
    /\ nextId' = nextId + 1
    /\ recent' = recent \union {w.key}
    /\ wire' = wire \ {w}
    /\ Answer(w, "created", nextId)
    /\ UNCHANGED <<files, fresh, begun>>

\* 429 before the handler runs, or the handler's refusal, which may already
\* have consumed the key.
StoatRefuses(w) ==
    /\ wire' = wire \ {w}
    /\ \/ recent' = recent /\ \E a \in {"limited", "slowmode", "forbidden"} : Answer(w, a, 0)
       \/ recent' = recent \union {w.key}
          /\ \E a \in {"slowmode", "forbidden"} : Answer(w, a, 0)
    /\ UNCHANGED <<files, fresh, history, nextId, begun>>

StoatDuplicate(w) ==
    /\ w.key \in recent
    /\ wire' = wire \ {w}
    /\ Answer(w, "duplicate", 0)
    /\ UNCHANGED <<files, fresh, recent, history, nextId, begun>>

\* A request that never arrives.
Lost(w) ==
    /\ wire' = wire \ {w}
    /\ UNCHANGED <<files, fresh, call, recent, history, nextId, begun>>

\* The idempotency cache is small, in memory and process-local.
StoatForgets ==
    /\ \E k \in recent : recent' = recent \ {k}
    /\ UNCHANGED <<files, fresh, call, wire, history, nextId, begun>>

-----------------------------------------------------------------------------
Client(r) ==
    \/ CreateReceipt(r) \/ Reissue(r) \/ RetryRejected(r)
    \/ AlreadyAcknowledged(r) \/ Refuse(r) \/ Lookup(r)
    \/ Dispatch(r) \/ Post(r) \/ PostImpossible(r)
    \/ Created(r) \/ TryAgain(r) \/ Rejected(r) \/ UncertainAnswer(r)
    \/ Commit(r)

Server(w) == StoatCreates(w) \/ StoatRefuses(w) \/ StoatDuplicate(w) \/ Lost(w)

Next ==
    \/ \E r \in Ref, d \in Render : BeginRun(r, d) \/ BeginRetry(r, d)
    \/ \E r \in Ref : Client(r) \/ Retire(r)
    \/ \E w \in wire : Server(w)
    \/ StoatForgets
    \/ Stop

Spec == Init /\ [][Next]_vars

\* A call is a coroutine that is resumed: every request it awaits has a
\* timeout, every wait an end.
FairSpec == Spec /\ \A r \in Ref : WF_vars(Client(r))
=============================================================================
