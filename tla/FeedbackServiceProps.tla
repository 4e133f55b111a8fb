------------------------ MODULE FeedbackServiceProps ------------------------
(***************************************************************************)
(* What the feedback service promises to its users and to the tracker.     *)
(***************************************************************************)
EXTENDS FeedbackService, TLC

\* Every variable has its type.
ServiceTypeOK ==
  /\ now \in 0..MaxTime
  /\ \A r \in Requests :
       /\ receipts[r].state \in {"none", "pending", "delivered", "failed", "absent"}
       /\ scans[r].pc \in {"none", "list", "contact", "deliver"}
       /\ contacts[r] \in Nat
  /\ readiness \in {"unknown", "ready", "unready"}
  /\ checking \in Handlers \union {Nobody, Probe} /\ categories \in BOOLEAN
  /\ \A h \in Handlers :
       handlers[h].pc \in {"idle", "sent", "ready", "post", "contact", "deliver", "failing",
                           "waiting", "done"}

\* The items that the receipt a request has now may have created.
ItemsOfClaim(r) ==
  { n \in DOMAIN items : items[n].request = r /\ items[n].at >= receipts[r].created }

\* The retry of a report never posts it twice while its receipt is kept, whatever
\* timed out, was replayed or restarted ("must never create a second public item
\* for an uncertain write").
NoDuplicate ==
  \A n, m \in DOMAIN items :
    n < m /\ items[n].request = items[m].request
      => items[m].at - items[n].at >= ReceiptRetention

\* A receipt that is free to be posted again (failed or absent) has no item, and no
\* write of it can still land.
FreeHasNoItem ==
  \A r \in Requests : receipts[r].state \in {"failed", "absent"} =>
    /\ ItemsOfClaim(r) = {}
    /\ \A w \in late : w.request # r
    /\ \A h \in Handlers : ~(handlers[h].request = r /\ handlers[h].pc = "post")

\* A delivered receipt, and every reply that says so, names an item with this report.
DeliveredNamesItem ==
  /\ \A r \in Requests : receipts[r].state = "delivered" =>
       /\ receipts[r].url \in ItemsOfClaim(r)
       /\ items[receipts[r].url].content = receipts[r].content
  /\ \A h \in Handlers : handlers[h].reply = "delivered" =>
       /\ handlers[h].url \in DOMAIN items
       /\ items[handlers[h].url].request = handlers[h].request
       /\ items[handlers[h].url].content = handlers[h].content

\* The contact of a report the service delivered is stored and outlives its receipt,
\* wherever the service died on the way.
ContactKept ==
  \A r \in Requests :
    receipts[r].state = "delivered" /\ ~receipts[r].audit /\ receipts[r].content \in Emails
      => contacts[r] >= receipts[r].expires

\* An item of the pending receipt is the only match of its scan: it is not hidden by
\* the cutoff, and the item of a forgotten receipt with the same id is not counted.
ScanFindsItem ==
  \A r \in Requests : scans[r].pc = "list" /\ IsPending(r) /\ ItemsOfClaim(r) # {}
    => Matches(r) = ItemsOfClaim(r)

\* The cached answer "ready" is never kept without the Discussion routing it proved.
ReadyIsRouted == readiness = "ready" => categories

\* In no window were more deliveries admitted than the quotas allow, although the
\* store forgets old claims.
Between(from, first, last) ==
  Cardinality({ a \in admitted : a.source \in from /\ a.at \in first..last })
QuotaHeld ==
  \A t \in 0..now :
    /\ Between(Sources, t - Hour + 1, t) <= GlobalLimit
    /\ \A s \in Sources : /\ Between({s}, t - Hour + 1, t) <= HourLimit
                          /\ Between({s}, t - Day + 1, t) <= DayLimit

\* A throttled client that waits until retry_at is admitted, and no earlier time
\* would have been enough.
RetryExact ==
  \A s \in Sources :
    LET retry == ReportRetry(events["report"], s, now)
    IN  retry # 0 => /\ retry > now
                     /\ ReportRetry(events["report"], s, retry) = 0
                     /\ \A t \in now..(retry - 1) : ReportRetry(events["report"], s, t) # 0

\* A client is told that its id belongs to another report only when someone else
\* used the id: edits take a new one.
ConflictIsForeign ==
  \A h \in Handlers : handlers[h].reply = "conflict" => handlers[h].request \in foreign

\* Nobody waits for ever: a handler that joined a scan has a scan that will answer it,
\* and the readiness lock is held only by someone who will give it back.
NobodyStranded ==
  /\ \A h \in Handlers : handlers[h].pc = "waiting" => scans[handlers[h].request] # NoScan
  /\ checking \in Handlers => handlers[checking].pc = "ready"

\* The next retry of an uncertain write performs the reconciliation
\* (feedback-service.md:89): the scan for an item that is there can look for it.
RetryReconciles ==
  \A r \in Requests : scans[r].pc = "list" /\ ItemsOfClaim(r) # {} => Listable(r)

\* What else holds of the service throughout: the types, receipts against items
\* and contacts, the scans and the caches, the replies and who waits for whom.
ServiceInv ==
    /\ ServiceTypeOK
    /\ FreeHasNoItem
    /\ DeliveredNamesItem
    /\ ContactKept
    /\ ScanFindsItem
    /\ ReadyIsRouted
    /\ ConflictIsForeign
    /\ NobodyStranded

\* The quotas are kept, and refuse nobody longer than they must.
QuotaExact == QuotaHeld /\ RetryExact

\* For TLC: handlers and sources are interchangeable.
Symmetric == Permutations(Handlers) \union Permutations(Sources)
-----------------------------------------------------------------------------
(* The inductive invariant of the proofs.                                  *)

Row == [state : {"none", "pending", "delivered", "failed", "absent"},
        content : Contents \union {"none"}, url : Nat, created : Nat, expires : Nat,
        audit : BOOLEAN]
Handling == [pc : {"idle", "sent", "ready", "post", "contact", "deliver", "failing",
                   "waiting", "done"},
             request : 0..MaxRequests, content : Contents \union {"none"},
             source : Sources \union {"none"},
             reply : {"none", "throttled", "conflict", "invalid", "delivered", "review",
                      "error", "failed"},
             url : Nat, landed : Nat]
Scan == [pc : {"none", "list", "contact", "deliver"}, content : Contents \union {"none"},
         created : Nat, url : Nat]

ServiceShapes ==
  /\ now \in 0..MaxTime
  /\ receipts \in [Requests -> Row] /\ contacts \in [Requests -> Nat]
  /\ readiness \in {"unknown", "ready", "unready"}
  /\ checking \in Handlers \union {Nobody, Probe} /\ categories \in BOOLEAN
  /\ handlers \in [Handlers -> Handling] /\ scans \in [Requests -> Scan]
  /\ items \in Seq([request : Requests, content : Contents, at : Nat])
  /\ late \subseteq [request : Requests, content : Contents]
  /\ draft \in [request : Requests, content : Contents] /\ foreign \subseteq Requests

\* A handler has a request while it works, nothing landed before it posts, and a reply at the end.
HandlerInv ==
  \A h \in Handlers :
    /\ handlers[h].pc \notin {"idle", "done"} =>
         handlers[h].request \in Requests /\ handlers[h].content \in Contents
    /\ handlers[h].pc \in {"sent", "ready"} => handlers[h].landed = 0
    /\ handlers[h].pc # "done" => handlers[h].reply = "none"
    /\ handlers[h].reply \in {"delivered", "conflict"} => handlers[h].request \in Requests

RowInv ==
  \A r \in Requests :
    IF receipts[r].state = "none" THEN receipts[r] = NoRow
    ELSE /\ receipts[r].content \in Contents /\ receipts[r].created <= now
         /\ receipts[r].expires = receipts[r].created + ReceiptRetention

\* An item is of the claim that its request has now, or older than the claim by a
\* whole retention; a request without a receipt may be claimed now.
ItemInv ==
  \A n \in DOMAIN items :
    LET row == receipts[items[n].request]
    IN  /\ items[n].at <= now
        /\ row.state = "none" => items[n].at + ReceiptRetention <= now
        /\ row.state # "none" =>
             \/ items[n].at + ReceiptRetention <= row.created
             \/ items[n].at = row.created /\ items[n].content = row.content

\* A handler between admission and settlement owns the claim, which is of this very
\* moment; nobody else writes for it, and what it created is what the claim has.
Active == {"ready", "post", "contact", "deliver", "failing"}
ActiveInv ==
  \A h \in Handlers : handlers[h].pc \in Active =>
    LET r == handlers[h].request
    IN  /\ receipts[r].state \in {"pending", "delivered"}
        /\ receipts[r].created = now /\ receipts[r].content = handlers[h].content
        /\ \A g \in Handlers \ {h} : handlers[g].pc \in Active => handlers[g].request # r
        /\ \A w \in late : w.request # r
        /\ handlers[h].pc \in {"ready", "failing"} => ItemsOfClaim(r) = {}
        /\ handlers[h].pc = "post" =>
             IF handlers[h].landed = 0 THEN ItemsOfClaim(r) = {}
             ELSE handlers[h].landed \in ItemsOfClaim(r)
        /\ handlers[h].pc \in {"contact", "deliver"} => handlers[h].url \in ItemsOfClaim(r)

\* A write that was given up has the claim for itself, and the claim has nothing yet.
LateInv ==
  \A w \in late :
    /\ receipts[w.request].state = "pending" /\ receipts[w.request].created = now
    /\ receipts[w.request].content = w.content /\ ItemsOfClaim(w.request) = {}
    /\ \A v \in late : v.request = w.request => v = w

\* A scan looks for the claim its request still has, and has found an item of it.
ScanInv ==
  \A r \in Requests :
    IF scans[r].pc = "none" THEN scans[r] = NoScan
    ELSE /\ receipts[r].state \in {"pending", "delivered", "failed"}
         /\ receipts[r].state = "failed" => receipts[r].created = now
         /\ receipts[r].expires > now
         /\ receipts[r].created = scans[r].created /\ receipts[r].content = scans[r].content
         /\ scans[r].pc \in {"contact", "deliver"} => scans[r].url \in ItemsOfClaim(r)

WaitInv ==
  \A h \in Handlers : handlers[h].pc = "waiting" =>
    /\ scans[handlers[h].request].pc # "none"
    /\ scans[handlers[h].request].content = handlers[h].content

\* Who is about to call a report delivered has stored its contact.
ContactInv ==
  /\ \A h \in Handlers : handlers[h].pc = "deliver" /\ handlers[h].content \in Emails =>
       contacts[handlers[h].request] >= now + ReceiptRetention
  /\ \A r \in Requests : scans[r].pc = "deliver" /\ scans[r].content \in Emails =>
       contacts[r] >= receipts[r].expires

\* Requests that nobody else used are of one report each, the draft's for the last.
OwnInv ==
  /\ \A r \in Requests \ foreign : receipts[r].state # "none" =>
       r <= draft.request /\ (r = draft.request => receipts[r].content = draft.content)
  /\ \A r \in foreign : r <= draft.request
  /\ \A h \in Handlers : handlers[h].pc = "sent" =>
       /\ handlers[h].request <= draft.request
       /\ handlers[h].request \notin foreign =>
            LET r == handlers[h].request
            IN  /\ r = draft.request => handlers[h].content = draft.content
                /\ receipts[r].state # "none" => receipts[r].content = handlers[h].content
                /\ \A g \in Handlers : handlers[g].pc = "sent" /\ handlers[g].request = r
                                         => handlers[g].content = handlers[h].content

LockInv == checking \in Handlers => handlers[checking].pc = "ready"

ServiceIInv ==
  /\ ServiceShapes /\ HandlerInv /\ RowInv /\ ItemInv /\ NoDuplicate /\ ActiveInv /\ LateInv
  /\ ScanInv /\ WaitInv /\ FreeHasNoItem /\ DeliveredNamesItem /\ ContactKept /\ ContactInv
  /\ OwnInv /\ ConflictIsForeign /\ ReadyIsRouted /\ LockInv

-----------------------------------------------------------------------------
(* The inductive invariant of the quotas.                                  *)

Claim == [source : Sources \union {"none"}, at : Nat, nr : Nat]

\* Every claim is of the past, and no two are the same.
ClaimsApart(log) ==
  /\ log \subseteq Claim /\ IsFiniteSet(log)
  /\ \A e \in log :
       /\ e.at <= now
       /\ e.nr < Cardinality({c \in log : c.source = e.source /\ c.at = e.at})

\* What the store forgot of the admitted claims is in no window any more.
Remembered ==
  {e \in events["report"] : e.at > now - Day} = {a \in admitted : a.at > now - Day}

QuotaInv ==
  /\ DOMAIN events = {"challenge", "report"}
  /\ \A kind \in DOMAIN events : ClaimsApart(events[kind])
  /\ ClaimsApart(admitted) /\ Remembered /\ QuotaHeld

=============================================================================
