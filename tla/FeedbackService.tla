-------------------------- MODULE FeedbackService --------------------------
(***************************************************************************)
(* The feedback service: drafts of the clients, the challenge and the      *)
(* report handlers, the receipt store with its quotas, the readiness       *)
(* cache, the GitHub writes and the reconciliation of the uncertain ones,  *)
(* the operator's commands, and a restart of the service.                  *)
(*                                                                         *)
(* A transaction of the store is one step (asyncio lock, BEGIN IMMEDIATE). *)
(* The clock counts units that are long against one request: it advances   *)
(* only while nothing is in flight.                                        *)
(***************************************************************************)
EXTENDS Integers, FiniteSets, Sequences

CONSTANTS
  Handlers,            \* concurrent requests the service works on
  Sources,             \* network sources
  Contents,            \* reports a user may write
  Ideas,               \* the reports that become a Discussion, the rest an Issue
  Emails,              \* the reports with a contact address
  Nobody,              \* nobody holds the readiness lock
  Probe,               \* a caller of /ready
  Hour, Day,           \* the two quota windows
  ChallengeLimit,      \* challenges per source and hour
  HourLimit, DayLimit, \* reports per source in each window
  GlobalLimit,         \* reports of all sources per hour
  ReceiptRetention,
  ContactRetention,
  CutoffMargin,        \* how far before its receipt an item is looked for
  MaxRequests, MaxSends, MaxTime, MaxEvents   \* bounds of the model

ASSUME BoundsAssumption ==
  /\ Ideas \subseteq Contents /\ Emails \subseteq Contents
  /\ {Hour, Day, ChallengeLimit, HourLimit, DayLimit, GlobalLimit} \subseteq Nat \ {0}
  /\ {ReceiptRetention, ContactRetention} \subseteq Nat \ {0}
  /\ Hour <= Day /\ CutoffMargin \in Nat
  /\ MaxRequests \in Nat \ {0} /\ {MaxSends, MaxTime, MaxEvents} \subseteq Nat

\* Seven days, thirty days and two minutes (store.py, github.py).
ASSUME RetentionAssumption ==
  ReceiptRetention <= ContactRetention /\ CutoffMargin < ReceiptRetention

ASSUME NamesAssumption == {Nobody, Probe} \intersect Handlers = {} /\ Nobody # Probe

VARIABLES
  now,         \* the service's clock
  receipts,    \* table receipts, by request id
  contacts,    \* table contacts: when the contact of a request expires, 0 for none
  events,      \* table rate_events: by kind, the rows [source, at, nr]
  readiness,   \* the readiness cache: unknown, ready or unready
  checking,    \* who holds the readiness lock during check_readiness
  categories,  \* the Discussion categories are known
  handlers,    \* the requests being handled, with the reply of the finished ones
  scans,       \* the reconciliation in flight for a request id
  items,       \* external: the public items on GitHub, their index is their URL
  late,        \* external: writes whose answer was given up and that may still land
  draft,       \* the draft of the client
  foreign,     \* request ids that someone else used for another report
  admitted,    \* history: the deliveries that claimed quota
  sends,       \* bound: challenges asked for
  outside      \* bound: steps of users, operators, clocks and restarts

store == <<receipts, contacts, events>>
cache == <<readiness, checking, categories>>
github == <<items, late>>
client == <<draft, foreign, sends>>
serviceVars == <<now, store, cache, handlers, scans, github, client, admitted, outside>>

\* A step from outside, of which MaxEvents happen.
Outside == outside < MaxEvents /\ outside' = outside + 1

Requests == 1..MaxRequests
NoRow == [state |-> "none", content |-> "none", url |-> 0, created |-> 0, expires |-> 0,
          audit |-> FALSE]
Resting == [pc |-> "idle", request |-> 0, content |-> "none", source |-> "none",
         reply |-> "none", url |-> 0, landed |-> 0]
NoScan == [pc |-> "none", content |-> "none", created |-> 0, url |-> 0]

ServiceInit ==
  /\ now = 0
  /\ receipts = [r \in Requests |-> NoRow]
  /\ contacts = [r \in Requests |-> 0]
  /\ events = [kind \in {"challenge", "report"} |-> {}]
  /\ readiness = "unknown" /\ checking = Nobody /\ categories = FALSE
  /\ handlers = [h \in Handlers |-> Resting]
  /\ scans = [r \in Requests |-> NoScan]
  /\ items = <<>> /\ late = {}
  /\ draft \in [request : {1}, content : Contents]
  /\ foreign = {} /\ admitted = {} /\ sends = 0 /\ outside = 0

-----------------------------------------------------------------------------
(* The store *)

\* Every writing transaction first deletes the rows that are past their time.
LiveReceipts == [r \in Requests |-> IF receipts[r].expires <= now THEN NoRow ELSE receipts[r]]
LiveContacts == [r \in Requests |-> IF contacts[r] <= now THEN 0 ELSE contacts[r]]
LiveEventsOfAnHour ==
  [kind \in DOMAIN events |-> {e \in events[kind] : e.at > now - Hour}]

LiveEvents ==
  [kind \in DOMAIN events |-> {e \in events[kind] : e.at > now - Day}]

\* The row that a claim adds; nr tells the rows of a source at a moment apart.
NewRow(log, source) ==
  [source |-> source, at |-> now,
   nr |-> Cardinality({e \in log : e.source = source /\ e.at = now})]

\* The rows of a window at a time, of one source or of all.
Rows(log, from, time, window) ==
  {e \in log : e.source \in from /\ e.at > time - window}

Latest(times) == CHOOSE t \in times : \A other \in times : other <= t

RetryAfterLast(log, from, time, window, limit) ==
  LET rows == Rows(log, from, time, window)
  IN  IF Cardinality(rows) < limit THEN 0 ELSE Latest({e.at : e \in rows}) + window

\* The time of the row that fills the window: of the rows in order, the one with
\* limit - 1 behind it. No later moment has that many rows since.
Threshold(rows, limit) ==
  Latest({t \in {e.at : e \in rows} : Cardinality({e \in rows : e.at >= t}) >= limit})

\* When the row that fills the window leaves it, or 0 when the window has room.
RetryForWindow(log, from, time, window, limit) ==
  LET rows == Rows(log, from, time, window)
  IN  IF Cardinality(rows) < limit THEN 0 ELSE Threshold(rows, limit) + window

ChallengeRetry(log, source, time) == RetryForWindow(log, {source}, time, Hour, ChallengeLimit)

\* The latest of the retry times of the three windows, 0 when a report is allowed.
ReportRetry(log, source, time) ==
  Latest({ RetryForWindow(log, {source}, time, Hour, HourLimit),
           RetryForWindow(log, {source}, time, Day, DayLimit),
           RetryForWindow(log, Sources, time, Hour, GlobalLimit) })

Pending(content) ==
  [state |-> "pending", content |-> content, url |-> 0,
   created |-> now, expires |-> now + ReceiptRetention, audit |-> FALSE]

\* A pending receipt gets its final state; any other row is an error of the caller.
IsPending(r) == receipts[r].state = "pending"
Transition(r, state, url, audit) ==
  receipts' = [receipts EXCEPT ![r].state = state, ![r].url = url, ![r].audit = audit]

StoreContact(r, content) ==
  IF content \in Emails
  THEN /\ contacts' = [LiveContacts EXCEPT ![r] = now + ContactRetention]
       /\ receipts' = LiveReceipts /\ events' = LiveEvents
  ELSE UNCHANGED store

\* The hourly sweep.
Expire ==
  /\ receipts' = LiveReceipts /\ contacts' = LiveContacts /\ events' = LiveEvents
  /\ store' # store
  /\ UNCHANGED <<now, cache, handlers, scans, github, client, admitted, outside>>

-----------------------------------------------------------------------------
(* The client: a draft keeps its request id over retries and gets a new one *)
(* with new content.                                                        *)

EditKeepsId(content) ==
  /\ Outside /\ content # draft.content
  /\ draft' = [draft EXCEPT !.content = content]
  /\ UNCHANGED <<now, store, cache, handlers, scans, github, foreign, sends, admitted>>

Edit(content) ==
  /\ Outside
  /\ content # draft.content /\ draft.request < MaxRequests
  /\ draft' = [request |-> draft.request + 1, content |-> content]
  /\ UNCHANGED <<now, store, cache, handlers, scans, github, foreign, sends, admitted>>

\* The reply a handler ends with.
Replied(h, reply, url) ==
  handlers' = [handlers EXCEPT ![h].pc = "done", ![h].reply = reply, ![h].url = url,
                               ![h].landed = 0, ![h].source = "none"]
Goes(h, pc) == handlers' = [handlers EXCEPT ![h].pc = pc, ![h].source = "none"]

\* /v1/challenge for a report: a signed challenge or a refusal.
Challenge(h, source, content) ==
  /\ handlers[h].pc \in {"idle", "done"} /\ sends < MaxSends
  /\ sends' = sends + 1
  /\ receipts' = LiveReceipts /\ contacts' = LiveContacts
  /\ IF ChallengeRetry(LiveEvents["challenge"], source, now) # 0
     THEN /\ events' = LiveEvents
          /\ handlers' = [handlers EXCEPT ![h] =
               [Resting EXCEPT !.pc = "done", !.reply = "throttled"]]
     ELSE /\ events' = [LiveEvents EXCEPT !["challenge"] = @ \union {NewRow(@, source)}]
          /\ handlers' = [handlers EXCEPT ![h] =
               [Resting EXCEPT !.pc = "sent", !.request = draft.request,
                            !.content = content, !.source = source]]

Send(h, source) ==
  /\ Challenge(h, source, draft.content)
  /\ UNCHANGED <<now, cache, scans, github, draft, foreign, admitted, outside>>

\* Someone else uses the id of the draft for another report.
ForeignSend(h, source, content) ==
  /\ Outside
  /\ content # draft.content /\ foreign = {}
  /\ Challenge(h, source, content)
  /\ foreign' = {draft.request}
  /\ UNCHANGED <<now, cache, scans, github, draft, admitted>>

-----------------------------------------------------------------------------
(* The report handler *)

\* The challenge is bound to the source that asked for it.
SourceChanged(h) ==
  /\ Outside
  /\ handlers[h].pc = "sent" /\ Cardinality(Sources) > 1
  /\ Replied(h, "invalid", 0)
  /\ UNCHANGED <<now, store, cache, scans, github, client, admitted>>

\* A new or failed receipt costs quota, an absent one was paid before.
Charged(row) == row.state \in {"none", "failed"}

\* A replay of a pending receipt joins the scan in flight or starts one.
Join(h, row) ==
  LET r == handlers[h].request
  IN  /\ Goes(h, "waiting")
      /\ scans' = IF scans[r] # NoScan THEN scans
                  ELSE [scans EXCEPT ![r] = [pc |-> "list", content |-> row.content,
                                             created |-> row.created, url |-> 0]]

AdmitFeedbackDelivery(h) ==
  LET r == handlers[h].request
      content == handlers[h].content
      source == handlers[h].source
      row == LiveReceipts[r]
      conflict == row.state # "none" /\ row.content # content
      refused == Charged(row) /\ ReportRetry(LiveEvents["report"], source, now) # 0
      created == row.state \in {"none", "failed", "absent"}
  IN  /\ handlers[h].pc = "sent"
      /\ contacts' = LiveContacts
      /\ IF ~conflict /\ ~refused /\ created
         THEN /\ receipts' = [LiveReceipts EXCEPT ![r] = Pending(content)]
              /\ events' = IF Charged(row)
                           THEN [LiveEvents EXCEPT !["report"] = @ \union {NewRow(@, source)}]
                           ELSE LiveEvents
              /\ admitted' = IF Charged(row) THEN admitted \union {NewRow(admitted, source)}
                             ELSE admitted
              /\ Goes(h, "ready") /\ UNCHANGED scans
         ELSE /\ receipts' = LiveReceipts /\ events' = LiveEvents /\ UNCHANGED admitted
              /\ \/ conflict /\ Replied(h, "conflict", 0) /\ UNCHANGED scans
                 \/ ~conflict /\ refused /\ Replied(h, "throttled", 0) /\ UNCHANGED scans
                 \/ /\ ~conflict /\ row.state = "delivered"
                    /\ Replied(h, "delivered", row.url) /\ UNCHANGED scans
                 \/ ~conflict /\ row.state = "pending" /\ Join(h, row)
      /\ UNCHANGED <<now, cache, github, client, outside>>

\* A Discussion needs the categories that readiness resolved.
Routed(h, known) == handlers[h].content \notin Ideas \/ known

InvalidateRoutingOnly == categories' = FALSE /\ UNCHANGED <<readiness, checking>>

\* invalidate_readiness of the application and of its GitHub client.
Invalidate == readiness' = "unknown" /\ categories' = FALSE /\ UNCHANGED checking

Ask(h) == handlers[h].pc = "ready" /\ checking = Nobody

\* The cached answer of the last check.
CachedReady(h) ==
  /\ Ask(h) /\ readiness = "ready"
  /\ Goes(h, IF Routed(h, categories) THEN "post" ELSE "failing")
  /\ IF Routed(h, categories) THEN UNCHANGED cache ELSE Invalidate
  /\ UNCHANGED <<now, store, scans, github, client, admitted, outside>>

CachedUnready(h) ==
  /\ Ask(h) /\ readiness = "unready"
  /\ Goes(h, "failing")
  /\ UNCHANGED <<now, store, cache, scans, github, client, admitted, outside>>

\* check_readiness discards what was cached and asks GitHub, under the lock.
StartCheck(who) ==
  /\ checking = Nobody /\ readiness = "unknown"
  /\ who # Probe => handlers[who].pc = "ready"
  /\ IF who = Probe THEN Outside ELSE UNCHANGED outside
  /\ checking' = who /\ categories' = FALSE
  /\ UNCHANGED <<now, store, readiness, handlers, scans, github, client, admitted>>

\* The last part of the check: the Ideas and General categories, or none of them.
ResolveDiscussionCategories(ok) == categories' = ok

EndCheck(who, ok) ==
  /\ checking = who /\ who # Nobody
  /\ checking' = Nobody /\ ResolveDiscussionCategories(ok)
  /\ readiness' = IF ok THEN "ready" ELSE "unready"
  /\ IF who = Probe THEN UNCHANGED handlers ELSE Goes(who, IF ok THEN "post" ELSE "failing")
  /\ UNCHANGED <<now, store, scans, github, client, admitted, outside>>

CacheExpires ==
  /\ Outside
  /\ checking = Nobody /\ readiness # "unknown"
  /\ readiness' = "unknown"
  /\ UNCHANGED <<now, store, checking, categories, handlers, scans, github, client,
                 admitted>>

-----------------------------------------------------------------------------
(* The write of create_issue and create_discussion, and its answers *)

Item(r, content) == [request |-> r, content |-> content, at |-> now]

\* External: GitHub creates the item.
Land(h) ==
  /\ handlers[h].pc = "post" /\ handlers[h].landed = 0
  /\ items' = Append(items, Item(handlers[h].request, handlers[h].content))
  /\ handlers' = [handlers EXCEPT ![h].landed = Len(items) + 1]
  /\ UNCHANGED <<now, store, cache, scans, late, client, admitted, outside>>

CreatedForgetsContact(h) ==
  /\ handlers[h].pc = "post" /\ handlers[h].landed # 0
  /\ handlers' = [handlers EXCEPT ![h].pc = "deliver", ![h].url = handlers[h].landed]
  /\ UNCHANGED <<now, store, cache, scans, github, client, admitted, outside>>

Created(h) ==
  /\ handlers[h].pc = "post" /\ handlers[h].landed # 0
  /\ handlers' = [handlers EXCEPT ![h].pc = "contact", ![h].url = handlers[h].landed]
  /\ UNCHANGED <<now, store, cache, scans, github, client, admitted, outside>>

ServerErrorRejects(h) ==
  /\ handlers[h].pc = "post"
  /\ Goes(h, "failing") /\ Invalidate
  /\ UNCHANGED <<now, store, scans, github, client, admitted, outside>>

\* A 4xx answer, or no installation token: nothing was created.
Rejected(h) ==
  /\ handlers[h].pc = "post" /\ handlers[h].landed = 0
  /\ Goes(h, "failing") /\ Invalidate
  /\ UNCHANGED <<now, store, scans, github, client, admitted, outside>>

\* The write of a handler that stops waiting for it may still land.
GivenUp(hs) ==
  { [request |-> handlers[h].request, content |-> handlers[h].content] :
    h \in { x \in hs : handlers[x].pc = "post" /\ handlers[x].landed = 0 } }

UncertainFails(h) ==
  /\ handlers[h].pc = "post"
  /\ late' = late \union GivenUp({h})
  /\ Goes(h, "failing") /\ Invalidate
  /\ UNCHANGED <<now, store, scans, items, client, admitted, outside>>

\* A timeout, a 5xx answer or an answer without a valid URL: the receipt stays pending.
Uncertain(h) ==
  /\ handlers[h].pc = "post"
  /\ late' = late \union GivenUp({h})
  /\ Invalidate /\ Replied(h, "review", 0)
  /\ UNCHANGED <<now, store, scans, items, client, admitted, outside>>

\* External: a write that was given up lands, or never does.
LandLate(w) ==
  /\ w \in late /\ late' = late \ {w}
  /\ items' \in {items, Append(items, Item(w.request, w.content))}
  /\ UNCHANGED <<now, store, cache, handlers, scans, client, admitted, outside>>

KeepContact(h) ==
  /\ handlers[h].pc = "contact"
  /\ StoreContact(handlers[h].request, handlers[h].content)
  /\ Goes(h, "deliver")
  /\ UNCHANGED <<now, cache, scans, github, client, admitted, outside>>

\* mark_delivered or mark_failed; a receipt that is not pending any more raises.
Settle(h, pc, state, reply) ==
  /\ handlers[h].pc = pc
  /\ IF IsPending(handlers[h].request)
     THEN /\ Transition(handlers[h].request, state, handlers[h].url, FALSE)
          /\ Replied(h, reply, handlers[h].url)
     ELSE UNCHANGED receipts /\ Replied(h, "error", 0)
  /\ UNCHANGED <<now, contacts, events, cache, scans, github, client, admitted, outside>>

MarkDelivered(h) == Settle(h, "deliver", "delivered", "delivered")
MarkFailed(h) == Settle(h, "failing", "failed", "failed")

-----------------------------------------------------------------------------
(* The reconciliation task of a request id *)

EndScanForOne(r, reply, url) ==
  /\ scans' = [scans EXCEPT ![r] = NoScan]
  /\ \E h \in Handlers :
       /\ handlers[h].pc = "waiting" /\ handlers[h].request = r
       /\ Replied(h, reply, url)

\* A scan that ends gives its outcome to every handler that waits for it.
EndScan(r, reply, url) ==
  /\ scans' = [scans EXCEPT ![r] = NoScan]
  /\ handlers' = [h \in Handlers |->
       IF handlers[h].pc = "waiting" /\ handlers[h].request = r
       THEN [handlers[h] EXCEPT !.pc = "done", !.reply = reply, !.url = url]
       ELSE handlers[h]]

\* Discussions are listed by category, so that scan needs the cached categories.
Listable(r) == scans[r].content \notin Ideas \/ categories

MatchesAnyMarker(r) ==
  { n \in DOMAIN items : /\ items[n].at >= scans[r].created - CutoffMargin
                         /\ (items[n].content \in Ideas) = (scans[r].content \in Ideas) }
MatchesWithoutCutoff(r) ==
  { n \in DOMAIN items : /\ items[n].request = r
                         /\ (items[n].content \in Ideas) = (scans[r].content \in Ideas) }

\* The items with the marker of the request that are not older than its receipt.
Matches(r) ==
  { n \in DOMAIN items : /\ items[n].request = r
                         /\ items[n].at >= scans[r].created - CutoffMargin
                         /\ (items[n].content \in Ideas) = (scans[r].content \in Ideas) }

ReconcilePending(r) ==
  /\ scans[r].pc = "list"
  /\ \/ /\ Listable(r) /\ Cardinality(Matches(r)) = 1
        /\ scans' = [scans EXCEPT ![r].pc = "contact", ![r].url = CHOOSE n \in Matches(r) : TRUE]
        /\ UNCHANGED handlers
     \/ ~(Listable(r) /\ Cardinality(Matches(r)) = 1) /\ EndScan(r, "review", 0)
  /\ UNCHANGED <<now, store, cache, github, client, admitted, outside>>

\* A page that cannot be read or trusted ends the scan.
PageFails(r) ==
  /\ scans[r].pc = "list"
  /\ EndScan(r, "review", 0)
  /\ UNCHANGED <<now, store, cache, github, client, admitted, outside>>
IssuePageFails(r) == scans[r].content \notin Ideas /\ PageFails(r)
DiscussionPageFails(r) == scans[r].content \in Ideas /\ categories /\ PageFails(r)

ScanContact(r) ==
  /\ scans[r].pc = "contact"
  /\ StoreContact(r, scans[r].content)
  /\ scans' = [scans EXCEPT ![r].pc = "deliver"]
  /\ UNCHANGED <<now, cache, handlers, github, client, admitted, outside>>

ScanDelivered(r) ==
  /\ scans[r].pc = "deliver"
  /\ IF IsPending(r)
     THEN Transition(r, "delivered", scans[r].url, FALSE) /\ EndScan(r, "delivered", scans[r].url)
     ELSE UNCHANGED receipts /\ EndScan(r, "error", 0)
  /\ UNCHANGED <<now, contacts, events, cache, github, client, admitted, outside>>

-----------------------------------------------------------------------------
(* The operator, the clock and restarts *)

Working(r) ==
  \/ scans[r] # NoScan \/ \E w \in late : w.request = r
  \/ \E h \in Handlers : handlers[h].request = r /\ handlers[h].pc \notin {"idle", "sent", "done"}

\* receipt resolve, with the URL of the item the operator found.
ResolveDestination(r) ==
  \E n \in DOMAIN items :
    /\ items[n].request = r /\ items[n].content = receipts[r].content
    /\ items[n].at >= receipts[r].created
    /\ IsPending(r) /\ Transition(r, "delivered", n, TRUE)
    /\ UNCHANGED <<now, contacts, events, cache, handlers, scans, github, client,
                   admitted, outside>>

\* receipt absent, after a full search, when no write of the request is under way.
MarkAbsent(r) ==
  /\ IsPending(r) /\ ~Working(r)
  /\ \A n \in DOMAIN items : items[n].request # r \/ items[n].at < receipts[r].created
  /\ Transition(r, "absent", 0, TRUE)
  /\ UNCHANGED <<now, contacts, events, cache, handlers, scans, github, client,
                 admitted, outside>>

Tick ==
  /\ Outside
  /\ now < MaxTime /\ late = {}
  /\ \A h \in Handlers : handlers[h].pc \in {"idle", "done"}
  /\ \A r \in Requests : scans[r] = NoScan
  /\ checking = Nobody
  /\ now' = now + 1
  /\ UNCHANGED <<store, cache, handlers, scans, github, client, admitted>>

\* The process ends and starts again: only the store and GitHub survive.
Restart ==
  /\ Outside
  /\ late' = late \union GivenUp(Handlers)
  /\ handlers' = [h \in Handlers |-> IF handlers[h].pc = "done" THEN handlers[h] ELSE Resting]
  /\ scans' = [r \in Requests |-> NoScan]
  /\ readiness' = "unknown" /\ checking' = Nobody /\ categories' = FALSE
  /\ receipts' = LiveReceipts /\ contacts' = LiveContacts /\ events' = LiveEvents
  /\ UNCHANGED <<now, items, client, admitted>>

-----------------------------------------------------------------------------
HandlerStep(h) ==
  \/ SourceChanged(h) \/ AdmitFeedbackDelivery(h)
  \/ CachedReady(h) \/ CachedUnready(h) \/ StartCheck(h) \/ \E ok \in BOOLEAN : EndCheck(h, ok)
  \/ Created(h) \/ Rejected(h) \/ Uncertain(h)
  \/ KeepContact(h) \/ MarkDelivered(h) \/ MarkFailed(h)

ScanStep(r) ==
  \/ ReconcilePending(r) \/ IssuePageFails(r) \/ DiscussionPageFails(r)
  \/ ScanContact(r) \/ ScanDelivered(r)
ProbeEnds == \E ok \in BOOLEAN : EndCheck(Probe, ok)

ServiceNext ==
  \/ \E h \in Handlers : HandlerStep(h) \/ Land(h)
  \/ \E h \in Handlers, s \in Sources : Send(h, s) \/ \E c \in Contents : ForeignSend(h, s, c)
  \/ \E r \in Requests : ScanStep(r) \/ ResolveDestination(r) \/ MarkAbsent(r)
  \/ \E c \in Contents : Edit(c)
  \/ \E w \in late : LandLate(w)
  \/ StartCheck(Probe) \/ ProbeEnds \/ CacheExpires
  \/ Expire \/ Tick \/ Restart

ServiceSpec == ServiceInit /\ [][ServiceNext]_serviceVars
=============================================================================
