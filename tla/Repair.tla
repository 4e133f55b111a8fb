------------------------------- MODULE Repair -------------------------------
(***************************************************************************)
(* Repairing a finished migration (core/engine.py, run_repair): a check    *)
(* compares state.json with the server (migrator/verify.py, run_check) and *)
(* what fails is made again: roles, channels with their messages,          *)
(* categories, forum indexes, emoji and last messages; then the recorded   *)
(* failures are sent once more.  A recreated thing is a new copy with a    *)
(* new id.  One message is delivered as Delivery describes it; here only   *)
(* the outcome of a delivery and what its receipt remembers are kept.      *)
(* People delete things between repairs, not while one runs.               *)
(***************************************************************************)
EXTENDS Integers, FiniteSets, FiniteSetsExt, Functions, TLC

CONSTANTS
    Role, Channel, Index, Emoji,
    Category, UserCategory,
    Named,       \* categories whose title is recorded
    CategoryOf,  \* of a channel or forum index
    Length,      \* how many messages the export has of a channel
    EmojiIn,     \* the emoji of the messages that show one
    Busy,        \* channels and indexes that also hold other people's messages
    MaxRuns, MaxLosses, MaxFaults, MaxDeaths

Item == Role \union Channel \union Index \union Emoji

\* Ids of different kinds differ; only messages of a channel show an emoji.
ASSUME RepairAssumption ==
    /\ IsFiniteSet(Item) /\ CategoryOf \in [Channel \union Index -> Category]
    /\ Length \in [Channel -> Nat \ {0}]
    /\ Category \intersect UserCategory = {} /\ Named \subseteq Category
    /\ Role \intersect (Channel \union Index \union Emoji) = {}
    /\ Channel \intersect (Index \union Emoji) = {} /\ Index \intersect Emoji = {}
    /\ EmojiIn \in [DOMAIN EmojiIn -> Emoji] /\ DOMAIN EmojiIn \subseteq Channel \X (Nat \ {0})
    /\ {MaxRuns, MaxLosses, MaxFaults, MaxDeaths} \subseteq Nat

Text(x) == IF x \in Channel THEN {x} \X (1..Length[x]) ELSE {x} \X {0}
Source == UNION {Text(x) : x \in Channel \union Index}
Last(c) == <<c, Length[c]>>

\* A delivery: the message, the copy of the channel it goes to, its generation.
Ref(s, n, g) == [src |-> s, copy |-> n, gen |-> g]
Logical(r) == <<r.src, r.copy>>

VARIABLES
    made,      \* how many copies of an item were ever made
    alive,     \* the copies that exist, as <<item, number>>
    lists,     \* the server's categories and the channel copies in them
    dressed,   \* copies with the permissions of the source
    posts,     \* messages on the server: delivery and copy of the emoji shown
    receipts,  \* delivery receipts: delivery, status and emoji rendered
    uuid,      \* generations drawn per message
    disk, mem, \* state.json and the running program's state
    jobs,      \* what the check found and is not yet taken up
    job,       \* what is being repaired
    step,      \* how far
    todo,      \* messages the job has still to send or edit
    flawed,    \* an edit of this emoji failed
    resolved,  \* messages the retry has delivered
    view,      \* the categories as read, and as patched since
    proved,    \* copies whose permissions were read and match, bindings unchanged since
    fresh,     \* copies recorded by this run whose repair is not over
    unfinished,\* copies whose repair was cut short or reported a failure (history)
    removed,   \* posts that people deleted (history)
    runs, losses, faults, deaths   \* counted against their bounds

server == <<made, alive, lists, dressed, posts>>
files == <<receipts, uuid, disk>>
work == <<jobs, job, step, todo, flawed, resolved, view, proved, fresh>>
bounds == <<runs, losses, faults, deaths>>
history == <<unfinished, removed>>
vars == <<server, files, mem, work, history, bounds>>

\* MigrationState: ids, marks, what was sent, what failed, and the two records a
\* repair resumes from (pending_delivery_replacements, pending_emoji_rewrites).
Migrated(broken) ==
    [map     |-> [x \in Item |-> 1],
     marked  |-> Channel,             \* channel_high_water is set
     counted |-> {s[1] : s \in Source \ broken} \intersect Channel,  \* channel_message_counts is not zero
     sent    |-> {Ref(s, 1, 0) : s \in Source \ broken},
     failed  |-> {Ref(s, 1, 0) : s \in broken},
     next    |-> {}, done |-> {}, rewrite |-> {}]

Shown(m, s) == IF s \in DOMAIN EmojiIn THEN m.map[EmojiIn[s]] ELSE 0

Init ==
    /\ made = [x \in Item |-> 1]
    /\ alive = Item \X {1} /\ dressed = (Item \ Emoji) \X {1}
    /\ lists = [k \in Category \union UserCategory |->
                  {<<x, 1>> : x \in {y \in Channel \union Index : CategoryOf[y] = k}}]
    /\ \E broken \in {{}} \union {{s} : s \in UNION {Text(c) : c \in Channel}} :
          /\ disk = Migrated(broken)
          /\ posts = {[ref |-> Ref(s, 1, 0), emo |-> Shown(disk, s)] : s \in Source \ broken}
          /\ receipts = {[ref |-> Ref(s, 1, 0), st |-> "rejected", emo |-> Shown(disk, s)]
                           : s \in broken}
    /\ mem = disk
    /\ uuid = [s \in Source |-> 0]
    /\ jobs = {} /\ job = <<>> /\ step = "idle" /\ todo = {} /\ flawed = FALSE
    /\ resolved = {} /\ view = lists /\ proved = {} /\ fresh = {} /\ unfinished = {} /\ removed = {}
    /\ runs = 0 /\ losses = 0 /\ faults = 0 /\ deaths = 0

\* save_state: what was consumed is retired with the save that records it.
Saved(m) == [m EXCEPT !.next = {q \in @ : q \notin m.done}, !.done = {}]
Save(m) ==
    /\ mem' = Saved(m) /\ disk' = Saved(m)
    /\ receipts' = {q \in receipts : q.ref \notin m.done}

Fault == faults < MaxFaults /\ faults' = faults + 1
NoFault == UNCHANGED faults
Kind == job[1]
Thing == job[2]
Copy(x) == <<x, mem.map[x]>>
Present == {Copy(x) : x \in Channel \union Index} \intersect alive

-----------------------------------------------------------------------------
(* People delete things.                                                   *)

Losing == step = "idle" /\ losses < MaxLosses /\ losses' = losses + 1

\* A channel takes its messages along, a role its overrides in every channel.
LoseItem(x) ==
    /\ Losing
    /\ <<x, disk.map[x]>> \in alive
    /\ alive' = alive \ {<<x, disk.map[x]>>}
    /\ posts' = {p \in posts : <<p.ref.src[1], p.ref.copy>> # <<x, disk.map[x]>>}
    /\ dressed' = {d \in dressed : d[1] # x /\ (x \in Role => d[1] \in Role)}
    /\ UNCHANGED <<made, lists, files, mem, work, history, runs, faults, deaths>>

LoseCategory(k) ==
    /\ Losing /\ k \in DOMAIN lists
    /\ lists' = Restrict(lists, DOMAIN lists \ {k})
    /\ UNCHANGED <<made, alive, dressed, posts, files, mem, work, history, runs, faults, deaths>>

LosePost(p) ==
    /\ Losing
    /\ posts' = posts \ {p}
    /\ removed' = removed \union {Logical(p.ref)}
    /\ UNCHANGED <<made, alive, lists, dressed, files, mem, work, unfinished, runs, faults, deaths>>

-----------------------------------------------------------------------------
(* run_check and the classification of what failed.                        *)

MissingUnseen(S) == {x \in S : Copy(x) \notin alive \/ (x \in Channel /\ Copy(x) \notin dressed)}
Missing(S) == {x \in S : Copy(x) \notin alive}

\* _expected_tail: a mark, resolved to the message that was sent.
Expected(x) == {r \in mem.sent : IF x \in Channel THEN x \in mem.marked /\ r.src = Last(x)
                                                   ELSE r.src = <<x, 0>>}
Window(x) == {p.ref : p \in {q \in posts : q.ref.src[1] = x /\ q.ref.copy = mem.map[x]}}

\* _classify_tail: an empty channel is a failure that no repair takes up.
TailAbsent(x) ==
    /\ Copy(x) \in alive
    /\ Expected(x) # {} /\ Expected(x) \intersect Window(x) = {}
    /\ Window(x) # {} \/ x \in Busy

Found ==
    ({"role"} \X Missing(Role)) \union ({"emoji"} \X Missing(Emoji))
    \union ({"channel"} \X Missing(Channel)) \union ({"index"} \X Missing(Index))
    \union ({"category"} \X (Category \ DOMAIN lists))
    \union ({"tail"} \X {c \in Channel : TailAbsent(c)})
    \union ({"rebuild"} \X {i \in Index : TailAbsent(i)})
    \union ({"resume"} \X mem.rewrite)

Check ==
    /\ step = "idle" /\ runs < MaxRuns /\ runs' = runs + 1
    /\ mem' = disk   \* loaded
    /\ step' = "classify"
    /\ UNCHANGED <<server, files, jobs, job, todo, flawed, resolved, view, proved, fresh, history,
                   losses, faults, deaths>>

Classify ==
    /\ step = "classify"
    /\ jobs' = Found
    /\ step' = "prepare"
    /\ UNCHANGED <<server, files, mem, job, todo, flawed, resolved, view, proved, fresh, history, bounds>>

\* The permission plan; without roles to make, the channels that exist get their
\* permissions first.
Prepare ==
    /\ step = "prepare"
    /\ proved' = IF jobs \intersect ({"role"} \X Role) = {} THEN Present ELSE {}
    /\ dressed' = dressed \union proved'
    /\ view' = lists
    /\ step' = "next"
    /\ UNCHANGED <<made, alive, lists, posts, files, mem, jobs, job, todo, flawed, resolved, fresh,
                   history, bounds>>

-----------------------------------------------------------------------------
(* One thing after the other.                                              *)

Rank == [role |-> 1, resume |-> 2, emoji |-> 3, channel |-> 4, category |-> 5, index |-> 6,
         rebuild |-> 7, tail |-> 8]
First == [role |-> "make", resume |-> "edit", emoji |-> "make", channel |-> "make",
          category |-> "patch", index |-> "make", rebuild |-> "clear", tail |-> "replace"]

\* messages_using_emoji, less what has no id and what is in a channel to be made.
Referencing(e) ==
    {s \in DOMAIN EmojiIn : /\ EmojiIn[s] = e
                            /\ \E r \in mem.sent : r.src = s
                            /\ <<"channel", s[1]>> \notin jobs}

TakeJob ==
    /\ step = "next"
    /\ \E j \in jobs :
          /\ \A i \in jobs : Rank[j[1]] <= Rank[i[1]]
          /\ job' = j /\ jobs' = jobs \ {j}
          /\ step' = First[j[1]]
          /\ todo' = CASE j[1] = "resume" -> Referencing(j[2])
                       [] j[1] = "tail" -> {Last(j[2])}
                       [] OTHER -> {}
          /\ view' = IF j[1] = "index" THEN lists ELSE view
    /\ flawed' = FALSE
    /\ UNCHANGED <<server, files, mem, resolved, proved, fresh, history, bounds>>

\* The recorded failures come last.
TakeFailures ==
    /\ step = "next" /\ jobs = {}
    /\ todo' = mem.failed /\ resolved' = {}
    /\ step' = IF mem.failed = {} THEN "finish" ELSE "retry"
    /\ UNCHANGED <<server, files, mem, jobs, job, flawed, view, proved, fresh, history, bounds>>

\* A category needs a recorded title, a forum index its category.
Undone == \/ Kind = "category" /\ Thing \notin Named
          \/ Kind = "index" /\ CategoryOf[Thing] \notin DOMAIN view
Decline ==
    /\ step \in {"make", "patch"} /\ Undone
    /\ step' = "close"
    /\ UNCHANGED <<server, files, mem, jobs, job, todo, flawed, resolved, view, proved, fresh, history, bounds>>

MakeCopy(x) == /\ made' = [made EXCEPT ![x] = @ + 1]
               /\ alive' = alive \union {<<x, made[x] + 1>>}

\* api_create_role, api_create_channel, upload_and_create_emoji.
Make ==
    /\ step = "make" /\ ~Undone
    /\ MakeCopy(Thing)
    /\ step' = "made"
    /\ UNCHANGED <<lists, dressed, posts, files, mem, jobs, job, todo, flawed, resolved, view,
                   proved, fresh, history, bounds>>

\* The failures of a channel move to its new copy; what was sent to the old is forgotten.
KeepCounts(m, c, n) ==
    [m EXCEPT !.marked = @ \ {c},
              !.sent = {r \in @ : r.src[1] # c},
              !.failed = {IF r.src[1] = c /\ r.copy = m.map[c] THEN Ref(r.src, n, 0) ELSE r : r \in @}]
ClearChannelState(m, c, n) ==
    [m EXCEPT !.marked = @ \ {c}, !.counted = @ \ {c},
              !.sent = {r \in @ : r.src[1] # c},
              !.failed = {IF r.src[1] = c /\ r.copy = m.map[c] THEN Ref(r.src, n, 0) ELSE r : r \in @}]

\* The new id is saved, with what it changes, before anything else is done.
WithNewId(x, n) ==
    [(IF Kind = "channel" THEN ClearChannelState(mem, x, n) ELSE mem)
       EXCEPT !.map[x] = n,
              !.rewrite = IF Kind = "emoji" THEN @ \union {x} ELSE @]

Record ==
    /\ step = "made"
    /\ Save(WithNewId(Thing, made[Thing]))
    /\ step' = IF Kind = "emoji" THEN "edit" ELSE "dress"
    /\ todo' = IF Kind = "emoji" THEN Referencing(Thing) ELSE {}
    /\ fresh' = IF Kind = "emoji" THEN fresh ELSE fresh \union {<<Thing, made[Thing]>>}
    /\ proved' = IF Kind = "emoji" THEN proved ELSE {}   \* a binding invalidates every proof
    /\ UNCHANGED <<server, uuid, jobs, job, flawed, resolved, view, history, bounds>>

\* Roles get their permissions when all are made, and then the channels that name them.
RolesToMake == jobs \intersect ({"role"} \X Role) # {}
Dressing == IF Kind = "role" THEN fresh \union Present ELSE {Copy(Thing)}
Dress ==
    /\ step = "dress"
    /\ IF Kind = "role" /\ RolesToMake
       THEN /\ step' = "next" /\ UNCHANGED <<dressed, proved, fresh, todo>>
       ELSE /\ dressed' = dressed \union Dressing
            /\ proved' = proved \union (Dressing \intersect Present)
            /\ fresh' = IF Kind = "role" THEN {} ELSE fresh
            /\ step' = CASE Kind = "role" -> "next" [] Kind = "channel" -> "replace"
                         [] Kind = "index" -> "patch"
            /\ todo' = IF Kind = "channel" THEN Text(Thing) ELSE {}
    /\ UNCHANGED <<made, alive, lists, posts, files, mem, jobs, job, flawed, resolved, view, history,
                   bounds>>

-----------------------------------------------------------------------------
(* Categories: the whole list is written back.                             *)

OldCopies(x) == {<<x, n>> : n \in 1..(mem.map[x] - 1)}

\* _reattach_to_category, _recreate_forum_index: in place of the copy that is gone.
Attached(l, x) ==
    IF CategoryOf[x] \in DOMAIN l
    THEN [l EXCEPT ![CategoryOf[x]] = (@ \ OldCopies(x)) \union {Copy(x)}]
    ELSE l

\* _recreate_category: with the channels that channel_categories names.
Members(k) == {Copy(c) : c \in {d \in Channel : CategoryOf[d] = k}}
RebuiltAlone(l, k) == [j \in {k} |-> Members(k)]
Rebuilt(l, k) == [j \in {k} \union DOMAIN l |-> IF j = k THEN Members(k) ELSE l[j]]

Patched == IF Kind = "category" THEN Rebuilt(view, Thing) ELSE Attached(view, Thing)
Patch ==
    /\ step = "patch" /\ ~Undone
    /\ lists' = Patched /\ view' = Patched
    /\ step' = IF Kind = "index" THEN "clear" ELSE "close"
    /\ UNCHANGED <<made, alive, dressed, posts, files, mem, jobs, job, todo, flawed, resolved, proved, fresh,
                   history, bounds>>

-----------------------------------------------------------------------------
(* Messages.                                                               *)

\* _rebuild_one_forum_index, force_new: the old id goes first.
Clear ==
    /\ step = "clear"
    /\ mem' = [mem EXCEPT !.sent = {r \in @ : r.src # <<Thing, 0>>}]
    /\ todo' = Text(Thing)
    /\ proved' = proved \union {Copy(Thing)}   \* verified anew
    /\ step' = "replace"
    /\ UNCHANGED <<server, files, jobs, job, flawed, resolved, view, fresh, history, bounds>>

Current == Min({s[2] : s \in todo})
Here == <<Thing, Current>>
Begun(s) == {q \in mem.next : Logical(q) = <<s, mem.map[s[1]]>>}

\* begin_delivery_replacement: one generation per message and channel copy until it
\* is consumed, saved before anything is sent.
ReplaceAnew ==
    /\ step = "replace" /\ todo # {}
    /\ uuid' = [uuid EXCEPT ![Here] = @ + 1]
    /\ Save([mem EXCEPT !.next = (@ \ Begun(Here))
                \union {Ref(Here, mem.map[Thing], uuid[Here] + 1)}])
    /\ step' = "send"
    /\ UNCHANGED <<server, jobs, job, todo, flawed, resolved, view, proved, fresh, history, bounds>>
Replace ==
    /\ step = "replace" /\ todo # {}
    /\ IF Begun(Here) # {}
       THEN UNCHANGED <<files, mem>>
       ELSE /\ uuid' = [uuid EXCEPT ![Here] = @ + 1]
            /\ Save([mem EXCEPT !.next = @ \union {Ref(Here, mem.map[Thing], uuid[Here] + 1)}])
    /\ step' = "send"
    /\ UNCHANGED <<server, jobs, job, todo, flawed, resolved, view, proved, fresh, history, bounds>>

\* What a delivery may come to: what it puts on the server, what its receipt then
\* says, and whether it is delivered.
Receipt(r) == {q \in receipts : q.ref = r}
Live(r) == {p \in posts : p.ref = r}
Outcome(put, st, ok) == [put |-> put, st |-> st, ok |-> ok]
Sends == {Outcome(TRUE, "acked", TRUE)}
Breaks == {Outcome(FALSE, "rejected", FALSE), Outcome(FALSE, "unsure", FALSE),
           Outcome(TRUE, "unsure", FALSE)}
Unsent(r) == \A q \in Receipt(r) : q.st = "rejected"
Settled(r, e) ==
    {IF q.emo = e /\ (q.st = "acked" \/ Live(r) # {}) THEN Outcome(FALSE, "acked", TRUE)
                                                     ELSE Outcome(FALSE, q.st, FALSE)
       : q \in Receipt(r)}

\* deliver_part, with the render of now.
Deliver(r, o) ==
    LET e == Shown(mem, r.src)
    IN  /\ \/ Unsent(r) /\ o \in Sends /\ NoFault
           \/ Unsent(r) /\ o \in Breaks /\ Fault
           \/ ~Unsent(r) /\ o \in Settled(r, e) /\ NoFault
        /\ posts' = IF o.put THEN posts \union {[ref |-> r, emo |-> e]} ELSE posts
        /\ receipts' = IF Unsent(r)
                       THEN (receipts \ Receipt(r)) \union {[ref |-> r, st |-> o.st, emo |-> e]}
                       ELSE {IF q.ref = r THEN [q EXCEPT !.st = o.st] ELSE q : q \in receipts}

DeliveredBeside(m, r) ==
    [m EXCEPT !.sent = @ \union {r},
              !.counted = @ \union ({r.src[1]} \intersect Channel),
              !.done = @ \union {r}]
Delivered(m, r) ==
    [m EXCEPT !.sent = {q \in @ : q.src # r.src} \union {r},
              !.counted = @ \union ({r.src[1]} \intersect Channel),
              !.done = @ \union {r}]
Healed(m, r) == [Delivered(m, r) EXCEPT !.failed = {q \in @ : Logical(q) # Logical(r)}]
NotRecorded(m, r) == m
NotDelivered(m, r) == [m EXCEPT !.failed = IF r.src[1] \in Channel THEN @ \union {r} ELSE @]

\* A new send needs a proof of the channel's permissions.
Admitted(r) == Unsent(r) => <<r.src[1], r.copy>> \in proved

\* _resend_channel, _repair_tail, the index's message: a failure is recorded, or
\* of an index reported, and the work goes on.
Send ==
    /\ step = "send"
    /\ \E r \in Begun(Here) : \E o \in Sends \union Breaks \union Settled(r, Shown(mem, r.src)) :
          /\ Admitted(r) /\ Deliver(r, o)
          /\ mem' = IF o.ok THEN Healed(mem, r) ELSE NotDelivered(mem, r)
          /\ unfinished' = IF o.ok \/ Thing \in Channel THEN unfinished
                                                       ELSE unfinished \union {Copy(Thing)}
    /\ todo' = todo \ {Here}
    /\ step' = "replace"
    /\ UNCHANGED <<made, alive, lists, dressed, uuid, disk, jobs, job, flawed, resolved, view, proved, fresh,
                   removed, runs, losses, deaths>>

\* The mark is set when every message was tried.
AllSent ==
    /\ step = "replace" /\ todo = {}
    /\ mem' = [mem EXCEPT !.marked = IF Kind = "channel" THEN @ \union {Thing} ELSE @]
    /\ step' = IF Kind = "channel" THEN "patch" ELSE "close"
    /\ UNCHANGED <<server, files, jobs, job, todo, flawed, resolved, view, proved, fresh, history, bounds>>

\* A last message that was not restored is saved by whatever saves next.
Close ==
    /\ step = "close"
    /\ IF Kind = "tail" /\ mem.done = {} THEN UNCHANGED <<mem, disk, receipts>> ELSE Save(mem)
    /\ fresh' = {}
    /\ step' = "next"
    /\ UNCHANGED <<server, uuid, jobs, job, todo, flawed, resolved, view, proved, history, bounds>>

-----------------------------------------------------------------------------
(* _rewrite_emoji_references.                                              *)

\* A message that is gone answers 404; a failed edit may have taken effect.
Edit(s) ==
    /\ step = "edit" /\ s \in todo
    /\ LET old == {p \in posts : p.ref \in mem.sent /\ p.ref.src = s}
           new == {[p EXCEPT !.emo = mem.map[Thing]] : p \in old}
       IN  \/ old # {} /\ posts' = (posts \ old) \union new /\ NoFault /\ UNCHANGED flawed
           \/ old = {} /\ UNCHANGED posts /\ NoFault /\ flawed' = TRUE
           \/ old # {} /\ Fault /\ flawed' = TRUE /\ posts' \in {posts, (posts \ old) \union new}
    /\ todo' = todo \ {s}
    /\ UNCHANGED <<made, alive, lists, dressed, files, mem, jobs, job, step, resolved, view, proved, fresh,
                   history, runs, losses, deaths>>

\* The record goes when no edit failed.
ForgetRewrite == Save([mem EXCEPT !.rewrite = @ \ {Thing}])
ForgetIfDone == IF flawed THEN UNCHANGED <<mem, disk, receipts>> ELSE ForgetRewrite
EndEditsUntilDone ==
    /\ step = "edit" /\ todo = {}
    /\ ForgetIfDone
    /\ step' = IF flawed THEN "edit" ELSE "next"
    /\ todo' = IF flawed THEN Referencing(Thing) ELSE {}
    /\ flawed' = FALSE
    /\ UNCHANGED <<server, uuid, jobs, job, resolved, view, proved, fresh, history, bounds>>
EndEdits ==
    /\ step = "edit" /\ todo = {}
    /\ ForgetIfDone
    /\ step' = "next"
    /\ UNCHANGED <<server, uuid, jobs, job, todo, flawed, resolved, view, proved, fresh, history, bounds>>

-----------------------------------------------------------------------------
(* run_retry_failed and the end.                                           *)

\* A delivery is retried from its own receipt, into a channel the map still names.
Retriable(r) == r.copy = mem.map[r.src[1]] /\ Receipt(r) # {}
RetryOne(r) ==
    /\ step = "retry" /\ r \in todo
    /\ todo' = todo \ {r}
    /\ IF Logical(r) \in resolved \/ ~Retriable(r)   \* once per message
       THEN UNCHANGED <<posts, receipts, mem, resolved, faults>>
       ELSE \E o \in Sends \union Breaks \union Settled(r, Shown(mem, r.src)) :
              /\ Deliver(r, o)
              /\ mem' = IF o.ok THEN Delivered(mem, r) ELSE mem
              /\ resolved' = IF o.ok THEN resolved \union {Logical(r)} ELSE resolved
    /\ UNCHANGED <<made, alive, lists, dressed, uuid, disk, jobs, job, step, flawed, view, proved, fresh,
                   history, runs, losses, deaths>>

EndRetry ==
    /\ step = "retry" /\ todo = {}
    /\ Save([mem EXCEPT !.failed = {r \in @ : Logical(r) \notin resolved}])
    /\ step' = "finish"
    /\ UNCHANGED <<server, uuid, jobs, job, todo, flawed, resolved, view, proved, fresh, history, bounds>>

\* The program is over.
Ends ==
    /\ step' = "idle" /\ jobs' = {} /\ job' = <<>> /\ todo' = {} /\ flawed' = FALSE
    /\ resolved' = {} /\ proved' = {} /\ fresh' = {} /\ view' = lists
    /\ unfinished' = unfinished \union fresh

Finish ==
    /\ step = "finish"
    /\ Save(mem)
    /\ Ends
    /\ UNCHANGED <<server, uuid, removed, bounds>>

\* The delivery that a stop or a death may cut short.
InFlight ==
    CASE step = "send" -> Begun(Here)
      [] step = "retry" -> {r \in todo : Retriable(r) /\ Logical(r) \notin resolved}
      [] OTHER -> {}
Marked(r) == (receipts \ Receipt(r)) \union {[ref |-> r, st |-> "unsure", emo |-> Shown(mem, r.src)]}
CutShort(r) ==
    /\ Unsent(r)
    /\ posts' \in {posts, posts \union {[ref |-> r, emo |-> Shown(mem, r.src)]}}

\* A permission cannot be proved, a creation is not confirmed, or the user cancels:
\* what is known is saved, and the repair stops.
Stop ==
    /\ step \in {"prepare", "make", "dress", "clear", "replace", "send", "edit", "retry", "finish"}
    /\ Fault
    /\ \/ step = "make" /\ Kind \in {"role", "channel", "index"} /\ MakeCopy(Thing)
       \/ UNCHANGED <<made, alive>>
    /\ mem' = Saved(mem) /\ disk' = Saved(mem)
    /\ \/ UNCHANGED posts /\ receipts' = {q \in receipts : q.ref \notin mem.done}
       \/ \E r \in InFlight :
             CutShort(r) /\ receipts' = {q \in Marked(r) : q.ref \notin mem.done}
    /\ Ends
    /\ UNCHANGED <<lists, dressed, uuid, removed, runs, losses, deaths>>

\* A send without proof stops the repair, after its receipt was prepared.
Refuse ==
    /\ step = "send"
    /\ \E r \in Begun(Here) :
          /\ ~Admitted(r)
          /\ receipts' = {q \in Marked(r) : q.ref \notin mem.done}
    /\ mem' = Saved(mem) /\ disk' = Saved(mem)
    /\ Ends
    /\ UNCHANGED <<server, uuid, removed, bounds>>

\* The process dies, or an error nobody handles leaves the repair: memory is lost.
Die ==
    /\ step # "idle" /\ deaths < MaxDeaths /\ deaths' = deaths + 1
    /\ \/ UNCHANGED <<posts, receipts>>
       \/ \E r \in InFlight : CutShort(r) /\ receipts' = Marked(r)
    /\ mem' = disk
    /\ Ends
    /\ UNCHANGED <<made, alive, lists, dressed, uuid, disk, removed, runs, losses, faults>>

People ==
    \/ \E x \in Item : LoseItem(x)
    \/ \E k \in Category : LoseCategory(k)
    \/ \E p \in posts : LosePost(p)

Repairing ==
    \/ Classify \/ Prepare \/ TakeJob \/ TakeFailures \/ Decline \/ Make \/ Record \/ Dress
    \/ Patch \/ Clear \/ Replace \/ Send \/ Refuse \/ AllSent \/ Close
    \/ \E s \in Source : Edit(s)
    \/ EndEdits
    \/ \E r \in mem.failed : RetryOne(r)
    \/ EndRetry \/ Finish

Next == People \/ Check \/ Repairing \/ Stop \/ Die

Spec == Init /\ [][Next]_vars
FairSpec == Spec /\ WF_vars(Repairing)
=============================================================================
