----------------------------- MODULE RepairProps -----------------------------
(***************************************************************************)
(* What repeated repairs promise.                                          *)
(***************************************************************************)
EXTENDS Repair

Copies == Item \X Nat
Refs == [src : Source, copy : Nat, gen : Nat]
State == [map : [Item -> Nat], marked : SUBSET Channel, counted : SUBSET Channel,
          sent : SUBSET Refs, failed : SUBSET Refs, next : SUBSET Refs, done : SUBSET Refs,
          rewrite : SUBSET Emoji]

\* Type invariant of the repair: also, a message has one id, a pending replacement one
\* generation, and a list of the server names no copy that was never made.
TypeOK ==
    /\ made \in [Item -> Nat]
    /\ \A c \in alive \union dressed \union fresh \union unfinished : c[1] \in Item /\ c[2] \in 1..made[c[1]]
    /\ \A k \in DOMAIN lists : k \in Category \union UserCategory
    /\ \A k \in DOMAIN lists : \A c \in lists[k] : c[2] \in 1..made[c[1]]
    /\ \A m \in {disk, mem} :
          /\ DOMAIN m = DOMAIN Migrated({}) /\ \A x \in Item : m.map[x] \in 1..made[x]
          /\ m.marked \subseteq Channel /\ m.counted \subseteq Channel /\ m.rewrite \subseteq Emoji
          /\ \A r, q \in m.sent : r.src = q.src => r = q
          /\ \A r, q \in m.next : Logical(r) = Logical(q) => r = q
    /\ \A q \in receipts : q.st \in {"rejected", "unsure", "acked"}
    /\ step \in {"idle", "classify", "prepare", "next", "make", "made", "dress", "patch", "clear",
                 "replace", "send", "close", "edit", "retry", "finish"}
    /\ flawed \in BOOLEAN

\* A message stands once in a copy of its channel, however often the repair was
\* stopped, died or was run again.
OnePost == \A p, q \in posts : Logical(p.ref) = Logical(q.ref) => p = q

\* A copy that state.json does not know comes from a death or an unconfirmed creation.
Orphans == {c \in alive : c[2] # disk.map[c[1]]}
OrphansExplained ==
    Cardinality(Orphans) <= deaths + faults + (IF step = "made" THEN 1 ELSE 0)

\* A message that state.json can address shows the emoji the map names, or the
\* emoji is still recorded for rewriting.
EmojiOwned ==
    \A p \in posts :
        p.ref \in disk.sent /\ p.ref.src \in DOMAIN EmojiIn =>
            p.emo = disk.map[EmojiIn[p.ref.src]] \/ EmojiIn[p.ref.src] \in disk.rewrite

\* A repair that comes to its end leaves nothing of what its check can find, but what
\* it recorded, reported as failed or has no name for; a channel that was found empty stays as it was.
\* After a death a receipt may vouch for a message that was deleted meanwhile.
Vouched(s) == deaths > 0 /\ <<s, mem.map[s[1]]>> \in removed

\* The check fails such a channel, and no repair takes it up.
ChannelEmpty(c) == /\ Window(c) = {} /\ c \notin Busy
                   /\ c \in mem.counted \/ Expected(c) # {}
Retried == resolved \union {Logical(r) : r \in mem.failed}
WasEmpty(c) == c \notin Busy /\ \A r \in Window(c) : Logical(r) \in Retried
Over == step = "finish"
Stands(x) == Copy(x) \in alive /\ (x \notin Emoji => Copy(x) \in dressed \union unfinished)
Repaired ==
    Over => /\ \A x \in Role \union Channel \union Emoji : Stands(x)
            /\ Named \subseteq DOMAIN lists
            /\ \A i \in Index : CategoryOf[i] \in DOMAIN lists => Stands(i)
            /\ \A c \in Channel : ChannelEmpty(c) =>
                                  \E s \in Text(c) : <<s, mem.map[c]>> \in removed
            /\ \A c \in Channel : TailAbsent(c) => \/ \E r \in mem.failed : r.src = Last(c)
                                                 \/ WasEmpty(c) \/ Vouched(Last(c))

\* A channel that is made again gets every message of the export, or a record of its
\* failure; only what people deleted stays away.  A repair cut short is another matter.
Accounted(c) ==
    \A s \in Text(c) :
        \/ \E p \in posts : Logical(p.ref) = <<s, mem.map[c]>>
        \/ \E r \in mem.failed : Logical(r) = <<s, mem.map[c]>>
        \/ <<s, mem.map[c]>> \in removed
Resent == Over => \A c \in Channel : Copy(c) \in unfinished \/ Accounted(c)

\* The guide says that after an interruption running the repair again continues.
RerunContinues == Over => \A c \in Channel : Accounted(c)

\* The guide says that a repair sends a channel's lost last message again, into the
\* channel that is still there (unless the check found it empty); here no call failed and nothing was interrupted.
TailRestored ==
    Over /\ faults = 0 /\ deaths = 0 => \A c \in Channel : TailAbsent(c) => WasEmpty(c)

\* The server's other categories survive every list that is written back, and a
\* channel stands in its category when a repair ends.
ListsKept ==
    /\ UserCategory \subseteq DOMAIN lists
    /\ Over => \A c \in Channel : CategoryOf[c] \in DOMAIN lists =>
                               Copy(c) \in lists[CategoryOf[c]] \union unfinished

\* A repair ends: nothing it meets makes it go round.
RepairEnds == step # "idle" ~> step = "idle"

\* What holds during every repair: the types, no unexplained copy, an owner for
\* every emoji that is shown, and no entry lost from the lists.
RepairInv == TypeOK /\ OrphansExplained /\ EmojiOwned /\ ListsKept

\* What a repair that comes to its end has done.
RepairComplete == Repaired /\ Resent

-----------------------------------------------------------------------------
(* The inductive invariant.                                                *)

Jobs == ({"role"} \X Role) \union ({"emoji", "resume"} \X Emoji)
        \union ({"channel", "tail"} \X Channel) \union ({"index", "rebuild"} \X Index)
        \union ({"category"} \X Category)
Born == {c \in Copies : c[2] \in 1..made[c[1]]}
Statuses == {"rejected", "unsure", "acked"}
Steps == {"idle", "classify", "prepare", "next", "make", "made", "dress", "patch", "clear",
          "replace", "send", "close", "edit", "retry", "finish"}

\* The kinds a step of a repair may have.
Kinds == [make |-> {"role", "emoji", "channel", "index"}, made |-> {"role", "emoji", "channel", "index"},
          dress |-> {"role", "channel", "index"}, patch |-> {"category", "channel", "index"},
          clear |-> {"index", "rebuild"}, replace |-> {"channel", "index", "rebuild", "tail"},
          send |-> {"channel", "index", "rebuild", "tail"},
          close |-> {"category", "channel", "index", "rebuild", "tail"}, edit |-> {"emoji", "resume"}]
Working == step \in DOMAIN Kinds

\* Types.
IsLists(l) == DOMAIN l \subseteq Category \union UserCategory /\ \A k \in DOMAIN l : l[k] \subseteq Born
WorldShapes ==
    /\ made \in [Item -> Nat \ {0}]
    /\ alive \subseteq Born /\ dressed \subseteq Born /\ fresh \subseteq Born /\ unfinished \subseteq Born
    /\ posts \subseteq [ref : Refs, emo : Nat]
    /\ receipts \subseteq [ref : Refs, st : Statuses, emo : Nat]
    /\ uuid \in [Source -> Nat]
    /\ IsLists(lists) /\ IsLists(view)
    /\ {runs, losses, faults, deaths} \subseteq Nat
RunShapes ==
    /\ disk \in State /\ mem \in State
    /\ \A x \in Item : mem.map[x] \in 1..made[x]
    /\ step \in Steps /\ flawed \in BOOLEAN
    /\ jobs \subseteq Jobs
    /\ Working => job \in Jobs /\ Kind \in Kinds[step] /\ job \notin jobs
    /\ step \in {"replace", "send"} => todo \subseteq Text(Thing)
    /\ step = "send" => todo # {} /\ Begun(Here) # {}
    /\ step = "edit" => todo \subseteq Source
    /\ step = "retry" => todo \subseteq Refs
    /\ step \in {"idle", "classify", "retry", "finish"} => jobs = {}
Shapes == WorldShapes /\ RunShapes

\* What is in memory and in state.json at once.
Synced ==
    /\ disk.map = mem.map /\ disk.next = mem.next /\ disk.rewrite = mem.rewrite /\ disk.done = {}
    /\ step \in {"idle", "classify"} => mem = disk

\* The kinds of job that send.
Sending == {"channel", "tail", "index", "rebuild"}

\* Deliveries recorded and not yet saved: of the thing at hand, or of the retry.
DoneInv ==
    /\ step \in {"replace", "send", "patch", "close"} => \A r \in mem.done : r.src[1] = Thing
    /\ step \in {"replace", "send"} => \A r \in mem.done : r.src \notin todo
    /\ step = "retry" => \A r \in mem.done : Logical(r) \in resolved
    /\ mem.done # {} => \/ step = "retry" \/ <<step, Kind>> = <<"patch", "channel">>
                        \/ step \in {"replace", "send", "close"} /\ Kind \in Sending

\* At most one job sends to a channel or an index.
JobsApart ==
    /\ \A i, j \in jobs : i[1] \in Sending /\ j[1] \in Sending /\ i[2] = j[2] => i = j
    /\ \A j \in jobs : Working /\ j[1] \in Sending /\ Kind \in Sending => j[2] # Thing

\* What posts P, receipts R and a record m say of each other.
Mapped(r, m) == r.copy = m.map[r.src[1]]

\* No delivery goes to a copy that is yet to come.
CopyBounds(P, R, m) ==
    /\ \A x \in P \union R : x.ref.copy <= m.map[x.ref.src[1]]
    /\ \A r \in m.next : r.copy <= m.map[r.src[1]]

\* A message has one replacement, one receipt and one post in a copy, all of one delivery.
OneEach(P, R, m) ==
    /\ \A r, q \in m.next : Logical(r) = Logical(q) => r = q
    /\ \A r, q \in m.sent : r.src = q.src => r = q
    /\ \A p, q \in P : Logical(p.ref) = Logical(q.ref) => p = q
    /\ \A p, q \in R : Logical(p.ref) = Logical(q.ref) => p = q
    /\ \A x \in P \union R : \A r \in m.next : Logical(x.ref) = Logical(r) => x.ref = r

\* A post in a mapped copy has a receipt that tells of it, or was sent and is over.
Receipted(p, R) == \E q \in R : q.ref = p.ref /\ q.st # "rejected"
Backed(P, R, m) ==
    \A p \in P : Mapped(p.ref, m) => Receipted(p, R) \/ p.ref \in m.sent \ m.next

\* A receipt in a mapped copy is of a replacement that is not over, or of a message
\* of a channel that was never sent.
Owed(R, m) ==
    \A q \in R : Mapped(q.ref, m) =>
        \/ q.ref \in m.next \union m.done
        \/ q.ref.src[1] \in Channel /\ \A r \in m.sent : r.src # q.ref.src

Deliveries(P, R, m) ==
    /\ CopyBounds(P, R, m) /\ OneEach(P, R, m) /\ Backed(P, R, m) /\ Owed(R, m)
    /\ \A r \in m.done : r \in m.sent /\ Mapped(r, m)

\* What the repair has still to send: nothing stands there but what it has begun.
UnderWay ==
    IF step \in {"replace", "send"} THEN todo
    ELSE IF step \in {"dress", "clear", "patch"} /\ (Kind \in {"index", "rebuild"} \/ <<step, Kind>> = <<"dress", "channel">>)
    THEN Text(Thing) ELSE {}
Ahead == UnderWay \union {Last(j[2]) : j \in {i \in jobs : i[1] = "tail"}}
                  \union {<<j[2], 0>> : j \in {i \in jobs : i[1] = "rebuild"}}
AheadClear ==
    \A s \in Ahead : \A x \in posts \union receipts :
        Logical(x.ref) = <<s, mem.map[s[1]]>> => x.ref \in mem.next

OneInv ==
    /\ Synced /\ DoneInv /\ JobsApart /\ AheadClear
    /\ Deliveries(posts, receipts, mem) /\ Deliveries(posts, receipts, disk)
    /\ step = "made" => mem.map[Thing] < made[Thing]

\* Which copies exist: what is to be made is gone, what is sent to is there.
Creating == {"role", "emoji", "channel", "index"}
Classified == step \notin {"idle", "classify"}
Making == IF step \in {"make", "made"} THEN {job} ELSE {}
CopiesInv ==
    /\ IsFiniteSet(alive) /\ OrphansExplained
    /\ \A j \in jobs : /\ j[1] \in Creating => Copy(j[2]) \notin alive
                       /\ j[1] \in {"tail", "rebuild"} => Copy(j[2]) \in alive
    /\ step \in {"make", "made"} => Copy(Thing) \notin alive
    /\ step = "made" => <<Thing, made[Thing]>> \in alive
    /\ step \in {"dress", "patch", "clear", "replace", "send"} /\ Kind \in Sending => Copy(Thing) \in alive
    /\ \A p \in posts : <<p.ref.src[1], p.ref.copy>> \in alive
    /\ Classified => \A x \in Role \union Channel \union Emoji :
                        Copy(x) \in alive \/ \E j \in jobs \union Making : j[1] \in Creating /\ j[2] = x

\* What the records hold: of channels sent and failed deliveries go to the copy that is
\* mapped, generations were drawn, and what was sent is not begun any more once it is saved.
Sound(m, u) ==
    /\ \A r \in m.sent : r.src[1] \in Channel => Mapped(r, m)
    /\ \A r \in m.failed : r.src[1] \in Channel
    /\ \A r \in m.sent \union m.failed \union m.next : r.gen <= u[r.src]
    /\ m.sent \intersect m.next \subseteq m.done
RecordsInv ==
    /\ Sound(mem, uuid) /\ Sound(disk, uuid)
    /\ step = "retry" => todo \subseteq mem.failed
    /\ step \notin {"retry", "finish"} => resolved = {}

\* Emoji: posts show what their receipts say, and while an emoji's messages are edited
\* those done show the new one.
Shows(p, e) == p.ref.src \in DOMAIN EmojiIn /\ EmojiIn[p.ref.src] = e
OwnedBy(P, m) ==
    \A p \in P : p.ref \in m.sent => \A e \in Emoji : Shows(p, e) => p.emo = m.map[e] \/ e \in m.rewrite
Agree(P, R) == \A p \in P, q \in R : p.ref = q.ref => p.emo = q.emo
EmojiInv ==
    /\ OwnedBy(posts, mem) /\ OwnedBy(posts, disk) /\ Agree(posts, receipts)
    /\ step = "edit" => \A s \in todo : s \in DOMAIN EmojiIn /\ EmojiIn[s] = Thing
    /\ step = "edit" /\ ~flawed =>
          \A p \in posts : p.ref \in mem.sent /\ Shows(p, Thing) /\ p.ref.src \notin todo => p.emo = mem.map[Thing]

\* Lists: what is written back is what the server has, changed.
Attaching == Working /\ step \notin {"make", "made"} /\ Kind \in {"channel", "index"}
ListsInv ==
    /\ UserCategory \subseteq DOMAIN lists /\ UserCategory \subseteq DOMAIN view
    /\ step \notin {"idle", "classify", "prepare"} => view = lists
    /\ fresh \subseteq (Role \X Nat) \union (IF Attaching THEN {Copy(Thing)} ELSE {})
    /\ \A c \in Channel : CategoryOf[c] \in DOMAIN lists =>
          Copy(c) \in lists[CategoryOf[c]] \union unfinished \union fresh
    /\ step = "close" /\ Kind = "channel" /\ CategoryOf[Thing] \in DOMAIN lists =>
          Copy(Thing) \in lists[CategoryOf[Thing]]

KeptInv == CopiesInv /\ RecordsInv /\ EmojiInv /\ ListsInv

\* Jobs are taken by rank; permissions follow the last role.
RolesLeft == RolesToMake \/ (Working /\ Kind = "role")
OrderInv ==
    /\ Working => \A j \in jobs : Rank[Kind] <= Rank[j[1]]
    /\ \A f \in fresh : f[1] \in Role => RolesLeft
    /\ \A x \in Role : Copy(x) \in alive => Copy(x) \in dressed \union unfinished \union fresh
    /\ step \notin {"idle", "classify", "prepare"} /\ ~RolesLeft =>
          \A x \in Channel \union Index : Copy(x) \in alive => Copy(x) \in dressed \/ (step = "dress" /\ x = Thing)

\* Categories come before the indexes in them.
CategoriesOver == (\A j \in jobs : Rank[j[1]] >= 6) /\ (Working => Rank[Kind] >= 6)
CategoriesInv ==
    Classified =>
      /\ \A k \in Named : k \in DOMAIN lists \/ <<"category", k>> \in jobs \/ (step = "patch" /\ job = <<"category", k>>)
      /\ \A i \in Index : \/ Copy(i) \in alive \/ <<"index", i>> \in jobs \union Making
                          \/ CategoryOf[i] \notin DOMAIN lists /\ CategoriesOver

\* A delivery that was confirmed stands, or was deleted by people; it is recorded unless the program died.
Gone(s) == <<s, mem.map[s[1]]>> \in removed
Stood(r) == Live(r) # {} \/ Vouched(r.src)
AckedStand ==
    \A q \in receipts : q.st = "acked" /\ <<q.ref.src[1], q.ref.copy>> \in alive => Live(q.ref) # {} \/ Logical(q.ref) \in removed
AckedKnown == \A q \in receipts : q.st = "acked" => q.ref \in mem.done \/ deaths > 0
CountedStand(m) ==
    \A c \in Channel : Copy(c) \in alive /\ (c \in m.counted \/ \E r \in m.sent : r.src[1] = c) =>
        Window(c) # {} \/ \E s \in Text(c) : Gone(s)
ResolvedStand == \A l \in resolved : \E r \in mem.sent : Logical(r) = l /\ Mapped(r, mem) /\ Stood(r)
StandInv == AckedStand /\ AckedKnown /\ CountedStand(mem) /\ CountedStand(disk) /\ ResolvedStand

\* Every message of a channel that exists is accounted for, but of one whose repair is not over.
AccountedBy(m, s) ==
    \/ \E p \in posts : Logical(p.ref) = <<s, mem.map[s[1]]>>
    \/ \E r \in m.failed : Logical(r) = <<s, mem.map[s[1]]>>
    \/ Gone(s)
ChannelsAccounted(m) ==
    \A c \in Channel : Copy(c) \in alive => Copy(c) \in unfinished \union fresh \/ \A s \in Text(c) : AccountedBy(m, s)
Resending == Working /\ Kind = "channel" /\ step \in {"dress", "replace", "send", "patch", "close"}
ResentAccounted ==
    Resending =>
      /\ step # "dress" => \A s \in Text(Thing) : (step \in {"replace", "send"} /\ s \in todo) \/ AccountedBy(mem, s)
      /\ \A r \in mem.sent : r.src[1] = Thing => Stood(r)
AccountInv == ChannelsAccounted(mem) /\ ChannelsAccounted(disk) /\ ResentAccounted

\* A last message that is not there is to be sent, failed, or left out knowingly.
TailExplained(c) ==
    \/ <<"tail", c>> \in jobs
    \/ step \in {"replace", "send"} /\ job = <<"tail", c>> /\ todo # {}
    \/ \E r \in mem.failed : r.src = Last(c)
    \/ WasEmpty(c) \/ Vouched(Last(c))
TailInv ==
    /\ Working /\ Kind = "channel" /\ step \in {"dress", "replace", "send"} => Thing \notin mem.marked
    /\ step \in {"replace", "send"} /\ Kind = "tail" => todo \subseteq {Last(Thing)}
    /\ Classified => \A c \in Channel : TailAbsent(c) => TailExplained(c)

EndInv == OrderInv /\ CategoriesInv /\ StandInv /\ AccountInv /\ TailInv

IInv == Shapes /\ OneInv /\ KeptInv /\ EndInv
=============================================================================
