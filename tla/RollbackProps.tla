---------------------------- MODULE RollbackProps ----------------------------
(***************************************************************************)
(* What the lock and a rollback promise.                                   *)
(***************************************************************************)
EXTENDS Rollback

Progress == [done : SUBSET Entity, channels : Nat, suspects : Nat, roles : Nat, emoji : Nat,
             failures : SUBSET (Entity \union {"<all>"}), cleaned : BOOLEAN, completed : BOOLEAN]

\* Type invariant of the lock and of a rollback.
TypeOK ==
    /\ desc \in Seq(Marker) /\ aged \subseteq Marker /\ left \subseteq Marker
    /\ stage \in [Instance -> {"idle", "asked", "locked", "unlocked", "releasing"}]
    /\ read \in [Instance -> Seq(Marker)] /\ marker \in [Instance -> Marker \union {<<>>}]
    /\ force \in [Instance -> BOOLEAN] /\ unsure \in BOOLEAN
    /\ starts \in 0..MaxStarts /\ faults \in 0..MaxFaults
    /\ live \subseteq Entity /\ cats \subseteq Category \union OtherCategory
    /\ disk \in Progress /\ mem \in Progress
    /\ part \in {"none", "start", "gate", "channels", "roles", "emoji", "categories",
                 "patch", "finish", "over", "stopped"}
    /\ listed \subseteq Channel /\ chosen \subseteq Untracked /\ confirmed \subseteq Untracked
    /\ todo \subseteq Entity /\ busy \subseteq Entity /\ catsRead \subseteq Category \union OtherCategory
    /\ cancel \in BOOLEAN

\* Two programs hold the lock at once only when their reads and writes of the
\* description overlapped, or a lock was taken from a program at work (--force-unlock,
\* a marker more than a day old), or a program without the lock wrote the text.
Exclusive == ~unsure => \A p, q \in Instance : Holding(p) /\ Holding(q) => p = q

\* A marker is left behind only by a program that died or whose call failed: every
\* other program, also one that was refused, cancelled or stopped, takes it away.
MarkerExplained ==
    \A i \in DOMAIN desc :
        \/ desc[i] \in left
        \/ \E p \in Instance : marker[p] = desc[i] /\ ~Idle(p)

\* A channel on another server, a channel nobody opted in and the categories of the
\* server's users survive every rollback, whatever state.json says of them.
OnlyTheirs == /\ Elsewhere \union (Untracked \ confirmed) \subseteq live
              /\ OtherCategory \subseteq cats

\* What the record calls rolled back is gone, and was counted once: also after a
\* crash, a failed call that had taken effect, and a second run.
RecordedIsGone == disk.done \intersect live = {}
CountedOnce ==
    LET Count(S) == Cardinality(disk.done \intersect S)
    IN  /\ disk.channels = Count(Mapped) /\ disk.suspects = Count(Untracked)
        /\ disk.roles = Count(Role) /\ disk.emoji = Count(Emoji)

\* A rollback that ends without a cancellation has deleted everything it was to
\* delete and cleaned the categories, or names what it could not.
Targets == (Mapped \ Elsewhere) \union chosen \union Role \union Emoji
FinishedIsGone ==
    part = "over" /\ ~cancel =>
        /\ Targets \intersect live \subseteq mem.failures
        /\ Category \intersect cats = {} \/ "<all>" \in mem.failures

\* A confirmed rollback ends and gives the lock back: no failed call stops it.
RollbackEnds == part \in {"channels", "stopped"} ~> Idle(Rollback)

\* What else holds of the lock and the rollback: the types, no unexplained marker,
\* and the record of the rollback against what is gone.
RollbackInv ==
    /\ TypeOK
    /\ MarkerExplained
    /\ OnlyTheirs
    /\ RecordedIsGone
    /\ CountedOnce
    /\ FinishedIsGone

-----------------------------------------------------------------------------
(***************************************************************************)
(* The inductive invariant behind these properties.                        *)
(***************************************************************************)
Single(s) == s = <<>> \/ \E m \in Marker : s = <<m>>

\* The text holds one marker at most; a program at work has its own, whose number is
\* that of no marker left behind.
LockInv ==
    /\ Single(desc) /\ \A p \in Instance : Single(read[p])
    /\ \A p \in Instance :
          IF stage[p] \in {"locked", "releasing"}
          THEN marker[p] \in Marker /\ marker[p][1] = p /\ marker[p][2] <= starts
          ELSE marker[p] = <<>>
    /\ \A m \in left : m[2] <= starts
    /\ \A p \in Instance :
          /\ stage[p] = "asked" => starts > 0 /\ \A m \in left : m[1] = p => m[2] < starts
          /\ stage[p] = "releasing" /\ read[p] = <<>> => desc # <<marker[p]>>
    /\ stage[Rollback] # "unlocked"

\* Until something goes wrong, the text names the holder, and so does every text
\* that was read while it held the lock.
HolderInv ==
    ~unsure => \A q \in Instance : Holding(q) =>
        /\ desc = <<marker[q]>> /\ marker[q] \notin left
        /\ \A p \in Instance : stage[p] = "asked" => read[p] = <<marker[q]>>

\* The part of the rollback against its lock and its record.
PartInv ==
    /\ Idle(Rollback) <=> part = "none"
    /\ stage[Rollback] = "asked" => part = "start"
    /\ stage[Rollback] = "releasing" => part \in {"over", "stopped"}
    /\ ~Idle(Rollback) => mem = disk
    /\ part \in {"none", "start", "gate"} => todo = {} /\ busy = {} /\ chosen = {}
    /\ part = "gate" => (live \intersect Channel) \ Elsewhere \subseteq listed
    /\ part = "patch" => OtherCategory \subseteq catsRead

\* What a rollback deletes is the migration's, or opted in, and not deleted before.
TargetInv ==
    /\ listed \intersect Elsewhere = {}
    /\ chosen \subseteq confirmed
    /\ todo \intersect busy = {}
    /\ (todo \union busy) \intersect mem.done = {}
    /\ todo \union busy \subseteq (Mapped \ Elsewhere) \union chosen \union Role \union Emoji

\* What a rollback that was not cancelled has behind it, part by part.
Owed(S) == S \intersect live \subseteq todo \union busy \union mem.failures
Settled(S) == S \intersect live \subseteq mem.failures
OwnChannels == (Mapped \ Elsewhere) \union chosen
PastEmoji == {"categories", "patch", "finish", "over"}
ReachedInv ==
    ~cancel =>
        /\ part = "channels" => Owed(OwnChannels)
        /\ part \in {"roles", "emoji"} \union PastEmoji => Settled(OwnChannels)
        /\ part = "roles" => Owed(Role)
        /\ part \in {"emoji"} \union PastEmoji => Settled(Role)
        /\ part = "emoji" => Owed(Emoji)
        /\ part \in PastEmoji => Settled(Emoji)
        /\ part \in {"finish", "over"} => Category \intersect cats = {} \/ "<all>" \in mem.failures

IInv ==
    /\ TypeOK
    /\ LockInv /\ HolderInv /\ MarkerExplained
    /\ PartInv /\ TargetInv /\ ReachedInv
    /\ OnlyTheirs /\ RecordedIsGone /\ CountedOnce
=============================================================================
