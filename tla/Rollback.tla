------------------------------ MODULE Rollback ------------------------------
(***************************************************************************)
(* Undoing a migration (core/engine.py, run_rollback and what it calls)    *)
(* under the server lock: channels are deleted in parallel, then roles and *)
(* emoji one by one, then the migration's categories leave the server's    *)
(* list.  Every deletion is recorded in state.json, and a rollback that    *)
(* was cancelled, failed or died is run again from that record.            *)
(***************************************************************************)
EXTENDS ServerLock

CONSTANTS
    Mapped,     \* the ids in channel_map
    Elsewhere,  \* those of them that are on another server
    Untracked,  \* channels of the server that are in no map
    Role, Emoji,
    Category,        \* the ids in category_map
    OtherCategory,   \* categories of the server's users
    MaxConcurrentRequests

Channel == Mapped \union Untracked
Entity == Channel \union Role \union Emoji

ASSUME RollbackAssumption ==
    /\ IsFiniteSet(Entity) /\ Category # {} /\ Elsewhere \subseteq Mapped
    /\ Mapped \intersect Untracked = {} /\ Channel \intersect (Role \union Emoji) = {}
    /\ Category \intersect OtherCategory = {}
    /\ MaxConcurrentRequests \in Nat \ {0}

VARIABLES
    live,      \* what exists at the service
    cats,      \* the categories the server lists
    disk,      \* rollback_progress in state.json
    mem,       \* rollback_progress of the running rollback
    part,      \* what the rollback is doing
    listed,    \* the channels the server listed at the start
    chosen,    \* the suspects opted in at the gate
    todo,      \* what the part has still to delete
    busy,      \* deletions in flight
    catsRead,  \* the categories fetched before the final PATCH
    cancel,    \* config.cancel_event
    confirmed  \* suspects opted in by any run so far; "none" before the first (history)

undoing == <<part, listed, chosen, todo, busy, catsRead, cancel, mem>>
vars == <<lockVars, undoing, live, cats, disk, confirmed>>

\* RollbackProgress; the counters one per kind.
NoProgress == [done |-> {}, channels |-> 0, suspects |-> 0, roles |-> 0, emoji |-> 0,
               failures |-> {}, cleaned |-> FALSE, completed |-> FALSE]

Init ==
    /\ LockInit
    /\ live = Entity
    /\ cats = Category \union OtherCategory
    /\ disk = NoProgress /\ mem = NoProgress
    /\ part = "none" /\ listed = {} /\ chosen = {} /\ todo = {} /\ busy = {}
    /\ catsRead = {} /\ cancel = FALSE /\ confirmed = {}

Working == Holding(Rollback) /\ ~Idle(Rollback)
At(s) == Holding(Rollback) /\ part = s

Save(p) == mem' = p /\ disk' = p
Part(s, S) == part' = s /\ todo' = S

-----------------------------------------------------------------------------
(* The lock, and what comes before it.                                     *)

\* The program is over.
Forget ==
    /\ part' = "none" /\ mem' = NoProgress /\ cancel' = FALSE
    /\ listed' = {} /\ chosen' = {} /\ todo' = {} /\ busy' = {} /\ catsRead' = {}

\* run_rollback starts from the saved record.
Start ==
    /\ \E forced \in BOOLEAN : Ask(Rollback, forced)
    /\ mem' = disk
    /\ part' = "start" /\ cancel' = FALSE
    /\ UNCHANGED <<listed, chosen, todo, busy, catsRead, live, cats, disk, confirmed>>

Locking ==
    /\ \/ AskFails(Rollback) /\ UNCHANGED undoing
       \/ Refused(Rollback) /\ Forget
       \/ Acquire(Rollback) /\ UNCHANGED undoing
       \/ AcquireFails(Rollback) /\ Forget
    /\ UNCHANGED <<live, cats, disk, confirmed>>

-----------------------------------------------------------------------------
(* What there is to delete, and the confirmation.                          *)

List ==
    /\ At("start")
    /\ listed' = (live \intersect Channel) \ Elsewhere
    /\ part' = "gate"
    /\ UNCHANGED <<lockVars, chosen, todo, busy, catsRead, cancel, mem, live, cats, disk, confirmed>>

\* The server does not answer: the error leaves through the finally.
ListFails ==
    /\ At("start")
    /\ part' = "stopped"
    /\ Fault
    /\ UNCHANGED <<desc, aged, stage, read, marker, force, starts, left, unsure,
                   listed, chosen, todo, busy, catsRead, cancel, mem, live, cats, disk, confirmed>>

\* _build_rollback_targets: what the server lists and no map holds.
SuspectsAll == listed
Suspects == listed \ Mapped

\* Only channels this server lists are deleted, and none a second time.
UnlistedTargets(S) == (Mapped \union S) \ mem.done
ChannelTargets(S) == ((Mapped \intersect listed) \union S) \ mem.done
RemainingAll(S) == S
Remaining(S) == S \ mem.done
Confirm(S) ==
    /\ At("gate") /\ ~cancel
    /\ chosen' = S
    /\ confirmed' = confirmed \union S
    /\ Part("channels", ChannelTargets(S))
    /\ UNCHANGED <<lockVars, listed, busy, catsRead, cancel, mem, live, cats, disk>>

CancelledAtGate ==
    /\ At("gate") /\ cancel
    /\ part' = "stopped"
    /\ UNCHANGED <<lockVars, listed, chosen, todo, busy, catsRead, cancel, mem, live, cats,
                   disk, confirmed>>

Cancel ==
    /\ ~Idle(Rollback) /\ ~cancel
    /\ cancel' = TRUE
    /\ UNCHANGED <<lockVars, part, listed, chosen, todo, busy, catsRead, mem, live, cats,
                   disk, confirmed>>

-----------------------------------------------------------------------------
(* _delete_one_channel, _delete_one_role, _delete_one_emoji.               *)

Width == IF part = "channels" THEN MaxConcurrentRequests ELSE 1

Delete(e) ==
    /\ Working /\ e \in todo /\ ~cancel
    /\ Cardinality(busy) < Width
    /\ busy' = busy \union {e}
    /\ todo' = todo \ {e}
    /\ UNCHANGED <<lockVars, part, listed, chosen, catsRead, cancel, mem, live, cats, disk, confirmed>>

Counted(p, e) ==
    [p EXCEPT !.channels = @ + (IF e \in Mapped THEN 1 ELSE 0),
              !.suspects = @ + (IF e \in Untracked THEN 1 ELSE 0),
              !.roles = @ + (IF e \in Role THEN 1 ELSE 0),
              !.emoji = @ + (IF e \in Emoji THEN 1 ELSE 0),
              !.done = @ \union {e}]

\* Something that is gone already answers 404, which is as good.
Deleted(e) ==
    /\ Working /\ e \in busy
    /\ live' = live \ {e}
    /\ busy' = busy \ {e}
    /\ Save(Counted(mem, e))
    /\ UNCHANGED <<lockVars, part, listed, chosen, todo, catsRead, cancel, cats, confirmed>>

FailedGone(p, e) == Counted([p EXCEPT !.failures = @ \union {e}], e)
Failed(p, e) == [p EXCEPT !.failures = @ \union {e}]
\* The call fails, and may have taken effect all the same.
DeleteFails(e) ==
    /\ Working /\ e \in busy /\ Fault
    /\ live' \in {live, live \ {e}}
    /\ busy' = busy \ {e}
    /\ Save(Failed(mem, e))
    /\ UNCHANGED <<desc, aged, stage, read, marker, force, starts, left, unsure,
                   part, listed, chosen, todo, catsRead, cancel, cats, confirmed>>

\* A part ends when its calls have all ended; a cancellation drops the rest of it.
PartOverEarly == todo = {} \/ cancel
PartOverIdle == busy = {} /\ todo = {}
PartOver == busy = {} /\ (todo = {} \/ cancel)
NextPart ==
    /\ Working /\ part \in {"channels", "roles", "emoji"} /\ PartOver
    /\ CASE part = "channels" -> Part("roles", Remaining(Role))
         [] part = "roles" -> Part("emoji", Remaining(Emoji))
         [] part = "emoji" -> Part(IF cancel THEN "finish" ELSE "categories", {})
    /\ UNCHANGED <<lockVars, listed, chosen, busy, catsRead, cancel, mem, live, cats, disk, confirmed>>

-----------------------------------------------------------------------------
(* _clean_categories, of a migration that made some.                       *)

FetchCategories ==
    /\ At("categories")
    /\ catsRead' = cats
    /\ part' = "patch"
    /\ UNCHANGED <<lockVars, listed, chosen, todo, busy, cancel, mem, live, cats, disk, confirmed>>

KeptAll == catsRead
Kept == catsRead \ Category
PatchCategories ==
    /\ At("patch")
    /\ cats' = Kept
    /\ Save([mem EXCEPT !.cleaned = TRUE])
    /\ part' = "finish"
    /\ UNCHANGED <<lockVars, listed, chosen, todo, busy, catsRead, cancel, live, confirmed>>

CategoriesFail ==
    /\ \/ At("categories")
       \/ At("patch")
    /\ Fault
    /\ Save([mem EXCEPT !.failures = @ \union {"<all>"}])
    /\ part' = "finish"
    /\ UNCHANGED <<desc, aged, stage, read, marker, force, starts, left, unsure,
                   listed, chosen, todo, busy, catsRead, cancel, live, cats, confirmed>>

-----------------------------------------------------------------------------
\* A cancelled rollback is completed as well.
Finish ==
    /\ At("finish")
    /\ Save([mem EXCEPT !.completed = TRUE])
    /\ part' = "over"
    /\ UNCHANGED <<lockVars, listed, chosen, todo, busy, catsRead, cancel, live, cats, confirmed>>

Unlock ==
    /\ part \in {"over", "stopped"}
    /\ \/ AskRelease(Rollback) /\ UNCHANGED undoing
       \/ Release(Rollback) /\ Forget
       \/ ReleaseFails(Rollback) /\ Forget
    /\ UNCHANGED <<live, cats, disk, confirmed>>

\* Of the deletions in flight, some have taken effect.
Dies ==
    /\ Die(Rollback)
    /\ \E S \in SUBSET busy : live' = live \ S
    /\ Forget
    /\ UNCHANGED <<cats, disk, confirmed>>

\* The rest of the world: other programs and the clock.
Others ==
    /\ \/ \E p \in Migrations :
            \/ \E forced \in BOOLEAN : Ask(p, forced)
            \/ AskFails(p) \/ Refused(p) \/ Acquire(p) \/ AcquireFails(p) \/ Describe(p)
            \/ AskRelease(p) \/ Release(p) \/ ReleaseFails(p) \/ LeaveUnlocked(p) \/ Die(p)
       \/ GrowOld
    /\ UNCHANGED <<undoing, live, cats, disk, confirmed>>

Undo ==
    \/ List \/ CancelledAtGate
    \/ \E S \in SUBSET Suspects : Confirm(S)
    \/ \E e \in Entity : Delete(e) \/ Deleted(e) \/ DeleteFails(e)
    \/ NextPart \/ FetchCategories \/ PatchCategories \/ CategoriesFail
    \/ Finish \/ ListFails

Next == Start \/ Locking \/ Undo \/ Unlock \/ Cancel \/ Dies \/ Others

Spec == Init /\ [][Next]_vars

\* The event loop runs a rollback to its end once it is confirmed; nothing is
\* owed to the confirmation, to a start or to other programs.
FairSpec == Spec /\ WF_vars(Undo /\ part # "gate") /\ WF_vars(Unlock)
=============================================================================
