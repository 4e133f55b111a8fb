------------------------------ MODULE Migration ------------------------------
(***************************************************************************)
(* The life of a migration (core/engine.py, run_migration and _run_phases, *)
(* with the phases of migrator/structure.py, emoji.py, avatars.py,         *)
(* reactions.py and pins.py): what each phase creates at the service, what *)
(* it records, when the record reaches state.json, and the runs that       *)
(* follow one another after a cancellation, a failed phase, a permission   *)
(* stop, an interrupt or the death of the process.                         *)
(*                                                                         *)
(* The service numbers the copies of a resource it creates: made[i] of     *)
(* them exist, and the record names one of them (0 for none).  Sending a   *)
(* message is MessagesPhase's business: here every follow-up stands for a  *)
(* message that needs it, and is sent in one step.                         *)
(***************************************************************************)
EXTENDS Naturals, FiniteSets, Sequences

CONSTANTS
    Role, Channel, Emoji, Avatar, Category,
    CategoryOf,     \* the category of each channel
    Reaction, Pin,  \* what is applied to the messages once they are sent
    Home,           \* the channel of each reaction and pin
    MaxReactions,   \* _MAX_REACTIONS_PER_MESSAGE; one message per channel here
    Continuations,  \* how a later run may start: "resume", "incremental"
    MaxRuns,        \* bound: runs
    MaxEnds,        \* bound: runs that die, are interrupted or fail
    MaxLosses       \* bound: creations whose answer is lost

FollowUp == Reaction \union Pin
Durable == {"server"} \union Role \union Channel   \* saved as soon as they are made
Resource == Durable \union Emoji \union Avatar

\* Identifiers of different kinds of resources differ.
ASSUME MigrationAssumption ==
    /\ Role \cap Channel = {} /\ "server" \notin Role \union Channel
    /\ Durable \cap (Emoji \union Avatar) = {}
    /\ IsFiniteSet(Resource) /\ IsFiniteSet(Category) /\ IsFiniteSet(FollowUp)
    /\ CategoryOf \in [Channel -> Category]
    /\ Home \in [FollowUp -> Channel]
    /\ Continuations \subseteq {"resume", "incremental"}
    /\ MaxReactions \in Nat /\ MaxRuns \in Nat /\ MaxEnds \in Nat /\ MaxLosses \in Nat

VARIABLES
    made,      \* copies of each resource at the service
    dressed,   \* the copies of roles and channels that carry their permissions
    layout,    \* the server's category list: the categories and what they hold
    applied,   \* the follow-ups that are in effect at the service
    disk,      \* state.json
    mem,       \* the run's MigrationState
    mode,      \* how the run was started; "none" between runs
    seen,      \* the channels of the run's export
    phase,     \* the phase in progress; "between" at the top of the loop
    next,      \* position of the loop in PHASE_ORDER
    stage,     \* what the phase is doing
    hand,      \* the resource it is doing it to
    todo,      \* what it has still to do
    rest,      \* follow-ups of the phase that failed
    cancel,    \* config.cancel_event
    recounted, \* an interrupt saved counters ahead of their queue (history)
    cutShort,  \* the phase in state.json tells of another run, or of a report that came
               \* too early: a run that goes through all phases ends this (history)
    runs, ends, losses   \* so far, for the bounds

service == <<made, dressed, layout, applied>>
frame == <<phase, next, stage, hand, todo, rest>>
bounds == <<runs, ends, losses, recounted, cutShort>>
vars == <<service, disk, mem, mode, seen, frame, cancel, bounds>>

-----------------------------------------------------------------------------
PHASE_ORDER == <<"connect", "server", "roles", "categories", "channels", "emoji",
                 "avatars", "messages", "reactions", "pins", "report">>
NoPhase == ""                     \* of a record no phase has begun for
Rank(p) == IF p = NoPhase THEN 0 ELSE CHOOSE n \in DOMAIN PHASE_ORDER : PHASE_ORDER[n] = p
Last == Len(PHASE_ORDER) - 1     \* the phases _run_phases runs

\* The fields of MigrationState these phases read and write.
State == [map : [Resource -> Nat],       \* stoat_server_id, role_map, channel_map, ...
          cats : SUBSET Category,        \* category_map
          placed : SUBSET Channel,       \* channel_categories
          finalized : SUBSET Role,       \* roles_finalized
          sent : SUBSET FollowUp,        \* message_map, of the messages that matter
          pending : SUBSET FollowUp,     \* pending_reactions, pending_pins
          tally : SUBSET Reaction,       \* reaction_message_counts
          counted : Nat,                 \* reactions_applied + pins_applied
          capped : SUBSET Reaction,      \* reactions_capped
          phase : {NoPhase} \union {PHASE_ORDER[n] : n \in DOMAIN PHASE_ORDER}]

EmptyState == [map |-> [i \in Resource |-> 0], cats |-> {}, placed |-> {},
               finalized |-> {}, sent |-> {}, pending |-> {}, tally |-> {},
               counted |-> 0, capped |-> {}, phase |-> NoPhase]

Mapped(m, S) == {i \in S : m.map[i] # 0}
Named(m, i) == <<i, m.map[i]>>
Idle == /\ phase' = "between" /\ next' = 1 /\ stage' = "loop"
        /\ hand' = "server" /\ todo' = {} /\ rest' = {}

Init ==
    /\ made = [i \in Resource |-> 0]
    /\ dressed = {} /\ applied = {}
    /\ layout = [cats |-> {}, holds |-> {}]
    /\ disk = EmptyState /\ mem = EmptyState
    /\ mode = "none" /\ seen = {}
    /\ phase = "between" /\ next = 1 /\ stage = "loop"
    /\ hand = "server" /\ todo = {} /\ rest = {}
    /\ cancel = FALSE
    /\ recounted = FALSE /\ cutShort = FALSE
    /\ runs = 0 /\ ends = 0 /\ losses = 0

-----------------------------------------------------------------------------
(* The start of a run.                                                     *)

\* What run_migration starts from.  An incremental run keeps a pending
\* follow-up only while its delivery is in delivery_bookkeeping.
Loaded(m, kept) ==
    CASE m = "fresh" -> EmptyState
      [] m = "resume" -> disk
      [] m = "incremental" -> [disk EXCEPT !.phase = NoPhase, !.pending = kept,
                                           !.tally = {}, !.capped = {}]

\* prove_carried_channel_access: every channel on record gives the access the
\* source gives.
CarriedDressed(s) == \A c \in Mapped(s, Channel) : Named(s, c) \in dressed

\* A run that will not create roles any more finds all of them on record.
RolesKnown(m, s) ==
    m = "resume" /\ Rank(s.phase) > Rank("roles") => Role \subseteq Mapped(s, Role)

\* Nor channels; and nothing is on record without a server.
ChannelsKnown(m, s, exported) ==
    /\ m = "resume" /\ Rank(s.phase) > Rank("channels") => exported \subseteq Mapped(s, Channel)
    /\ s.map["server"] = 0 => Mapped(s, Role \union Channel) = {}

Prepared(m, s, exported) ==
    /\ CarriedDressed(s)
    /\ RolesKnown(m, s)
    /\ ChannelsKnown(m, s, exported)

\* The export saves the record as it was loaded (engine.py:881); a run of an export
\* that is already there saves it with the first phase.
Begin(m) ==
    /\ mode = "none" /\ runs < MaxRuns
    /\ m = "fresh" <=> runs = 0
    /\ \E kept \in SUBSET disk.pending, exported \in (SUBSET Channel) \ {{}} :
         /\ m # "incremental" => kept = {}
         /\ m = "resume" => exported = seen
         /\ Prepared(m, Loaded(m, kept), exported)
         /\ mem' = Loaded(m, kept)
         /\ seen' = exported
    /\ disk' \in {disk, mem'}
    /\ mode' = m
    /\ runs' = runs + 1
    /\ Idle
    /\ UNCHANGED <<service, cancel, ends, losses, recounted, cutShort>>

RunOver ==
    /\ mode' = "none"
    /\ cancel' = FALSE
    /\ mem' = EmptyState
    /\ Idle
    /\ UNCHANGED <<service, seen, runs, losses>>

SeenCategories == {CategoryOf[c] : c \in seen}

\* An exception of a phase, a PermissionSafetyError and asyncio.CancelledError
\* all end the run with a save.
Fail(s) ==
    /\ ends < MaxEnds /\ ends' = ends + 1
    /\ disk' = s
    /\ RunOver

\* An incremental run that dies before its first save leaves the record of the run
\* before it, with the phase that run had reached.
Unsaved == mode = "incremental" /\ next = 1

Crash ==
    /\ mode # "none"
    /\ ends < MaxEnds /\ ends' = ends + 1
    /\ RunOver
    /\ cutShort' = (cutShort \/ (Unsaved /\ Rank(disk.phase) > Rank("connect")))
    /\ UNCHANGED <<disk, recounted>>

RequestCancel ==
    /\ mode # "none" /\ ~cancel /\ ends < MaxEnds
    /\ cancel' = TRUE
    /\ ends' = ends + 1
    /\ UNCHANGED <<service, disk, mem, mode, seen, frame, runs, losses, recounted, cutShort>>

\* asyncio.CancelledError in a phase: what is in memory is saved, the counters of
\* a follow-up phase with the queue of its last checkpoint.  The messages phase
\* raises it when cancel_event is set, and then the run is over; one that comes
\* from outside (Ctrl+C) ends the loop only: the run goes on to its report and
\* records it.
StopMessages ==
    /\ phase = "messages" /\ cancel
    /\ disk' = mem
    /\ RunOver
    /\ UNCHANGED <<ends, recounted, cutShort>>

Interrupt ==
    /\ mode # "none" /\ phase # "between" /\ ~cancel /\ stage # "save"
    /\ Fail([mem EXCEPT !.phase = "report"])
    /\ recounted' = (recounted \/ phase \in {"reactions", "pins"})
    /\ cutShort' = TRUE

\* Any phase up to the messages may raise: a refusal, an error that lasts.
Raise ==
    /\ mode # "none"
    /\ phase \in {"connect", "server", "roles", "categories", "channels", "messages"}
    /\ stage \in {"loop", "grant", "upsert"}
    /\ Fail(IF phase = "categories" THEN [mem EXCEPT !.cats = @ \union SeenCategories] ELSE mem)
    /\ UNCHANGED <<recounted, cutShort>>

-----------------------------------------------------------------------------
(* The loop of _run_phases.                                                *)

StopOnCancel ==
    /\ mode # "none" /\ phase = "between" /\ cancel
    /\ IF next <= Last THEN disk' = mem ELSE UNCHANGED disk
    /\ RunOver
    /\ UNCHANGED <<ends, recounted, cutShort>>

SkipsCompleted == mode = "resume" /\ mem.phase # NoPhase /\ next < Rank(mem.phase)

Skip ==
    /\ mode # "none" /\ phase = "between" /\ ~cancel /\ next <= Last
    /\ SkipsCompleted
    /\ next' = next + 1
    /\ UNCHANGED <<service, disk, mem, mode, seen, phase, stage, hand, todo, rest, cancel, bounds>>

\* What the phase goes through, in any order.
\* Mistake: the roles the record already names are created again.
WorkRecreating(p) ==
    CASE p = "server" -> {"server"} \ Mapped(mem, Resource)
      [] p = "roles" -> Role
      [] p = "channels" -> seen
      [] OTHER -> {}
Work(p) ==
    CASE p = "server" -> {"server"} \ Mapped(mem, Resource)
      [] p = "roles" -> Role \ Mapped(mem, Role)
      [] p = "channels" -> seen
      [] p = "emoji" -> Emoji \ Mapped(mem, Emoji)
      [] p = "avatars" -> Avatar \ Mapped(mem, Avatar)
      [] p = "messages" -> {f \in FollowUp : Home[f] \in Mapped(mem, seen)} \ mem.sent
      [] p = "reactions" -> mem.pending \cap Reaction
      [] p = "pins" -> mem.pending \cap Pin
      [] OTHER -> {}

Enter ==
    /\ mode # "none" /\ phase = "between" /\ ~cancel /\ next <= Last
    /\ ~SkipsCompleted
    /\ phase' = PHASE_ORDER[next]
    /\ mem' = [mem EXCEPT !.phase = PHASE_ORDER[next]]
    /\ todo' = Work(PHASE_ORDER[next])
    /\ stage' = IF PHASE_ORDER[next] = "categories" THEN "upsert" ELSE "loop"
    /\ rest' = {}
    /\ UNCHANGED <<service, disk, mode, seen, next, hand, cancel, bounds>>

PhaseOver(m) ==
    /\ mem' = m /\ disk' = m
    /\ phase' = "between" /\ next' = next + 1
    /\ stage' = "loop" /\ todo' = {} /\ rest' = {}
    /\ cutShort' = (cutShort /\ phase # "connect")
    /\ UNCHANGED <<mode, seen, hand, cancel, runs, ends, losses, recounted>>

\* The phases whose loop has nothing to do after it.
EndPhase ==
    /\ phase \in {"connect", "server", "emoji", "avatars", "messages"}
    /\ stage = "loop" /\ todo = {}
    /\ PhaseOver(mem)
    /\ UNCHANGED service

Report ==
    /\ mode # "none" /\ phase = "between" /\ next > Last /\ ~cancel
    /\ disk' = [mem EXCEPT !.phase = "report"]
    /\ RunOver
    /\ UNCHANGED <<ends, recounted, cutShort>>

-----------------------------------------------------------------------------
(* Creating resources.                                                     *)

Creating == mode # "none" /\ stage = "loop"

\* What the phase may ask the service for next.
ToCreate == CASE phase = "channels" -> {c \in todo : mem.map[c] = 0}
              [] phase \in {"server", "roles", "emoji", "avatars"} -> todo
              [] OTHER -> {}

\* The answer names the new resource; it is recorded, and saved in the next step.
Make(i, after) ==
    /\ made' = [made EXCEPT ![i] = @ + 1]
    /\ mem' = [mem EXCEPT !.map[i] = made[i] + 1]
    /\ hand' = i /\ todo' = todo \ {i}
    /\ stage' = after
    /\ UNCHANGED <<dressed, layout, applied, disk, mode, seen, phase, next, rest, cancel, bounds>>

CreateServer ==
    /\ Creating /\ phase = "server"
    /\ \E i \in ToCreate : Make(i, "save")

CreateRole ==
    /\ Creating /\ phase = "roles"
    /\ \E i \in ToCreate : Make(i, "save")

\* A voice channel the service refuses is created as a text channel.
CreateChannel ==
    /\ Creating /\ phase = "channels"
    /\ \E i \in ToCreate : Make(i, "save")

\* The answer is lost: the request is sent again, or fails and the phase raises.
CreateLost ==
    /\ Creating /\ losses < MaxLosses
    /\ \E i \in ToCreate : made' = [made EXCEPT ![i] = @ + 1]
    /\ losses' = losses + 1
    /\ UNCHANGED <<dressed, layout, applied, disk, mem, mode, seen, frame, cancel, runs, ends, recounted, cutShort>>

\* Refusals: TooManyRoles ends the creation of roles.
RolesFull ==
    /\ Creating /\ phase = "roles" /\ todo # {} /\ losses < MaxLosses
    /\ losses' = losses + 1
    /\ todo' = {}
    /\ UNCHANGED <<service, disk, mem, mode, seen, phase, next, stage, hand, rest, cancel, runs, ends, recounted, cutShort>>

\* Mistake: the next step is the one of a channel, whatever was created.
SaveCreatedDressing ==
    /\ stage = "save"
    /\ disk' = mem
    /\ stage' = "dress"
    /\ UNCHANGED <<service, mem, mode, seen, phase, next, hand, todo, rest, cancel, bounds>>
SaveCreated ==
    /\ stage = "save"
    /\ disk' = mem
    /\ stage' = IF phase = "channels" THEN "dress" ELSE "loop"
    /\ UNCHANGED <<service, mem, mode, seen, phase, next, hand, todo, rest, cancel, bounds>>

\* An emoji is uploaded, created and recorded in memory; the end of the phase
\* saves it.
Remember(i) ==
    /\ made' = [made EXCEPT ![i] = @ + 1]
    /\ mem' = [mem EXCEPT !.map[i] = made[i] + 1]
    /\ todo' = todo \ {i}
    /\ UNCHANGED <<dressed, layout, applied, mode, seen, phase, next, stage, hand, rest, cancel, bounds>>

CreateEmoji ==
    /\ Creating /\ phase = "emoji"
    /\ \E i \in ToCreate : Remember(i)
    /\ UNCHANGED disk

\* An avatar is saved as well if the last save is five seconds old.
UploadAvatar ==
    /\ Creating /\ phase = "avatars"
    /\ \E i \in ToCreate : Remember(i)
    /\ disk' \in {disk, mem'}

\* A missing file, a failed download or a refused upload: reported, and left out.
LeaveOut ==
    /\ Creating /\ phase \in {"emoji", "avatars"} /\ losses < MaxLosses
    /\ \E i \in ToCreate : todo' = todo \ {i}
    /\ losses' = losses + 1
    /\ UNCHANGED <<service, disk, mem, mode, seen, phase, next, stage, hand, rest, cancel, runs, ends, recounted, cutShort>>

-----------------------------------------------------------------------------
(* Roles: attributes and permissions of the roles that are not finalized,  *)
(* the server's default, the order; then they are finalized.               *)

Unfinalized == Mapped(mem, Role) \ mem.finalized

StyleRoles ==
    /\ phase = "roles" /\ stage = "loop" /\ todo = {}
    /\ stage' = "colour" /\ todo' = Unfinalized
    /\ UNCHANGED <<service, disk, mem, mode, seen, phase, next, hand, rest, cancel, bounds>>

\* Colour, hoist and icon: a failure is a warning, and what the role looks like is
\* not followed here.
StyleRole ==
    /\ phase = "roles" /\ stage = "colour"
    /\ \E r \in todo : todo' = todo \ {r}
    /\ UNCHANGED <<service, disk, mem, mode, seen, phase, next, stage, hand, rest, cancel, bounds>>

GrantRoles ==
    /\ phase = "roles" /\ stage = "colour" /\ todo = {}
    /\ stage' = "grant" /\ todo' = Unfinalized \union {"server"}
    /\ UNCHANGED <<service, disk, mem, mode, seen, phase, next, hand, rest, cancel, bounds>>

Grant(i) ==
    /\ phase = "roles" /\ stage = "grant"
    /\ dressed' = dressed \union {Named(mem, i)}
    /\ todo' = todo \ {i}
    /\ UNCHANGED <<made, layout, applied, disk, mem, mode, seen, phase, next, stage, hand, rest, cancel, bounds>>

GrantRole == \E r \in todo \ {"server"} : Grant(r)

\* The permissions everyone has, after those of the roles.
GrantDefault == todo = {"server"} /\ Grant("server")

\* Mistake: the roles are finalized before their permissions are written.
FinalizeEarly ==
    /\ phase = "roles" /\ stage = "grant"
    /\ PhaseOver([mem EXCEPT !.finalized = @ \union Mapped(mem, Role)])
    /\ UNCHANGED service
FinalizeRoles ==
    /\ phase = "roles" /\ stage = "grant" /\ todo = {}
    /\ PhaseOver([mem EXCEPT !.finalized = @ \union Mapped(mem, Role)])
    /\ UNCHANGED service

-----------------------------------------------------------------------------
(* Categories and channels.                                                *)

\* The list is replaced as a whole, with no channels in it.
\* Mistake: also in an incremental run.
RunCategoriesAlways ==
    /\ phase = "categories"
    /\ layout' = [cats |-> SeenCategories, holds |-> {}]
    /\ PhaseOver([mem EXCEPT !.cats = @ \union SeenCategories])
    /\ UNCHANGED <<made, dressed, applied>>
RunCategories ==
    /\ phase = "categories"
    /\ layout' = IF SeenCategories \subseteq mem.cats \/ mode = "incremental" THEN layout
                 ELSE [cats |-> SeenCategories, holds |-> {}]
    /\ PhaseOver([mem EXCEPT !.cats = @ \union SeenCategories])
    /\ UNCHANGED <<made, dressed, applied>>

Placing(c) == [mem EXCEPT !.placed = @ \union {c}]

\* A channel that was created: its permissions are written and read back, which
\* needs every role.
\* Mistake: a failed write of the permissions is a warning too.
DressOrWarn ==
    /\ phase = "channels" /\ stage = "dress"
    /\ dressed' \in {dressed, dressed \union {Named(mem, hand)}}
    /\ stage' = "place"
    /\ UNCHANGED <<made, layout, applied, disk, mem, mode, seen, phase, next, hand, todo, rest, cancel, bounds>>
Dress ==
    /\ phase = "channels" /\ stage = "dress"
    /\ Role \subseteq Mapped(mem, Role)
    /\ dressed' = dressed \union {Named(mem, hand)}
    /\ stage' = "place"
    /\ UNCHANGED <<made, layout, applied, disk, mem, mode, seen, phase, next, hand, todo, rest, cancel, bounds>>

\* A role is missing: there is no plan for the channel, and the run stops.
PermissionStop(d) ==
    /\ phase = "channels" /\ stage = "dress"
    /\ dressed' = d
    /\ disk' = mem
    /\ mode' = "none" /\ cancel' = FALSE /\ mem' = EmptyState /\ Idle
    /\ UNCHANGED <<made, layout, applied, seen, runs, losses, recounted, cutShort>>

DressRefused ==
    /\ ~(Role \subseteq Mapped(mem, Role))
    /\ PermissionStop(dressed)
    /\ UNCHANGED ends

\* A write or the readback is uncertain: the writes are in effect or not.
DressUncertain ==
    /\ ends < MaxEnds /\ ends' = ends + 1
    /\ Role \subseteq Mapped(mem, Role)
    /\ \E d \in {dressed, dressed \union {Named(mem, hand)}} : PermissionStop(d)

\* The slow mode, whose failure is a warning; then the channel is placed in its
\* category.
Place ==
    /\ phase = "channels" /\ stage = "place"
    /\ mem' = Placing(hand) /\ disk' = mem'
    /\ stage' = "loop"
    /\ UNCHANGED <<made, dressed, layout, applied, mode, seen, phase, next, hand, todo, rest, cancel, bounds>>

\* A channel the record already names is only verified, then placed.
VerifyCarried ==
    /\ phase = "channels" /\ stage = "loop"
    /\ \E c \in Mapped(mem, todo) :
         /\ Named(mem, c) \in dressed
         /\ mem' = Placing(c) /\ disk' = mem'
         /\ todo' = todo \ {c}
    /\ UNCHANGED <<service, mode, seen, phase, next, stage, hand, rest, cancel, bounds>>

\* One PATCH replaces the list with every category and every channel on record.
\* Mistake: with those of this run's export.
UpsertSeenOnly ==
    /\ phase = "channels" /\ stage = "loop" /\ todo = {}
    /\ layout' = [cats |-> SeenCategories, holds |-> {Named(mem, c) : c \in seen}]
    /\ PhaseOver(mem)
    /\ UNCHANGED <<made, dressed, applied>>
UpsertCategories ==
    /\ phase = "channels" /\ stage = "loop" /\ todo = {}
    /\ layout' = [cats |-> mem.cats, holds |-> {Named(mem, c) : c \in mem.placed}]
    /\ PhaseOver(mem)
    /\ UNCHANGED <<made, dressed, applied>>

-----------------------------------------------------------------------------
(* Messages, reactions and pins.                                           *)

\* A message goes out behind the authority of its channel, and is saved with
\* the reactions and pins it needs.
SendMessage ==
    /\ phase = "messages"
    /\ \E f \in todo :
         /\ mem.map[Home[f]] # 0
         /\ mem' = [mem EXCEPT !.sent = @ \union {f}, !.pending = @ \union {f}]
         /\ todo' = todo \ {f}
    /\ disk' = mem'
    /\ UNCHANGED <<service, mode, seen, phase, next, stage, hand, rest, cancel, bounds>>

Following == phase \in {"reactions", "pins"}
Cap(f) == f \in Reaction /\ Cardinality({g \in mem.tally : Home[g] = Home[f]}) >= MaxReactions

\* Added, or already there: counted either way.
Apply ==
    /\ Following
    /\ \E f \in todo :
         /\ ~Cap(f)
         /\ applied' = applied \union {f}
         /\ mem' = [mem EXCEPT !.counted = @ + 1, !.tally = @ \union ({f} \cap Reaction)]
         /\ todo' = todo \ {f}
    /\ UNCHANGED <<made, dressed, layout, disk, mode, seen, phase, next, stage, hand, rest, cancel, bounds>>

\* Mistake: a reaction over the limit waits for a place.
SkipCappedWaiting == Following /\ UNCHANGED vars
SkipCapped ==
    /\ Following
    /\ \E f \in todo :
         /\ Cap(f)
         /\ mem' = [mem EXCEPT !.capped = @ \union {f}]
         /\ todo' = todo \ {f}
    /\ UNCHANGED <<service, disk, mode, seen, phase, next, stage, hand, rest, cancel, bounds>>

\* An error; the service may have done it all the same.
ApplyFails ==
    /\ Following /\ losses < MaxLosses
    /\ losses' = losses + 1
    /\ \E f \in todo :
         /\ ~Cap(f)
         /\ applied' \in {applied, applied \union {f}}
         /\ rest' = rest \union {f}
         /\ todo' = todo \ {f}
    /\ UNCHANGED <<made, dressed, layout, disk, mem, mode, seen, phase, next, stage, hand, cancel, runs, ends, recounted, cutShort>>

Others == mem.pending \ (IF phase = "reactions" THEN Reaction ELSE Pin)

\* The counters and what is left of the queue are saved together.
\* Mistake: the checkpoint saves the counters only.
CheckpointCountersOnly ==
    /\ Following
    /\ disk' = mem
    /\ UNCHANGED <<service, mem, mode, seen, frame, cancel, bounds>>
Checkpoint ==
    /\ Following
    /\ mem' = [mem EXCEPT !.pending = Others \union rest \union todo]
    /\ disk' = mem'
    /\ UNCHANGED <<service, mode, seen, frame, cancel, bounds>>

\* Mistake: what failed is dropped with what was applied.
SettleForgetting ==
    /\ Following /\ todo = {}
    /\ PhaseOver([mem EXCEPT !.pending = Others])
    /\ UNCHANGED service
Settle ==
    /\ Following /\ todo = {}
    /\ PhaseOver([mem EXCEPT !.pending = Others \union rest])
    /\ UNCHANGED service

-----------------------------------------------------------------------------
Next ==
    \/ \E m \in {"fresh"} \union Continuations : Begin(m)
    \/ Crash \/ RequestCancel \/ StopMessages \/ Interrupt \/ Raise
    \/ StopOnCancel \/ Skip \/ Enter \/ EndPhase \/ Report
    \/ CreateServer \/ CreateRole \/ CreateChannel \/ CreateLost \/ RolesFull \/ SaveCreated
    \/ CreateEmoji \/ UploadAvatar \/ LeaveOut
    \/ StyleRoles \/ StyleRole \/ GrantRoles \/ GrantRole \/ GrantDefault \/ FinalizeRoles
    \/ RunCategories \/ Dress \/ DressRefused \/ DressUncertain \/ Place
    \/ VerifyCarried \/ UpsertCategories
    \/ SendMessage \/ Apply \/ SkipCapped \/ ApplyFails \/ Checkpoint \/ Settle

Spec == Init /\ [][Next]_vars
=============================================================================
