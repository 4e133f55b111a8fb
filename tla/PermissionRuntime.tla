-------------------------- MODULE PermissionRuntime --------------------------
(***************************************************************************)
(* The permission runtime of one operation (core/permissions.py, class     *)
(* PermissionRuntime) with the coroutines that use it: reads bracketed by  *)
(* two fetches of the server (migrator/verify.py), the writers of          *)
(* migrator/structure.py and the deliveries of migrator/delivery.py.       *)
(* Migration, repair and backfill call the writers in different orders, so *)
(* here the jobs come in any order that has the roles first, one at a      *)
(* time; then the message workers run together.  A fact of the server is   *)
(* only right (as the plan expects it) or not.  People may change facts    *)
(* meanwhile.                                                              *)
(***************************************************************************)
EXTENDS Integers, FiniteSets

CONSTANTS
    Role, Channel,
    Needs,       \* the cells of a channel that the source fills: roles or Everyone
    Everyone,
    MaxSends, MaxFaults, MaxIntrusions

Cell == Role \union {Everyone}
Fact == Role \union {"default", "ranks"}
Thing == Fact \union Channel
Foreign == "foreign"   \* a channel cell outside of the plan

ASSUME PermissionAssumption ==
    /\ IsFiniteSet(Role) /\ IsFiniteSet(Channel) /\ Channel # {}
    /\ Needs \in [Channel -> SUBSET Cell]

VARIABLES
    off,        \* facts of the server's layout that are not as expected
    wrong,      \* cells of a channel that are not as the source has them
    bound,      \* roles and channels whose id is bound
    print,      \* how often the bindings changed (the fingerprint)
    authority,  \* the fingerprint a channel was verified under, 0 for none
    pending, confirmed, effects, stopped,
    mode,       \* jobs, then messages, then over
    at,         \* where the coroutine that works on a thing waits
    why,        \* what a read is for
    seen,       \* what a read has got so far
    todo,       \* cells still to write
    sends,      \* messages sent per channel
    changed,    \* a noted write took effect (history)
    lost,       \* noted writes that nobody settles any more (history)
    since,      \* the channel was right at some time since its read began (history)
    restored,   \* a layout that was off was put right between the parts of its read (history)
    clean,      \* no write of ours touched it since its read began (history)
    faults, intrusions   \* counted against their bounds

server == <<off, wrong>>
runtime == <<bound, print, authority, pending, confirmed, effects, stopped>>
client == <<mode, at, why, seen, todo, sends>>
bounds == <<faults, intrusions>>
vars == <<server, runtime, client, changed, lost, since, restored, clean, bounds>>

Right(c) == off = {} /\ wrong[c] = {}

\* Roles and channels that the plan found have ids; a new role has its facts and the
\* ranks still to be written.
Init ==
    /\ bound \in SUBSET (Role \union Channel)
    /\ off \in {(Role \ bound) \union (IF Role \subseteq bound THEN {} ELSE {"ranks"}) \union d
                  : d \in {{}, {"default"}}}
    /\ wrong \in [Channel -> {{}} \union {Needs[c] : c \in Channel}]
    /\ \A c \in Channel : wrong[c] = Needs[c] \/ (c \in bound /\ wrong[c] = {})
    /\ print = 1 /\ authority = [c \in Channel |-> 0]
    /\ pending = 0 /\ confirmed = FALSE /\ effects = "none" /\ stopped = FALSE
    /\ mode = "jobs" /\ at = [x \in Thing |-> "idle"] /\ why = [c \in Channel |-> "verify"]
    /\ seen = [c \in Channel |-> {}] /\ todo = [c \in Channel |-> {}]
    /\ sends = [c \in Channel |-> 0]
    /\ changed = FALSE /\ lost = 0
    /\ since = [c \in Channel |-> FALSE] /\ restored = [c \in Channel |-> FALSE]
    /\ clean = [c \in Channel |-> FALSE]
    /\ faults = 0 /\ intrusions = 0

-----------------------------------------------------------------------------
(* The runtime.                                                            *)

NoAuthority == [c \in Channel |-> 0]

\* verified: computed whenever authority changes.
Verified == ~stopped /\ \A c \in Channel : c \in bound /\ authority[c] # 0

\* note_write: refused when stopped.
Noted == ~stopped /\ pending' = pending + 1 /\ effects' = "possible" /\ UNCHANGED confirmed

\* _settle_write: nothing after a stop.
EffectsOfLast(n, b) == IF b THEN "confirmed" ELSE "none"
EffectsOf(n, b) == IF n > 0 THEN "possible" ELSE IF b THEN "confirmed" ELSE "none"
Settled(b) ==
    /\ ~stopped
    /\ pending' = pending - 1 /\ confirmed' = (confirmed \/ b)
    /\ effects' = EffectsOf(pending', confirmed')
UnsettledAsRejected == Settled(FALSE)
Unsettled == UNCHANGED <<pending, confirmed, effects>>

\* bind_role, bind_channel: the fingerprint changes and every proof goes.
RebindOnly(x) == /\ bound' = bound \union {x} /\ print' = print + 1
                 /\ UNCHANGED authority
Rebind(x) == /\ bound' = bound \union {x} /\ print' = print + 1
             /\ authority' = NoAuthority

\* require: a proof of this channel under these bindings.
Proved(c) == authority[c] = print

\* stop: the first one; what the other coroutines wait for is cancelled with it.
InFlight == {x \in Thing : at[x] \in {"creating", "writing", "sending"}}
Stop ==
    /\ stopped' = TRUE /\ authority' = NoAuthority
    /\ mode' = "over" /\ at' = [x \in Thing |-> "idle"]
    /\ lost' = lost + Cardinality(InFlight)
    /\ UNCHANGED <<bound, print, pending, confirmed, effects, why, seen, todo, sends>>

Goes(x, s) == at' = [at EXCEPT ![x] = s]
Fault == faults < MaxFaults /\ faults' = faults + 1
NoFault == UNCHANGED faults
Alone == mode = "jobs" /\ \A x \in Thing : at[x] = "idle"
RolesBound == Role \subseteq bound

\* What a write of ours, begun now, leaves of the evidence about channels.
Soiled(S) == clean' = [c \in Channel |-> clean[c] /\ c \notin S]

-----------------------------------------------------------------------------
(* Writers.                                                                *)

\* api_create_role, api_create_channel.
Create(x) ==
    /\ Alone /\ x \notin bound /\ (x \in Role \/ RolesBound)
    /\ Noted /\ Goes(x, "creating")
    /\ UNCHANGED <<server, bound, print, authority, stopped, mode, why, seen, todo, sends, changed,
                   lost, clean, bounds>>
Created(x) ==
    /\ at[x] = "creating"
    /\ Settled(TRUE) /\ Rebind(x)
    /\ changed' = TRUE
    /\ Goes(x, "idle")
    /\ NoFault
    /\ UNCHANGED <<server, stopped, mode, why, seen, todo, sends, lost, clean, intrusions>>
\* A failed creation ends the operation, or a voice channel is created as text.
NotCreated(x) ==
    /\ at[x] = "creating"
    /\ Fault
    /\ changed' \in {changed, TRUE}
    /\ \/ /\ mode' = "over" /\ Goes(x, "idle") /\ lost' = lost + 1
          /\ Unsettled /\ UNCHANGED <<bound, print, authority, stopped, why, seen, todo, sends>>
       \/ /\ x \in Channel /\ Noted /\ lost' = lost + 1
          /\ UNCHANGED <<bound, print, authority, stopped, client>>
       \/ Stop
    /\ UNCHANGED <<server, clean, intrusions>>

\* apply_role_permissions, _apply_server_default_permissions, _apply_role_ordering:
\* authorize_* drops every proof before the write is noted.
WriteLayoutOnly(f) ==
    /\ Alone /\ RolesBound
    /\ Noted /\ UNCHANGED authority
    /\ Goes(f, "writing") /\ Soiled(Channel)
    /\ UNCHANGED <<server, bound, print, stopped, mode, why, seen, todo, sends, changed, lost, bounds>>
WriteLayout(f) ==
    /\ Alone /\ RolesBound
    /\ Noted /\ authority' = NoAuthority
    /\ Goes(f, "writing") /\ Soiled(Channel)
    /\ UNCHANGED <<server, bound, print, stopped, mode, why, seen, todo, sends, changed, lost, bounds>>
LayoutWritten(f) ==
    /\ f \in Fact /\ at[f] = "writing"
    /\ off' = off \ {f} /\ changed' = TRUE
    /\ Settled(TRUE) /\ Goes(f, "idle") /\ NoFault
    /\ UNCHANGED <<wrong, bound, print, authority, stopped, mode, why, seen, todo, sends, lost, clean,
                   intrusions>>

\* apply_channel_permissions: cell by cell, then read back.
WriteCell(c) ==
    /\ at[c] = "applying" /\ todo[c] # {}
    /\ Noted /\ Goes(c, "writing") /\ Soiled({c})
    /\ UNCHANGED <<server, bound, print, authority, stopped, mode, why, seen, todo, sends, changed,
                   lost, bounds>>
CellWritten(c) ==
    /\ c \in Channel /\ at[c] = "writing"
    /\ \E k \in todo[c] :
          /\ wrong' = [wrong EXCEPT ![c] = @ \ {k}]
          /\ todo' = [todo EXCEPT ![c] = @ \ {k}]
    /\ changed' = TRUE
    /\ Settled(TRUE) /\ Goes(c, "applying") /\ NoFault
    /\ UNCHANGED <<off, bound, print, authority, stopped, mode, why, seen, sends, lost, clean,
                   intrusions>>

\* A write that fails or is cancelled may have taken effect.
WriteFails(x) ==
    /\ at[x] = "writing"
    /\ Fault
    /\ \/ UNCHANGED <<server, changed>>
       \/ /\ changed' = TRUE
          /\ off' = off \ {x}
          /\ wrong' = IF x \in Channel THEN [wrong EXCEPT ![x] = @ \ todo[x]] ELSE wrong
    /\ Stop
    /\ UNCHANGED <<clean, intrusions>>

-----------------------------------------------------------------------------
(* Reads.                                                                  *)

BeginRead(c, w) ==
    /\ c \in bound /\ RolesBound /\ ~stopped
    /\ authority' = [authority EXCEPT ![c] = 0]   \* invalidate_channel
    /\ why' = [why EXCEPT ![c] = w]
    /\ seen' = [seen EXCEPT ![c] = {}]
    /\ Goes(c, "server")
    /\ clean' = [clean EXCEPT ![c] = TRUE]
    /\ UNCHANGED <<server, bound, print, pending, confirmed, effects, stopped, mode, todo, sends,
                   changed, lost, bounds>>

ApplyChannel(c) == Alone /\ BeginRead(c, "apply")
VerifyChannel(c) == Alone /\ BeginRead(c, "verify")
ReadBack(c) == at[c] = "applying" /\ todo[c] = {} /\ BeginRead(c, "verify")
StartWorker(c) == mode = "messages" /\ at[c] = "idle" /\ sends[c] = 0 /\ BeginRead(c, "verify")

\* _read_permission_context: the server, the channel, the server once more.
ReadPart(c) ==
    /\ \/ /\ at[c] = "server" /\ Goes(c, "channel")
          /\ seen' = [seen EXCEPT ![c] = off]
       \/ /\ at[c] = "channel" /\ Goes(c, "again")
          /\ seen' = [seen EXCEPT ![c] = @ \union wrong[c]]
    /\ UNCHANGED <<server, runtime, mode, why, todo, sends, changed, lost, clean, bounds>>

ReadAgain(c) == at[c] = "again"

\* _observed_context: the layout as expected, nothing foreign; then the source's access.
FirstLayout(c) == seen[c] \intersect (Fact \union {Foreign}) = {}
SettledLayout(c) == off = {} /\ seen[c] \intersect (Fact \union {Foreign}) = {}
Verify(c) ==
    /\ ReadAgain(c) /\ SettledLayout(c) /\ seen[c] = {}
    /\ authority' = [authority EXCEPT ![c] = print]
    /\ Goes(c, IF mode = "messages" THEN "ready" ELSE "idle")
    /\ UNCHANGED <<server, bound, print, pending, confirmed, effects, stopped, mode, why, seen, todo,
                   sends, changed, lost, clean, bounds>>

\* application_plan: every cell is written when one does not match.
Propose(c) ==
    /\ ReadAgain(c) /\ SettledLayout(c) /\ seen[c] # {} /\ why[c] = "apply"
    /\ todo' = [todo EXCEPT ![c] = Cell]
    /\ Goes(c, "applying")
    /\ UNCHANGED <<server, runtime, mode, why, seen, sends, changed, lost, clean, bounds>>

Mismatch(c) ==
    /\ ReadAgain(c) /\ (~SettledLayout(c) \/ (seen[c] # {} /\ why[c] = "verify"))
    /\ Stop
    /\ UNCHANGED <<server, changed, clean, bounds>>
ReadFails(c) ==
    /\ at[c] \in {"server", "channel", "again"}
    /\ Fault /\ Stop
    /\ UNCHANGED <<server, changed, clean, intrusions>>

-----------------------------------------------------------------------------
(* Content: by a repair inline, by the message workers together.           *)

Dispatch(c) ==
    /\ \/ Alone /\ RolesBound /\ c \in bound
       \/ at[c] = "ready"
    /\ sends[c] < MaxSends
    /\ Proved(c) /\ Noted
    /\ sends' = [sends EXCEPT ![c] = @ + 1]
    /\ Goes(c, "sending")
    /\ UNCHANGED <<server, bound, print, authority, stopped, mode, why, seen, todo, changed, lost,
                   clean, bounds>>

Refuse(c) ==
    /\ \/ Alone /\ RolesBound /\ c \in bound
       \/ at[c] = "ready"
    /\ sends[c] < MaxSends /\ ~Proved(c)
    /\ Stop
    /\ UNCHANGED <<server, changed, clean, bounds>>

After(c) == Goes(c, IF mode = "messages" THEN "ready" ELSE "idle")
Acked(c) ==
    /\ at[c] = "sending" /\ changed' = TRUE
    /\ Settled(TRUE) /\ After(c) /\ UNCHANGED lost /\ NoFault
    /\ UNCHANGED <<server, bound, print, authority, stopped, mode, why, seen, todo, sends, clean,
                   intrusions>>
Rejected(c) ==
    /\ at[c] = "sending"
    /\ Settled(FALSE) /\ After(c) /\ Fault
    /\ UNCHANGED <<server, bound, print, authority, stopped, mode, why, seen, todo, sends, changed,
                   lost, clean, intrusions>>
\* An answer that is lost is not settled, found in the history or not.
Unknown(c) ==
    /\ at[c] = "sending"
    /\ changed' \in {changed, TRUE} /\ lost' = lost + 1
    /\ Unsettled /\ After(c) /\ Fault
    /\ UNCHANGED <<server, bound, print, authority, stopped, mode, why, seen, todo, sends, clean,
                   intrusions>>

-----------------------------------------------------------------------------
ToMessages ==
    /\ Alone /\ Role \union Channel \subseteq bound
    /\ mode' = "messages"
    /\ sends' = [c \in Channel |-> 0]
    /\ UNCHANGED <<server, runtime, at, why, seen, todo, changed, lost, clean, bounds>>
End ==
    /\ mode # "over" /\ \A x \in Thing : at[x] \in {"idle", "ready"}
    /\ mode' = "over"
    /\ at' = [x \in Thing |-> "idle"]
    /\ UNCHANGED <<server, runtime, why, seen, todo, sends, changed, lost, clean, bounds>>

\* The user cancels: a call in flight may have taken effect.
Cancel ==
    /\ mode # "over" /\ ~stopped /\ Fault
    /\ changed' \in {changed, changed \/ InFlight # {}}
    /\ Stop
    /\ UNCHANGED <<server, clean, intrusions>>

\* Other people change a fact or a cell, or put one right.
Intrude ==
    /\ intrusions < MaxIntrusions /\ intrusions' = intrusions + 1
    /\ mode # "over"
    /\ \/ \E f \in Fact : off' \in {off \union {f}, off \ {f}} \ {off} /\ UNCHANGED wrong
       \/ \E c \in bound \intersect Channel : \E k \in Needs[c] \union {Foreign} :
             /\ wrong' \in {[wrong EXCEPT ![c] = @ \union {k}], [wrong EXCEPT ![c] = @ \ {k}]} \ {wrong}
             /\ UNCHANGED off
    /\ UNCHANGED <<runtime, client, changed, lost, clean, faults>>

Step ==
    \/ \E x \in Role \union Channel : Create(x) \/ Created(x) \/ NotCreated(x)
    \/ \E f \in Fact : WriteLayout(f) \/ LayoutWritten(f)
    \/ \E x \in Thing : WriteFails(x)
    \/ \E c \in Channel :
          \/ WriteCell(c) \/ CellWritten(c)
          \/ ApplyChannel(c) \/ VerifyChannel(c) \/ ReadBack(c) \/ StartWorker(c)
          \/ ReadPart(c) \/ Verify(c) \/ Propose(c) \/ Mismatch(c) \/ ReadFails(c)
          \/ Dispatch(c) \/ Refuse(c) \/ Acked(c) \/ Rejected(c) \/ Unknown(c)
    \/ ToMessages \/ End \/ Cancel \/ Intrude

Begins(c) == at[c] # "server" /\ at'[c] = "server"
Watch ==
    /\ since' = [c \in Channel |->
          IF Begins(c) THEN Right(c)' ELSE since[c] \/ Right(c)']
    /\ restored' = [c \in Channel |->
          ~Begins(c) /\ (restored[c] \/ (at[c] \in {"channel", "again"} /\ off # {} /\ off' = {}))]

Next == Step /\ Watch

Spec == Init /\ [][Next]_vars
=============================================================================
