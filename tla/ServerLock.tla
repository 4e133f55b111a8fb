----------------------------- MODULE ServerLock -----------------------------
(***************************************************************************)
(* The advisory lock kept in the server's description (core/engine.py,     *)
(* _acquire_migration_lock and _release_migration_lock; the server phase   *)
(* of migrator/structure.py rewrites the same text).                       *)
(*                                                                         *)
(* The description is the sequence of its lock markers; the words around   *)
(* them are left out.  Every operation reads the whole text, computes the  *)
(* new one and writes it back, so each is two steps here.                  *)
(***************************************************************************)
EXTENDS Naturals, FiniteSets, Sequences

CONSTANTS
    Rollback,     \* the program rolling back: it stops when it has no lock
    Migrations,   \* programs migrating: they go on without one
    MaxStarts,    \* bound: starts of all programs
    MaxFaults     \* bound: failed calls, deaths and markers growing old

Instance == {Rollback} \union Migrations

ASSUME ServerLockAssumption ==
    /\ Rollback \notin Migrations /\ IsFiniteSet(Migrations)
    /\ MaxStarts \in Nat /\ MaxFaults \in Nat

VARIABLES
    desc,    \* the markers in the server's description
    aged,    \* markers older than _LOCK_EXPIRY_SECONDS
    stage,   \* what each program is doing with the lock
    read,    \* the description each program fetched
    marker,  \* state.migration_lock_marker of each program, <<>> for ""
    force,   \* config.force_unlock
    starts,  \* starts so far; they also number the markers
    faults,  \* faults so far
    left,    \* markers whose program died or did not learn of its write (history)
    unsure   \* two programs may believe they hold the lock (history)

lockVars == <<desc, aged, stage, read, marker, force, starts, faults, left, unsure>>

Marker == Instance \X (1..MaxStarts)
Holding(p) == stage[p] = "locked"
Idle(p) == stage[p] = "idle"
AtRest(p) == stage[p] \in {"idle", "locked", "unlocked"}

\* Another program between its fetch and its write.
Overlaps(p) == \E q \in Instance \ {p} : ~AtRest(q)

LockInit ==
    /\ desc = <<>> /\ aged = {}
    /\ stage = [p \in Instance |-> "idle"]
    /\ read = [p \in Instance |-> <<>>]
    /\ marker = [p \in Instance |-> <<>>]
    /\ force = [p \in Instance |-> FALSE]
    /\ starts = 0 /\ faults = 0 /\ left = {} /\ unsure = FALSE

Fault == faults < MaxFaults /\ faults' = faults + 1
Goes(p, s) == stage' = [stage EXCEPT ![p] = s]
Rests(p, s) == /\ Goes(p, s)
               /\ read' = [read EXCEPT ![p] = <<>>]
               /\ force' = [force EXCEPT ![p] = FALSE]

-----------------------------------------------------------------------------
(* _acquire_migration_lock.                                                *)

\* api_fetch_server answers.
Ask(p, forced) ==
    /\ Idle(p) /\ starts < MaxStarts
    /\ starts' = starts + 1
    /\ force' = [force EXCEPT ![p] = forced]
    /\ read' = [read EXCEPT ![p] = desc]
    /\ Goes(p, "asked")
    /\ unsure' = (unsure \/ Overlaps(p))
    /\ UNCHANGED <<desc, aged, marker, faults, left>>

\* What a program does without the lock: a rollback stops, a migration goes on.
Lockless(p) == Rests(p, IF p = Rollback THEN "idle" ELSE "unlocked")

\* It does not answer, and no lock is tried.
AskFails(p) ==
    /\ Idle(p) /\ starts < MaxStarts /\ Fault
    /\ starts' = starts + 1
    /\ Lockless(p)
    /\ UNCHANGED <<desc, aged, marker, left, unsure>>

LiveLock(p) == read[p] # <<>> /\ Head(read[p]) \notin aged

\* MigrationError: another migration is in progress.
Refused(p) ==
    /\ stage[p] = "asked" /\ LiveLock(p) /\ ~force[p]
    /\ Rests(p, "idle")
    /\ UNCHANGED <<desc, aged, marker, starts, faults, left, unsure>>

\* The first marker goes, whatever its age once it may be overridden, and the
\* program's own is put at the end.
OwnMarker(p) == <<p, starts>>
ReplacedBeside(p, m) == read[p] \o <<m>>
Replaced(p, m) == (IF read[p] = <<>> THEN <<>> ELSE Tail(read[p])) \o <<m>>
MayWrite(p) == stage[p] = "asked" /\ (~LiveLock(p) \/ force[p])

\* Taking it from a program that may still be at work.
TakesOver(p) == read[p] # <<>> /\ Head(read[p]) \notin left

Acquire(p) ==
    /\ MayWrite(p)
    /\ desc' = Replaced(p, OwnMarker(p))
    /\ marker' = [marker EXCEPT ![p] = OwnMarker(p)]
    /\ Rests(p, "locked")
    /\ unsure' = (unsure \/ Overlaps(p) \/ TakesOver(p))
    /\ UNCHANGED <<aged, starts, faults, left>>

\* The PATCH fails, or only its answer is lost and the marker stays.
AcquireFails(p) ==
    /\ MayWrite(p) /\ Fault
    /\ \/ UNCHANGED <<desc, left, unsure>>
       \/ /\ desc' = Replaced(p, OwnMarker(p))
          /\ left' = left \union {OwnMarker(p)}
          /\ unsure' = (unsure \/ Overlaps(p) \/ TakesOver(p))
    /\ Lockless(p)
    /\ UNCHANGED <<aged, marker, starts>>

-----------------------------------------------------------------------------
(* The server phase of a migration sets the guild's description, and puts  *)
(* the program's own marker behind it.                                     *)
TextBare(m) == <<>>
Text(m) == IF m = <<>> THEN <<>> ELSE <<m>>
Describe(p) ==
    /\ p \in Migrations /\ stage[p] \in {"locked", "unlocked"}
    /\ desc' = Text(marker[p])
    /\ unsure' = (unsure \/ \E i \in DOMAIN desc : desc[i] # marker[p])
    /\ UNCHANGED <<aged, stage, read, marker, force, starts, faults, left>>

-----------------------------------------------------------------------------
(* _release_migration_lock, in the finally of both programs.               *)

AskRelease(p) ==
    /\ Holding(p)
    /\ read' = [read EXCEPT ![p] = desc]
    /\ Goes(p, "releasing")
    /\ UNCHANGED <<desc, aged, marker, force, starts, faults, left, unsure>>

\* Without a marker there is no PATCH.  The first one goes, also when it is
\* another program's.
Release(p) ==
    /\ stage[p] = "releasing"
    /\ desc' = IF read[p] = <<>> THEN desc ELSE Tail(read[p])
    /\ marker' = [marker EXCEPT ![p] = <<>>]
    /\ Rests(p, "idle")
    /\ unsure' = (unsure \/ (read[p] # <<>> /\ (Head(read[p]) # marker[p] \/ desc # read[p])))
    /\ UNCHANGED <<aged, starts, faults, left>>

\* A failure is a warning, and the marker may stay.
ReleaseFails(p) ==
    /\ stage[p] \in {"locked", "releasing"} /\ Fault
    /\ left' = left \union {marker[p]}
    /\ marker' = [marker EXCEPT ![p] = <<>>]
    /\ Rests(p, "idle")
    /\ UNCHANGED <<desc, aged, starts, unsure>>

\* A migration without the lock has nothing to release.
LeaveUnlocked(p) ==
    /\ stage[p] = "unlocked"
    /\ Goes(p, "idle")
    /\ UNCHANGED <<desc, aged, read, marker, force, starts, faults, left, unsure>>

-----------------------------------------------------------------------------
Die(p) ==
    /\ ~Idle(p) /\ Fault
    /\ left' = left \union (IF marker[p] = <<>> THEN {} ELSE {marker[p]})
    /\ marker' = [marker EXCEPT ![p] = <<>>]
    /\ Rests(p, "idle")
    /\ UNCHANGED <<desc, aged, starts, unsure>>

GrowOld ==
    /\ \E i \in DOMAIN desc : desc[i] \notin aged /\ aged' = aged \union {desc[i]}
    /\ Fault
    /\ UNCHANGED <<desc, stage, read, marker, force, starts, left, unsure>>

=============================================================================
