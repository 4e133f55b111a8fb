--------------------------- MODULE MigrationProps ---------------------------
(* What the phases and the runs of a migration keep true together.         *)
EXTENDS Migration

Stages == [p \in {PHASE_ORDER[n] : n \in 1..Last} |->
    CASE p = "server" -> {"loop", "save"}
      [] p = "roles" -> {"loop", "save", "colour", "grant"}
      [] p = "categories" -> {"upsert"}
      [] p = "channels" -> {"loop", "save", "dress", "place"}
      [] OTHER -> {"loop"}]

TypeOK ==
    /\ made \in [Resource -> 0..MaxRuns + MaxLosses]
    /\ dressed \subseteq Durable \X Nat
    /\ layout \in [cats : SUBSET Category, holds : SUBSET (Channel \X Nat)]
    /\ applied \subseteq FollowUp
    /\ disk \in State /\ mem \in State
    /\ mode \in {"none", "fresh"} \union Continuations
    /\ seen \subseteq Channel
    /\ phase \in {"between"} \union DOMAIN Stages
    /\ next \in 1..Len(PHASE_ORDER)
    /\ stage \in (IF phase = "between" THEN {"loop"} ELSE Stages[phase])
    /\ hand \in Resource
    /\ todo \subseteq Resource \union FollowUp /\ rest \subseteq FollowUp
    /\ cancel \in BOOLEAN /\ recounted \in BOOLEAN /\ cutShort \in BOOLEAN
    /\ runs \in 0..MaxRuns /\ ends \in 0..MaxEnds /\ losses \in 0..MaxLosses

\* What a later run would know of the service.
Known == IF mode = "none" THEN disk ELSE mem

\* A server, a role or a channel the record does not name is one whose answer
\* was lost or whose run died before the save that follows its creation: no
\* run, however it continues an earlier one, creates such a resource twice.
Orphans(record) ==
    {o \in Durable \X (1..MaxRuns + MaxLosses) : o[2] <= made[o[1]] /\ o[2] # record.map[o[1]]}
OrphansExplained == Cardinality(Orphans(Known)) <= losses + ends

\* What a resumed run skips is done: past the channels phase every role is
\* finalized, every channel of the export exists and carries its permissions.  (An
\* interrupt that cut an earlier run short is another matter: ReportedIsSent.  So is
\* an incremental run that died before its first save: state.json holds the phase of
\* the run before it, which may have had another export.)
SkippedIsDone ==
    mode # "none" /\ ~cutShort /\ Rank(mem.phase) > Rank("channels") =>
        /\ Role \subseteq mem.finalized
        /\ seen \subseteq Mapped(mem, Channel)
        /\ \A i \in Role \union seen : Named(mem, i) \in dressed

\* A role on record as finalized, which later runs leave alone, carries its
\* permissions at the service, wherever the run that wrote them died.
FinalizedDressed == \A r \in disk.finalized : Named(disk, r) \in dressed

\* A message goes only to a channel that carries its permissions.
SentBehindAccess == \A f \in Known.sent : Named(Known, Home[f]) \in dressed

\* Past the channels phase the server lists every category and every channel on
\* record, also those a partial export of this run does not show.
LayoutComplete ==
    mode # "none" /\ ~cutShort /\ Rank(mem.phase) > Rank("channels") =>
        /\ mem.cats \subseteq layout.cats
        /\ {Named(mem, c) : c \in mem.placed \union seen} \subseteq layout.holds

\* An incremental run never takes a listed channel out of the server's list.
ListingKept == [][mode = "incremental" => layout.holds \subseteq layout'.holds]_vars

\* What leaves the queue of a run is in effect at the service, or was over the
\* limit of reactions of its message.
LeavesQueueApplied ==
    [][mode # "none" /\ mode' = mode => mem.pending \ mem'.pending \subseteq applied' \union mem'.capped]_vars

\* However often the process dies, a follow-up is counted at most once and is
\* never both counted and queued in state.json.
CountedOnce ==
    recounted \/ disk.counted + Cardinality(disk.pending) + Cardinality(disk.capped)
                   <= Cardinality(disk.sent)

\* The documentation (first-migration.md:264) has a run that is interrupted
\* with Ctrl+C continue with --resume: state.json is at its report, where a
\* resumed run skips every phase, only when the messages of the export are sent.
ReportedIsSent ==
    mode = "none" /\ disk.phase = "report" =>
        {f \in FollowUp : Home[f] \in seen} \subseteq disk.sent

\* Under weak fairness of the run's own steps every run that begins comes to an end.
Progress ==
    \/ StopMessages \/ StopOnCancel \/ Skip \/ Enter \/ EndPhase \/ Report
    \/ CreateServer \/ CreateRole \/ CreateChannel \/ SaveCreated \/ CreateEmoji \/ UploadAvatar
    \/ StyleRoles \/ StyleRole \/ GrantRoles \/ GrantRole \/ GrantDefault \/ FinalizeRoles
    \/ RunCategories \/ Dress \/ DressRefused \/ Place \/ VerifyCarried \/ UpsertCategories
    \/ SendMessage \/ Apply \/ SkipCapped \/ Settle
FairSpec == Spec /\ WF_vars(Progress)
RunEnds == mode # "none" ~> mode = "none"

\* What else holds of a migration throughout: the types, and the record against
\* the service, resource by resource and follow-up by follow-up.
MigrationInv ==
    /\ TypeOK
    /\ OrphansExplained
    /\ FinalizedDressed
    /\ SentBehindAccess
    /\ CountedOnce

\* What the phases past the channels, also of a resumed run that skips them, rely
\* on: every resource is there, dressed and in the server's list.
PastChannels == SkippedIsDone /\ LayoutComplete

\* No step takes a channel out of the list or a follow-up out of the queue undone.
NothingTakenBack == ListingKept /\ LeavesQueueApplied
=============================================================================
