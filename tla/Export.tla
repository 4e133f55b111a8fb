-------------------------------- MODULE Export --------------------------------
(***************************************************************************)
(* The export phase over several runs (core/engine.py, run_migration up to *)
(* the phases that use the export; exporter/staging.py, inventory.py).  A  *)
(* fresh or resumed run exports into config.export_dir.  An incremental    *)
(* run exports into a new stage, asks only for newer messages when it can  *)
(* prove that nothing is missed, and adopts the stage by saving a witness. *)
(* What the messages phase makes of an export is one step per channel.     *)
(***************************************************************************)
EXTENDS DceInstall, ExportProcess

CONSTANTS
    FirstLive, FirstPosts,   \* Discord at the start
    MaxTrouble,              \* messages, cancels, failures and deaths
    MaxRuns

ASSUME ExportAssumption ==
    /\ IsFiniteSet(Source)
    /\ FirstLive \subseteq Source /\ FirstPosts \in Seq(Source)
    /\ {MaxTrouble, MaxRuns, MaxStages} \subseteq Nat
    /\ MaxStages >= 2 * MaxRuns

VARIABLES
    saved,      \* state.json
    mem,        \* the run's MigrationState
    old,        \* a fresh run's export_checkpoint_state
    prev,       \* what the earlier export was: [completed, warned, startedAt]
    mode,       \* "fresh", "resume" or "incremental"
    step,       \* where the run is
    inv,        \* the inventory: [ids, left, complete]
    decision,   \* ExportDecision
    stage,      \* active_export_dir
    seed,       \* where media is kept from; -1 if nowhere
    previous,   \* the stage of the witness before this one; 0 if none
    nextStage,  \* a name nobody used (uuid4)
    metaAt,     \* the run that fetched discord_metadata.json; 0 if none
    todo,       \* the channels the messages phase has left
    staged,     \* some stage was adopted in this output folder (history)
    spoilt,     \* and unfinished media was kept in or from the export folder since (history)
    runs, trouble

run == <<mem, old, prev, mode, step, inv, decision, stage, seed, previous, todo>>
history == <<staged, spoilt>>
counters == <<runs, trouble>>
vars == <<installVars, processVars, saved, run, nextStage, metaAt, history, counters>>

NoWitness == [stage |-> 0, ids |-> {}, scope |-> "none", covered |-> FALSE]
NoState == [started |-> 0]
NewState(r) ==
    [started |-> r, completed |-> FALSE, warned |-> FALSE, witness |-> NoWitness,
     highWater |-> [s \in Source |-> NoNumber], map |-> {}, failed |-> {}, copied |-> {}]
NoPrev == [completed |-> FALSE, warned |-> FALSE, started |-> 0]
NoInventory == [ids |-> {}, left |-> {}, complete |-> FALSE]
Full(ids) == [scope |-> "full", expected |-> ids, after |-> 0]

Idle ==
    /\ mem' = NoState /\ old' = NoState /\ prev' = NoPrev /\ mode' = "none"
    /\ step' = "idle" /\ inv' = NoInventory /\ decision' = Full({}) /\ stage' = 0
    /\ seed' = 0 /\ previous' = 0 /\ todo' = {}

Init ==
    /\ InstallInit /\ ProcessInit
    /\ live = FirstLive /\ posts = FirstPosts
    /\ saved = NoState /\ mem = NoState /\ old = NoState /\ prev = NoPrev
    /\ mode = "none" /\ step = "idle" /\ inv = NoInventory /\ decision = Full({})
    /\ stage = 0 /\ seed = 0 /\ previous = 0 /\ todo = {}
    /\ nextStage = 1 /\ metaAt = 0 /\ staged = FALSE /\ spoilt = FALSE
    /\ runs = 0 /\ trouble = 0

At(s) == step = s
Go(s) == step' = s
Trouble == trouble < MaxTrouble /\ trouble' = trouble + 1 /\ UNCHANGED runs

-----------------------------------------------------------------------------
(* Discord goes on.  What happens there in a step that reads nothing of it *)
(* might as well happen in the next one that does.                         *)

Post(s) ==
    /\ step \in {"idle", "export"}
    /\ s \in live
    /\ Trouble
    /\ posts' = Append(posts, s)
    /\ UNCHANGED <<installVars, live, dirs, childVars, saved, run, nextStage, metaAt, history>>

\* A channel or thread appears, or goes.
Channels(s) ==
    /\ step \in {"idle", "inventory", "export"}
    /\ Trouble
    /\ live' = IF s \in live THEN live \ {s} ELSE live \union {s}
    /\ UNCHANGED <<installVars, posts, dirs, childVars, saved, run, nextStage, metaAt, history>>

-----------------------------------------------------------------------------
(* A run begins.                                                           *)

Facts(s) == [completed |-> s.completed, warned |-> s.warned, started |-> s.started]

\* The carry-over of an incremental run: maps, marks, failures and the witness;
\* warnings, completed channels and export_completed start anew.
Carried(s, r) ==
    [NewState(r) EXCEPT !.witness = s.witness, !.highWater = s.highWater,
                        !.map = s.map, !.failed = s.failed]

Start(m) ==
    /\ At("idle") /\ runs < MaxRuns
    /\ m = "resume" => saved # NoState
    /\ runs' = runs + 1
    /\ mode' = m /\ Go("token")
    /\ prev' = IF saved = NoState THEN NoPrev ELSE Facts(saved)
    /\ mem' = CASE m = "resume" -> saved
                [] m = "incremental" /\ saved # NoState -> Carried(saved, runs')
                [] OTHER -> NewState(runs')
    /\ old' = IF m = "fresh" THEN saved ELSE NoState
    /\ UNCHANGED <<installVars, processVars, saved, inv, decision, stage, seed, previous,
                   nextStage, metaAt, todo, history, trouble>>

\* validate_discord_token
ValidateToken ==
    /\ At("token")
    /\ Go("dce")
    /\ UNCHANGED <<installVars, processVars, saved, mem, old, prev, mode, inv, decision, stage,
                   seed, previous, nextStage, metaAt, todo, history, counters>>

\* 401, too many 5xx, no network; or DiscordAuthError from the inventory.
Refused ==
    /\ step \in {"token", "inventory"}
    /\ Trouble
    /\ Idle
    /\ UNCHANGED <<installVars, processVars, saved, nextStage, metaAt, history>>

\* get_dce_path, and download_dce if it finds nothing.
FindDce ==
    /\ At("dce") /\ installing = "no" /\ GetDcePath # "none"
    /\ IF mode = "incremental"
       THEN Go("inventory") /\ inv' = [ids |-> {}, left |-> Source, complete |-> TRUE]
       ELSE Go("seed") /\ UNCHANGED inv
    /\ UNCHANGED <<installVars, processVars, saved, mem, old, prev, mode, decision, stage,
                   seed, previous, nextStage, metaAt, todo, history, counters>>

InstallStep ==
    /\ At("dce")
    /\ \/ StartInstall \/ Download("pinned")
       \/ \E skip \in BOOLEAN : Verify(skip)
       \/ Extract \/ ExtractDone \/ Replace
    /\ UNCHANGED <<processVars, saved, run, nextStage, metaAt, history, counters>>

InstallTrouble ==
    /\ At("dce") /\ Trouble
    /\ Download("other") \/ DownloadAgain
    /\ UNCHANGED <<processVars, saved, run, nextStage, metaAt, history>>

InstallFails ==
    /\ At("dce")
    /\ \/ DownloadFails /\ Trouble
       \/ (HashMismatch \/ ExtractFails) /\ UNCHANGED counters
    /\ Idle
    /\ UNCHANGED <<processVars, saved, nextStage, metaAt, history>>

-----------------------------------------------------------------------------
(* How much to ask for.                                                    *)

\* fetch_export_source_ids: the channels, then the threads of each, page by page.
ReadPage(s) ==
    /\ At("inventory") /\ s \in inv.left
    /\ inv' = [inv EXCEPT !.left = @ \ {s}, !.ids = @ \union ({s} \intersect live)]
    /\ UNCHANGED <<installVars, processVars, saved, mem, old, prev, mode, step, decision, stage,
                   seed, previous, nextStage, metaAt, todo, history, counters>>

\* No answer, or a malformed page: ids unknown.
InventoryFails ==
    /\ At("inventory") /\ inv.left # {}
    /\ Trouble
    /\ inv' = NoInventory
    /\ UNCHANGED <<installVars, processVars, saved, mem, old, prev, mode, step, decision, stage,
                   seed, previous, nextStage, metaAt, todo, history>>

\* inspect_stage: every file parses; the witness is what is there.
Inspectable(d) == dirs[d].made /\ dirs[d].torn = {}

\* validated_stage_path
OnDisk(w) == dirs[w.stage].made

\* _has_complete_full_witness
HasCompleteFullWitness(w, ids) ==
    /\ w.scope = "full" /\ w.covered /\ w.ids = ids
    /\ OnDisk(w) /\ Inspectable(w.stage) /\ dirs[w.stage].files = w.ids

\* The lowest id nothing older than which is missing.
AfterLatest(ids) == Max({mem.highWater[s] : s \in ids} \union {n - 1 : n \in mem.failed})
After(ids) == Min({mem.highWater[s] : s \in ids} \union {n - 1 : n \in mem.failed})

\* select_export_decision
Bounded ==
    /\ inv.complete /\ inv.ids # {}
    /\ HasCompleteFullWitness(mem.witness, inv.ids)
    /\ \A s \in inv.ids : mem.highWater[s] # NoNumber
    /\ \A n \in mem.failed : posts[n] \in inv.ids

\* A new folder of Ferry's own.
CreateStage ==
    /\ stage' = nextStage /\ nextStage' = nextStage + 1

Decide ==
    /\ At("inventory") /\ inv.left = {}
    /\ decision' = IF Bounded
                   THEN [scope |-> "bounded", expected |-> inv.ids, after |-> After(inv.ids)]
                   ELSE Full(inv.ids)
    /\ inv' = NoInventory
    /\ CreateStage
    /\ dirs' = [dirs EXCEPT ![stage'] = [Gone EXCEPT !.made = TRUE]]
    /\ Go("seed")
    /\ UNCHANGED <<installVars, discord, childVars, saved, mem, old, prev, mode, seed, previous,
                   metaAt, todo, history, counters>>

-----------------------------------------------------------------------------
(* Which media to keep, and the export.                                    *)

\* read_cached_metadata
Cached == metaAt # 0

\* _export_media_reuse_policy
ReusePolicy(d) ==
    /\ prev.completed /\ ~prev.warned
    /\ dirs[d].made
    /\ Cached /\ metaAt >= prev.started

\* _media_seed_source: the adopted stage, or without one the export folder.
SeedSource ==
    LET w == mem.witness
        d == IF w = NoWitness THEN 0 ELSE w.stage
        usable == IF w = NoWitness THEN TRUE ELSE HasCompleteFullWitness(w, w.ids)
    IN IF usable /\ ReusePolicy(d) THEN d ELSE -1

\* A stage gets a copy; a run into the export folder keeps what is there.
SeedMedia ==
    /\ At("seed")
    /\ seed' = SeedSource
    /\ dirs' = IF SeedSource = -1 \/ stage = 0 THEN dirs
               ELSE [dirs EXCEPT ![stage].media = dirs[SeedSource].media]
    /\ Go("checkpoint")
    /\ UNCHANGED <<installVars, discord, childVars, saved, mem, old, prev, mode, inv, decision,
                   stage, previous, nextStage, metaAt, todo, history, counters>>

\* seed_stage_media: all of it, or nothing that counts.
SeedFails ==
    /\ At("seed") /\ SeedSource # -1 /\ stage # 0
    /\ Trouble
    /\ seed' = -1
    /\ dirs' = [dirs EXCEPT ![stage].media = "partial"]
    /\ Go("checkpoint")
    /\ UNCHANGED <<installVars, discord, childVars, saved, mem, old, prev, mode, inv, decision,
                   stage, previous, nextStage, metaAt, todo, history>>

\* The record says the export is not complete before the first file changes.
CheckpointOwn ==
    LET m == [mem EXCEPT !.completed = FALSE] IN
    IF mode # "fresh" THEN mem' = m /\ saved' = m ELSE UNCHANGED <<mem, saved>>
Checkpoint ==
    LET m == [mem EXCEPT !.completed = FALSE] IN
    IF mode # "fresh" THEN mem' = m /\ saved' = m
    ELSE /\ saved' = IF old = NoState THEN saved ELSE [old EXCEPT !.completed = FALSE]
         /\ UNCHANGED mem

StartExport ==
    /\ At("checkpoint")
    /\ Checkpoint
    /\ Spawn(stage, decision.after, seed # -1)
    /\ dirs' = [dirs EXCEPT ![stage].made = TRUE]
    /\ spoilt' = (spoilt \/ (request'.tainted /\ staged /\ 0 \in {stage, seed}))
    /\ Go("export")
    /\ old' = NoState /\ prev' = NoPrev /\ seed' = 0   \* not read again
    /\ UNCHANGED <<installVars, discord, mode, inv, decision, stage, previous, nextStage,
                   metaAt, todo, staged, counters>>

Dce ==
    /\ At("export")
    /\ \/ Enumerate \/ DceExits
       \/ \E s \in Source : DceExports(s) \/ (s \notin live /\ DceFails(s))
    /\ UNCHANGED <<installVars, saved, run, nextStage, metaAt, history, counters>>

DceTrouble ==
    /\ At("export") /\ Trouble
    /\ \/ DceBreaks
       \/ \E s \in Source : (s \in live /\ DceFails(s)) \/ DceRetries(s)
       \/ DceAnnounces
    /\ UNCHANGED <<installVars, saved, run, nextStage, metaAt, history>>

RecordExportEvent ==
    /\ At("export")
    /\ \E s \in Source : ReadStderr(s)
    /\ mem' = [mem EXCEPT !.warned = TRUE]
    /\ UNCHANGED <<installVars, saved, old, prev, mode, step, inv, decision, stage, seed,
                   previous, nextStage, metaAt, todo, history, counters>>

\* config.cancel_event is seen while the child's stdout is read.
ExportCancelled ==
    /\ At("export") /\ Trouble
    /\ Terminate
    /\ Idle
    /\ UNCHANGED <<installVars, discord, saved, nextStage, metaAt, history>>

ExportFails ==
    /\ At("export") /\ child = "failed"
    /\ Reaped /\ had' = FALSE
    /\ Idle
    /\ UNCHANGED <<installVars, discord, dirs, saved, nextStage, metaAt, history, counters>>

ExportReturns ==
    /\ At("export") /\ Drained
    /\ Reaped /\ UNCHANGED had
    /\ Go(IF mode = "incremental" THEN "inspect" ELSE "finish")
    /\ UNCHANGED <<installVars, discord, dirs, saved, mem, old, prev, mode, inv, decision, stage,
                   seed, previous, nextStage, metaAt, todo, history, counters>>

-----------------------------------------------------------------------------
(* What becomes of the export.                                             *)

\* Outside incremental mode.
Finish ==
    /\ At("finish")
    /\ mem' = [mem EXCEPT !.completed = ~had]
    /\ saved' = mem'
    /\ had' = FALSE
    /\ Go("metadata")
    /\ UNCHANGED <<installVars, discord, dirs, child, request, pending, failing, stderr, progress,
                   old, prev, mode, inv, decision, stage, seed, previous, nextStage, metaAt, todo,
                   history, counters>>

\* validate_coverage
Covered ==
    /\ Inspectable(stage) /\ ~had
    /\ decision.expected # {} /\ dirs[stage].files = decision.expected

\* A full export that cannot be read stops the run.
Invalid ==
    /\ At("inspect") /\ decision.scope = "full" /\ ~Inspectable(stage)
    /\ had' = FALSE
    /\ Idle
    /\ UNCHANGED <<installVars, discord, dirs, child, request, pending, failing, stderr, progress,
                   saved, nextStage, metaAt, history, counters>>

\* A bounded one is thrown away, and everything is exported again.
FallBack ==
    /\ At("inspect") /\ decision.scope = "bounded" /\ ~Covered
    /\ decision' = Full(decision.expected)
    /\ CreateStage
    /\ dirs' = [dirs EXCEPT ![stage] = Gone, ![stage'] = [Gone EXCEPT !.made = TRUE]]
    /\ Spawn(stage', 0, FALSE)
    /\ Go("export")
    /\ UNCHANGED <<installVars, discord, saved, mem, old, prev, mode, inv, seed, previous, metaAt,
                   todo, history, counters>>

Candidate ==
    [stage |-> stage, ids |-> dirs[stage].files, scope |-> decision.scope, covered |-> Covered]

\* accept_stage: the witness is saved first, then superseded stages go.
AcceptStage ==
    /\ At("inspect") /\ Inspectable(stage)
    /\ decision.scope = "bounded" => Covered
    /\ mem' = [mem EXCEPT !.completed = Covered, !.witness = Candidate]
    /\ saved' = mem'
    /\ previous' = mem.witness.stage
    /\ staged' = TRUE
    /\ had' = FALSE
    /\ Go("retain")
    /\ UNCHANGED <<installVars, discord, dirs, child, request, pending, failing, stderr, progress,
                   old, prev, mode, inv, decision, stage, seed, nextStage, metaAt, todo, spoilt,
                   counters>>

\* The state cannot be written.
SaveFails ==
    /\ \/ At("inspect") /\ Inspectable(stage) /\ (decision.scope = "bounded" => Covered)
       \/ step \in {"finish", "checkpoint"}
    /\ Trouble
    /\ had' = FALSE
    /\ Idle
    /\ UNCHANGED <<installVars, discord, dirs, child, request, pending, failing, stderr, progress,
                   saved, nextStage, metaAt, history>>

\* _retain_current_and_previous, one folder at a time.
SupersededToo == {d \in 1..MaxStages : dirs[d].made} \ {previous}
SupersededTorn == {d \in 1..MaxStages : dirs[d].torn # {}} \ {mem.witness.stage, previous}
Superseded == {d \in 1..MaxStages : dirs[d].made} \ {mem.witness.stage, previous}

Remove(d) ==
    /\ At("retain") /\ d \in Superseded
    /\ dirs' = [dirs EXCEPT ![d] = Gone]
    /\ UNCHANGED <<installVars, discord, childVars, saved, run, nextStage, metaAt, history, counters>>

Retained ==
    /\ At("retain") /\ Superseded = {}
    /\ Go("metadata")
    /\ UNCHANGED <<installVars, processVars, saved, mem, old, prev, mode, inv, decision, stage,
                   seed, previous, nextStage, metaAt, todo, history, counters>>

-----------------------------------------------------------------------------
(* The metadata, and the phases that use the export.                       *)

\* The channel files must all be readable; a resumed run leaves out the
\* channels it completed.
Unfinished == dirs[stage].files \ mem.copied

\* A resume keeps the metadata it has, another run fetches it anew.
FetchMetadata ==
    /\ At("metadata")
    /\ metaAt' = IF mode = "resume" /\ Cached THEN metaAt ELSE runs
    /\ Go("messages") /\ todo' = Unfinished
    /\ UNCHANGED <<installVars, processVars, saved, mem, old, prev, mode, inv, decision, stage,
                   seed, previous, nextStage, history, counters>>

\* It cannot be fetched: a warning.
NoMetadata ==
    /\ At("metadata") /\ (mode = "resume" => ~Cached)
    /\ Trouble
    /\ Go("messages") /\ todo' = Unfinished
    /\ UNCHANGED <<installVars, processVars, saved, mem, old, prev, mode, inv, decision, stage,
                   seed, previous, nextStage, metaAt, history>>

\* One channel, as the messages phase leaves it: everything in the file was
\* delivered or noted as failed, and the mark is the last message of the file.
ToSend(s) ==
    LET file == dirs[stage].posts \intersect Of(s) IN
    IF mode = "incremental"
    THEN {n \in file : n > mem.highWater[s] \/ n \in mem.failed}
    ELSE file \ (mem.map \union mem.failed)

CopyChannelLatest(s, bad) ==
    LET file == dirs[stage].posts \intersect Of(s) IN
    /\ At("messages") /\ s \in todo /\ dirs[stage].torn = {}
    /\ bad \subseteq ToSend(s)
    /\ mem' = [mem EXCEPT !.map = @ \union (ToSend(s) \ bad),
                          !.failed = (@ \ ToSend(s)) \union bad,
                          !.highWater[s] = IF file = {} THEN @ ELSE Max(Of(s)),
                          !.copied = @ \union {s}]
    /\ saved' = mem'
    /\ todo' = todo \ {s}
    /\ UNCHANGED <<installVars, processVars, old, prev, mode, step, inv, decision, stage, seed,
                   previous, nextStage, metaAt, history>>

CopyChannel(s, bad) ==
    LET file == dirs[stage].posts \intersect Of(s) IN
    /\ At("messages") /\ s \in todo /\ dirs[stage].torn = {}
    /\ bad \subseteq ToSend(s)
    /\ mem' = [mem EXCEPT !.map = @ \union (ToSend(s) \ bad),
                          !.failed = (@ \ ToSend(s)) \union bad,
                          !.highWater[s] = IF file = {} THEN @ ELSE Max(file),
                          !.copied = @ \union {s}]
    /\ saved' = mem'
    /\ todo' = todo \ {s}
    /\ UNCHANGED <<installVars, processVars, old, prev, mode, step, inv, decision, stage, seed,
                   previous, nextStage, metaAt, history>>

CopyWhole(s) == CopyChannel(s, {}) /\ UNCHANGED counters

CopyPart(s) == (\E n \in Message : CopyChannel(s, {n})) /\ Trouble

\* Done, or nothing more to do with a file that cannot be parsed.
RunEnds ==
    /\ At("messages") /\ (todo = {} \/ dirs[stage].torn # {})
    /\ Idle
    /\ UNCHANGED <<installVars, processVars, saved, nextStage, metaAt, history, counters>>

-----------------------------------------------------------------------------
\* The machine stops, or the user closes the program.
Crash ==
    /\ step # "idle" /\ Trouble
    /\ InstallDies /\ Terminate
    /\ Idle
    /\ UNCHANGED <<discord, saved, nextStage, metaAt, history>>

Progress ==
    \/ ValidateToken \/ FindDce \/ InstallStep \/ InstallFails
    \/ \E s \in Source : ReadPage(s)
    \/ Decide \/ SeedMedia \/ StartExport
    \/ Dce \/ RecordExportEvent \/ ExportFails \/ ExportReturns
    \/ Finish \/ Invalid \/ FallBack \/ AcceptStage \/ (\E d \in 1..MaxStages : Remove(d)) \/ Retained
    \/ FetchMetadata \/ (\E s \in Source : CopyWhole(s)) \/ RunEnds

Troubles ==
    \/ Refused \/ InstallTrouble \/ InventoryFails \/ DceTrouble \/ ExportCancelled
    \/ SeedFails \/ SaveFails \/ NoMetadata \/ (\E s \in Source : CopyPart(s)) \/ Crash

Environment ==
    \/ \E s \in Source : Post(s) \/ Channels(s)
    \/ \E m \in {"fresh", "resume", "incremental"} : Start(m)

Next == Progress \/ Troubles \/ Environment

Spec == Init /\ [][Next]_vars

\* The run goes on, and a child that has not died does too.
FairSpec == Spec /\ WF_vars(Progress)
=============================================================================
