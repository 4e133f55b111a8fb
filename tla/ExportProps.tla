----------------------------- MODULE ExportProps -----------------------------
(* What must hold of the export phase, over runs that fail, die and race. *)
EXTENDS Export

\* Every trouble may be a message.
MaxPosts == Len(FirstPosts) + MaxTrouble
Folder == [made : BOOLEAN, files : SUBSET Source, posts : SUBSET (1..MaxPosts),
           torn : SUBSET Source, media : {"none", "partial", "whole"}, lost : SUBSET Source,
           known : 0..MaxPosts]

\* Types: the folders, the child and the run are what the code can hold.
TypeOK ==
    /\ live \subseteq Source /\ Len(posts) <= MaxPosts
    /\ \A d \in 0..MaxStages : dirs[d] \in Folder
    /\ child \in {"none", "starting", "alive", "exited", "failed"}
    /\ pending \subseteq Source /\ failing \subseteq Source /\ stderr \subseteq failing
    /\ mode \in {"none", "fresh", "resume", "incremental"}
    /\ step \in {"idle", "token", "dce", "inventory", "seed", "checkpoint", "export", "finish",
                 "inspect", "retain", "metadata", "messages"}
    /\ stage \in 0..MaxStages /\ seed \in -1..MaxStages /\ nextStage \in 1..(MaxStages + 1)
    /\ installed \in {"none", "torn", "pinned", "other"}

\* What runs as the exporter is a whole archive, and one with another hash only
\* if some run was told not to compare (manager.py: unpacked aside, then moved).
ExecutableWhole ==
    child # "none" =>
        /\ installed # "torn"
        /\ installed = "other" => unchecked

\* No exporter is left behind by a run that ended, was cancelled or failed.
NoOrphan == child # "none" => At("export")

\* The progress shown never passes its total, though DCE shows a channel at
\* 100 % twice when it retries it (runner.py, _RunState).
ProgressBounded ==
    progress.total # NoNumber => ProgressCounts(progress)[1] <= ProgressCounts(progress)[2]

\* The witness in state.json names a stage that is on the disk, readable, and
\* holds the channels it lists, whatever was cut short.
WitnessOnDisk ==
    saved # NoState /\ saved.witness # NoWitness =>
        LET w == saved.witness IN Inspectable(w.stage) /\ dirs[w.stage].files = w.ids

\* A witness of full coverage is of an export that lost no channel and whose
\* media was all written: stderr, the inventory and the files agree.
CoverageIsReal ==
    saved # NoState /\ saved.witness.covered =>
        /\ dirs[saved.witness.stage].lost = {}
        /\ spoilt \/ dirs[saved.witness.stage].media = "whole"

\* A message at or below a channel's mark was delivered or is on the list of
\* failed ones: no choice of a shorter export lets the mark pass a message.
NothingSkipped ==
    saved # NoState =>
        \A s \in Source : \A n \in Of(s) :
            n <= saved.highWater[s] => n \in saved.map \union saved.failed

\* A shorter export that was adopted misses nothing: a message that was on
\* Discord when it began is in it, or was delivered before.
NothingMissed ==
    At("messages") /\ decision.scope = "bounded" =>
        \A s \in decision.expected : \A n \in Of(s) :
            n <= dirs[stage].known => n \in mem.map \union dirs[stage].posts

\* Media kept from a stage was finished.  So is media kept from the export
\* folder, as long as no stage was ever adopted in its place (that case is
\* PartialNeverReused below).
SeedIsWhole == child # "none" /\ request.tainted => spoilt

\* An adopted stage's predecessor and successor are all that is left of the
\* stages once the phase is over, whatever earlier runs left behind.
OnlyThePair ==
    mode = "incremental" /\ step \in {"metadata", "messages"} =>
        {d \in 1..MaxStages : dirs[d].made} \subseteq {mem.witness.stage, previous}

\* "partial exports never authorize media reuse" (large-servers.md).
PartialNeverReused == child # "none" => ~request.tainted

\* A run that has begun ends: no pipe is waited for that nobody reads, and a
\* shorter export that proves incomplete is replaced only once.
RunCompletes == step # "idle" ~> step = "idle"

\* What else holds of the export throughout: the types, the exporter and its child,
\* the media that is kept and the stages that are left.
ExportInv ==
    /\ TypeOK
    /\ ExecutableWhole
    /\ NoOrphan
    /\ ProgressBounded
    /\ SeedIsWhole
    /\ OnlyThePair

\* What state.json says of the accepted export is what is on the disk.
WitnessTrue == WitnessOnDisk /\ CoverageIsReal

\* Shorter exports lose no message, neither in the export nor behind a mark.
NothingLost == NothingMissed /\ NothingSkipped

-----------------------------------------------------------------------------
(* The inductive invariant.                                                *)

Before == {"token", "dce", "inventory", "seed", "checkpoint"}
Early == {"token", "dce", "inventory"}
Kept == {"retain", "metadata", "messages"}

Witness == [stage : 0..MaxStages, ids : SUBSET Source, scope : {"none", "full", "bounded"},
            covered : BOOLEAN]
Record == [started : Nat \ {0}, completed : BOOLEAN, warned : BOOLEAN, witness : Witness,
           highWater : [Source -> Nat], map : SUBSET Nat, failed : SUBSET Nat,
           copied : SUBSET Source]
Asked == [dir : 0..MaxStages, after : Nat, reuse : BOOLEAN, tainted : BOOLEAN]
Shown == [done : SUBSET Source, total : Nat, final : {<<>>} \union (Nat \X Nat)]

\* Every variable has its shape: Discord, the folders and the child.
WorldShapes ==
    /\ live \subseteq Source /\ posts \in Seq(Source)
    /\ trouble \in 0..MaxTrouble /\ runs \in 0..MaxRuns
    /\ Len(posts) <= Len(FirstPosts) + trouble
    /\ dirs \in [0..MaxStages -> Folder]
    /\ child \in {"none", "starting", "alive", "exited", "failed"}
    /\ request \in Asked /\ progress \in Shown
    /\ pending \subseteq Source /\ failing \subseteq Source /\ stderr \subseteq failing
    /\ had \in BOOLEAN

\* The records and the run.
RunShapes ==
    /\ {saved, mem, old} \subseteq Record \union {NoState}
    /\ prev \in [completed : BOOLEAN, warned : BOOLEAN, started : Nat]
    /\ mode \in {"none", "fresh", "resume", "incremental"}
    /\ step \in {"idle", "export", "finish", "inspect"} \union Before \union Kept
    /\ inv \in [ids : SUBSET Source, left : SUBSET Source, complete : BOOLEAN]
    /\ decision \in [scope : {"full", "bounded"}, expected : SUBSET Source, after : Nat]
    /\ stage \in 0..MaxStages /\ seed \in -1..MaxStages /\ previous \in 0..MaxStages
    /\ nextStage \in 1..(MaxStages + 1) /\ metaAt \in Nat
    /\ todo \subseteq Source /\ staged \in BOOLEAN /\ spoilt \in BOOLEAN

Shapes == WorldShapes /\ RunShapes

\* What is installed was unpacked whole, from an archive that was compared or
\* that some run was told not to compare.
InstallInv ==
    /\ installed \in {"none", "pinned", "other"}
    /\ installed = "other" => unchecked
    /\ unpacked \in {"none", "torn", "pinned", "other"} /\ archive \in {"none", "pinned", "other"}
    /\ installing \in {"verify", "extract", "check", "replace"} => archive # "none"
    /\ installing \in {"extract", "check", "replace"} /\ archive = "other" => unchecked
    /\ installing = "replace" => unpacked = archive

\* Where a run may be, and how many stages the runs have made.
RunInv ==
    /\ step = "idle" <=> mode = "none"
    /\ step = "idle" <=> mem = NoState
    /\ step \in {"inventory", "inspect", "retain"} => mode = "incremental"
    /\ step = "finish" => mode # "incremental"
    /\ stage # 0 <=> mode = "incremental" /\ step \notin Early
    /\ stage < nextStage
    /\ decision.scope = "bounded" => stage # 0
    /\ decision.scope = "full" => decision.after = 0
    /\ nextStage <= 2 * runs + 1
    /\ decision.scope = "bounded" => nextStage <= 2 * runs
    /\ step \in Early => nextStage <= 2 * runs - 1
    /\ \A d \in 0..MaxStages : d >= nextStage => dirs[d] = Gone

\* What a run has of the record it found, until it saves one of its own.
RecordInv ==
    /\ step \in Before =>
         /\ prev = IF saved = NoState THEN NoPrev ELSE Facts(saved)
         /\ mode = "resume" => saved # NoState
         /\ mode = "fresh" => old = saved /\ mem.witness = NoWitness
         /\ mode # "fresh" =>
              mem.witness = IF saved = NoState THEN NoWitness ELSE saved.witness
    /\ step \in {"export", "inspect"} => saved = NoState \/ ~saved.completed
    /\ step \in {"export", "inspect"} /\ mode = "incremental" =>
         saved # NoState /\ mem.witness = saved.witness
    /\ step \in Kept => saved = mem

\* The child works in the run's folder, and what it lost it will say.
ChildInv ==
    /\ child # "none" => At("export") /\ request.dir = stage /\ request.after = decision.after
    /\ child \in {"starting", "alive"} => stderr = {} /\ ~had
    /\ child = "starting" => failing = {}
    /\ child = "exited" => (had \/ stderr = failing)
    /\ child \in {"alive", "exited"} => dirs[stage].lost \subseteq failing
    /\ child = "exited" /\ failing = {} /\ ~request.tainted => dirs[stage].media = "whole"

\* The channels shown as done are among those announced.
ShownInv ==
    /\ child \in {"none", "starting"} => progress = NoProgress
    /\ child \in {"alive", "failed"} => progress.final = <<>>
    /\ child = "alive" => Cardinality(progress.done \union pending \union failing) = progress.total
    /\ child = "failed" => Cardinality(progress.done) <= progress.total
    /\ child = "exited" => progress.final # <<>> /\ progress.final[1] <= progress.final[2]

\* A witness is of a stage that is there.
Vouched(w) ==
    w # NoWitness =>
        /\ staged /\ w.stage \in 1..(nextStage - 1)
        /\ Inspectable(w.stage) /\ dirs[w.stage].files = w.ids
        /\ w.covered => /\ dirs[w.stage].lost = {}
                        /\ spoilt \/ dirs[w.stage].media = "whole"

\* Both records vouch for what is on the disk, and the run writes elsewhere
\* until it saves a witness of its own stage.
WitnessInv ==
    /\ saved # NoState => Vouched(saved.witness)
    /\ mem # NoState => Vouched(mem.witness)
    /\ stage # 0 /\ step \notin Kept =>
         /\ mem.witness.stage # stage
         /\ saved # NoState => saved.witness.stage # stage
    /\ mode = "incremental" /\ step \in Kept => mem.witness # NoWitness /\ mem.witness.stage = stage

\* Media: a folder that is only partly there is not taken for a whole one
\* except by the way that spoilt records.
MediaInv ==
    /\ spoilt => staged
    /\ child # "none" /\ request.tainted => spoilt
    /\ ~staged /\ saved # NoState /\ saved.completed => dirs[0].media = "whole"
    /\ At("checkpoint") /\ seed # -1 /\ dirs[stage].media = "partial" =>
         spoilt \/ (staged /\ 0 \in {stage, seed})
    /\ step \in {"finish", "inspect"} /\ ~had =>
         dirs[stage].lost = {} /\ (spoilt \/ dirs[stage].media = "whole")

\* The messages of a channel in folder d: all of them from after up to the last.
Closed(d, after) ==
    \A m \in dirs[d].posts : \A n \in Message :
        posts[n] = posts[m] /\ after < n /\ n <= m => n \in dirs[d].posts

\* What the folders hold of the messages.
ContentsInv ==
    /\ \A d \in 0..MaxStages :
         /\ dirs[d].posts \subseteq Message /\ dirs[d].known <= Len(posts)
         /\ \A n \in dirs[d].posts : posts[n] \in dirs[d].files
    /\ Closed(0, 0) /\ Closed(stage, decision.after)
    /\ stage # 0 /\ (step \in Before \/ child = "starting") => dirs[stage].files = {}
    /\ stage # 0 =>
         \A s \in dirs[stage].files \ dirs[stage].torn : \A n \in Of(s) :
             decision.after < n /\ n <= dirs[stage].known => n \in dirs[stage].posts

\* Nothing at or below a mark of record r is forgotten.
Marked(r) ==
    /\ r.map \subseteq Message /\ r.failed \subseteq Message
    /\ \A s \in Source :
         /\ r.highWater[s] <= Len(posts)
         /\ \A n \in Of(s) : n <= r.highWater[s] => n \in r.map \union r.failed

\* What a shorter export leaves out was delivered, and no channel is missing.
MarkInv ==
    /\ saved # NoState => Marked(saved)
    /\ mem # NoState => Marked(mem)
    /\ decision.scope = "bounded" =>
         /\ decision.after <= Len(posts)
         /\ \A s \in decision.expected : \A n \in Of(s) : n <= decision.after => n \in mem.map
         /\ step \in Kept => mem.witness.ids = decision.expected

IInv ==
    /\ Shapes /\ InstallInv /\ RunInv /\ RecordInv /\ ChildInv /\ ShownInv
    /\ WitnessInv /\ MediaInv /\ OnlyThePair /\ ContentsInv /\ MarkInv
=============================================================================
