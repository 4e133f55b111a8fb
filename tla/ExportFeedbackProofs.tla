--------------------------- MODULE ExportFeedbackProofs --------------------------
(***************************************************************************)
(* The export phase, for any channels, messages, runs, failures and deaths *)
(* of the program; and the feedback service, for any handlers, sources,    *)
(* reports and limits, any number of requests, and any length of a run.    *)
(***************************************************************************)
EXTENDS ExportProps, FeedbackServiceProps, FiniteSetTheorems, WellFoundedInduction, TLAPS

-----------------------------------------------------------------------------
(* The export phase.                                                       *)

\* No record is taken for the absence of one.
LEMMA RecordIsSome == \A r \in Record : r # NoState
<1> SUFFICES ASSUME NEW r \in Record PROVE r.started # NoState.started
  OBVIOUS
<1> QED  BY DEF Record, NoState

\* How many messages there can be.
LEMMA Counted ==
    ASSUME IInv
    PROVE  /\ posts \in Seq(Source) /\ Len(posts) \in Nat /\ Message = 1..Len(posts)
           /\ MaxTrouble \in Nat /\ trouble \in 0..MaxTrouble /\ trouble \in Nat
           /\ Len(FirstPosts) \in Nat /\ Len(posts) <= Len(FirstPosts) + trouble
           /\ MaxPosts \in Nat /\ Len(posts) \in 0..MaxPosts
<1>1. posts \in Seq(Source) /\ trouble \in 0..MaxTrouble /\ Len(posts) <= Len(FirstPosts) + trouble
  BY DEF IInv, Shapes, WorldShapes, RunShapes
<1>2. Len(posts) \in Nat /\ Message = 1..Len(posts)
  BY <1>1 DEF Message
<1>3. MaxTrouble \in Nat /\ FirstPosts \in Seq(Source)
  BY ExportAssumption
<1>4. Len(FirstPosts) \in Nat
  BY <1>3
<1> QED  BY <1>1, <1>2, <1>3, <1>4 DEF MaxPosts

-----------------------------------------------------------------------------
(* How a run ends.                                                         *)

\* Folder f is d cut off in the middle, or as it was.
CutOff(d, f) ==
    /\ f \in Folder
    /\ f.made = d.made /\ f.posts = d.posts /\ f.media = d.media /\ f.known = d.known
    /\ d.files \subseteq f.files
    /\ f.files \ f.torn \subseteq d.files \ d.torn

\* The run is over and has no child; at most its own folder was cut off.
Over ==
    /\ Idle
    /\ child' = "none" /\ progress' = NoProgress /\ request' \in Asked
    /\ pending' \subseteq Source /\ failing' \subseteq Source /\ stderr' \subseteq failing'
    /\ had' \in BOOLEAN
    /\ UNCHANGED <<discord, saved, nextStage, metaAt, history, runs>>
    /\ trouble' \in {trouble, trouble + 1} /\ trouble' <= MaxTrouble
    /\ \/ UNCHANGED dirs
       \/ /\ At("export")
          /\ \E f : CutOff(dirs[stage], f) /\ dirs' = [dirs EXCEPT ![stage] = f]

LEMMA OverKeeps ==
    ASSUME IInv, Over, InstallInv'
    PROVE  IInv'
<1>1. /\ mem' = NoState /\ old' = NoState /\ prev' = NoPrev /\ mode' = "none" /\ step' = "idle"
      /\ inv' = NoInventory /\ decision' = Full({}) /\ stage' = 0 /\ seed' = 0 /\ previous' = 0
      /\ todo' = {} /\ child' = "none" /\ progress' = NoProgress
      /\ UNCHANGED <<live, posts, saved, nextStage, metaAt, staged, spoilt, runs>>
  BY DEF Over, Idle, discord, history
<1>2. ASSUME NEW d \in 0..MaxStages
      PROVE  /\ dirs'[d] \in Folder
             /\ dirs'[d].posts = dirs[d].posts /\ dirs'[d].media = dirs[d].media
             /\ dirs'[d].known = dirs[d].known /\ dirs[d].files \subseteq dirs'[d].files
             /\ d # stage \/ ~At("export") => dirs'[d] = dirs[d]
  BY DEF Over, CutOff, IInv, Shapes, WorldShapes, RunShapes
<1>3. dirs' \in [0..MaxStages -> Folder]
  BY DEF Over, CutOff, IInv, Shapes, WorldShapes, RunShapes
<1>4. MaxTrouble \in Nat /\ MaxStages \in Nat
  BY ExportAssumption
<1>5. Shapes'
  <2>1. trouble' \in 0..MaxTrouble /\ Len(posts') <= Len(FirstPosts) + trouble'
    <3>1. trouble' \in {trouble, trouble + 1} /\ trouble' <= MaxTrouble
      BY DEF Over
    <3> QED  BY <1>1, <3>1, Counted
  <2>2. NoPrev \in [completed : BOOLEAN, warned : BOOLEAN, started : Nat] /\ NoProgress \in Shown
        /\ NoInventory \in [ids : SUBSET Source, left : SUBSET Source, complete : BOOLEAN]
        /\ Full({}) \in [scope : {"full", "bounded"}, expected : SUBSET Source, after : Nat]
    BY DEF NoPrev, NoProgress, Shown, NoInventory, Full, NoNumber
  <2>3. live' \subseteq Source /\ posts' \in Seq(Source) /\ runs' \in 0..MaxRuns
        /\ saved' \in Record \union {NoState} /\ nextStage' \in 1..(MaxStages + 1) /\ metaAt' \in Nat
        /\ staged' \in BOOLEAN /\ spoilt' \in BOOLEAN
    BY <1>1 DEF Over, IInv, Shapes, WorldShapes, RunShapes
  <2>4. stage' \in 0..MaxStages /\ seed' \in -1..MaxStages /\ previous' \in 0..MaxStages
    BY <1>1, <1>4
  <2>5. WorldShapes'
    BY <1>1, <1>3, <2>1, <2>2, <2>3, <2>4 DEF Over, Shapes, WorldShapes
  <2>6. RunShapes'
    BY <1>1, <1>3, <2>1, <2>2, <2>3, <2>4 DEF Over, Shapes, RunShapes
  <2> QED  BY <2>5, <2>6 DEF Shapes
<1>6. RunInv'
  BY <1>1, <1>2 DEF IInv, RunInv, Shapes, WorldShapes, RunShapes, Full, Early, At
<1>7. RecordInv' /\ ChildInv' /\ ShownInv' /\ OnlyThePair'
  BY <1>1 DEF RecordInv, ChildInv, ShownInv, OnlyThePair, Before, Kept, NoProgress
<1>8. ASSUME NEW w \in Witness, Vouched(w), At("export") /\ w # NoWitness => w.stage # stage
      PROVE  Vouched(w)'
  <2> SUFFICES ASSUME w # NoWitness PROVE Vouched(w)'
    BY DEF Vouched
  <2>1. w.stage \in 0..MaxStages /\ dirs'[w.stage] = dirs[w.stage]
    BY <1>2, <1>8 DEF Witness
  <2> QED  BY <1>1, <1>8, <2>1 DEF Vouched, Inspectable
<1>9. saved # NoState =>
        /\ saved.witness \in Witness /\ Vouched(saved.witness)
        /\ At("export") /\ saved.witness # NoWitness => saved.witness.stage # stage
  <2>1. saved # NoState => saved.witness \in Witness /\ Vouched(saved.witness)
    BY DEF IInv, WitnessInv, Shapes, WorldShapes, RunShapes, Record
  <2>2. stage \in Nat /\ nextStage \in Nat
    BY <1>4 DEF IInv, Shapes, WorldShapes, RunShapes
  <2> QED  BY <2>1, <2>2 DEF IInv, WitnessInv, Vouched, At, Kept
<1>10. WitnessInv'
  BY <1>1, <1>8, <1>9 DEF WitnessInv
<1>11. MediaInv'
  BY <1>1, <1>2, <1>4 DEF IInv, MediaInv, At
<1>12. ContentsInv' /\ MarkInv'
  BY <1>1, <1>2, <1>4 DEF IInv, ContentsInv, MarkInv, Closed, Marked, Of, Message, Full
<1> QED  BY <1>5, <1>6, <1>7, <1>10, <1>11, <1>12 DEF IInv

\* A child that is told to end, or dies, leaves its folder cut off.
LEMMA CutIsCutOff ==
    ASSUME IInv, child # "none", Cut
    PROVE  /\ At("export")
           /\ \E f : CutOff(dirs[stage], f) /\ dirs' = [dirs EXCEPT ![stage] = f]
<1>1. At("export") /\ request.dir = stage /\ stage \in 0..MaxStages /\ pending \subseteq Source
      /\ dirs[stage] \in Folder
  BY DEF IInv, ChildInv, Shapes, WorldShapes, RunShapes
<1>2. PICK torn \in SUBSET pending :
        dirs' = [dirs EXCEPT ![stage].torn = @ \union torn, ![stage].files = @ \union torn,
                             ![stage].lost = @ \union pending]
  BY <1>1 DEF Cut
<1> DEFINE f == [dirs[stage] EXCEPT !.torn = @ \union torn, !.files = @ \union torn,
                                    !.lost = @ \union pending]
<1>3. CutOff(dirs[stage], f)
  BY <1>1 DEF CutOff, Folder
<1>4. dirs' = [dirs EXCEPT ![stage] = f]
  BY <1>1, <1>2 DEF IInv, Shapes, WorldShapes, RunShapes
<1> QED  BY <1>1, <1>3, <1>4

\* Where there is no child there is nothing of one.
LEMMA NoChild ==
    ASSUME IInv, ~At("export")
    PROVE  child = "none" /\ progress = NoProgress
BY DEF IInv, ChildInv, ShownInv

\* What is left of a child that was reaped.
LEMMA ReapedShape ==
    ASSUME Reaped
    PROVE  /\ child' = "none" /\ progress' = NoProgress /\ request' \in Asked
           /\ pending' = {} /\ failing' = {} /\ stderr' = {}
<1>1. 0 \in 0..MaxStages
  BY ExportAssumption
<1> QED  BY <1>1 DEF Reaped, NoRequest, Asked

LEMMA InstallKept == InstallInv /\ UNCHANGED installVars => InstallInv'
BY DEF InstallInv, installVars

\* Trouble, and no trouble, stay within the bound.
LEMMA TroubleCounts ==
    ASSUME IInv, Trouble \/ UNCHANGED counters
    PROVE  /\ trouble' \in {trouble, trouble + 1} /\ trouble' <= MaxTrouble /\ UNCHANGED runs
           /\ trouble' \in 0..MaxTrouble /\ trouble <= trouble'
<1>1. trouble \in 0..MaxTrouble /\ MaxTrouble \in Nat
  BY ExportAssumption DEF IInv, Shapes, WorldShapes, RunShapes
<1> QED  BY <1>1 DEF Trouble, counters

LEMMA RefusedKeeps == IInv /\ Refused => IInv'
<1> SUFFICES ASSUME IInv, Refused PROVE IInv'
  OBVIOUS
<1>1. Trouble /\ Idle /\ ~At("export")
      /\ UNCHANGED <<installVars, processVars, saved, nextStage, metaAt, history>>
  BY DEF Refused, At
<1>2. Over
  BY <1>1, NoChild, TroubleCounts DEF Over, processVars, childVars, IInv, Shapes, WorldShapes, RunShapes
<1> QED  BY <1>1, <1>2, InstallKept, OverKeeps DEF IInv

LEMMA ExportEnds ==
    ASSUME IInv, ExportCancelled \/ ExportFails
    PROVE  IInv'
<1>1. CASE ExportCancelled
  <2>1. Over
    <3>1. Reaped /\ had' = FALSE /\ Trouble /\ Idle /\ IF Running THEN Cut ELSE UNCHANGED dirs
      BY <1>1 DEF ExportCancelled, Terminate
    <3>2. \/ UNCHANGED dirs
          \/ /\ At("export")
             /\ \E f : CutOff(dirs[stage], f) /\ dirs' = [dirs EXCEPT ![stage] = f]
      BY <3>1, CutIsCutOff DEF Running
    <3> QED  BY <1>1, <3>1, <3>2, ReapedShape, TroubleCounts DEF Over, ExportCancelled
  <2> QED  BY <1>1, <2>1, InstallKept, OverKeeps DEF ExportCancelled, IInv
<1>2. CASE ExportFails
  <2>1. Over
    BY <1>2, ReapedShape, TroubleCounts DEF Over, ExportFails, counters
  <2> QED  BY <1>2, <2>1, InstallKept, OverKeeps DEF ExportFails, IInv
<1> QED  BY <1>1, <1>2

LEMMA InvalidKeeps == IInv /\ Invalid => IInv'
<1> SUFFICES ASSUME IInv, Invalid PROVE IInv'
  OBVIOUS
<1>1. Over
  BY NoChild, TroubleCounts DEF Over, Invalid, At, counters, IInv, Shapes, WorldShapes, RunShapes
<1> QED  BY <1>1, InstallKept, OverKeeps DEF Invalid, IInv

LEMMA SaveFailsKeeps == IInv /\ SaveFails => IInv'
<1> SUFFICES ASSUME IInv, SaveFails PROVE IInv'
  OBVIOUS
<1>1. Over
  BY NoChild, TroubleCounts DEF Over, SaveFails, At, IInv, Shapes, WorldShapes, RunShapes
<1> QED  BY <1>1, InstallKept, OverKeeps DEF SaveFails, IInv

LEMMA RunEndsKeeps == IInv /\ RunEnds => IInv'
<1> SUFFICES ASSUME IInv, RunEnds PROVE IInv'
  OBVIOUS
<1>1. Over
  BY NoChild, TroubleCounts DEF Over, RunEnds, At, processVars, childVars, counters, IInv, Shapes, WorldShapes, RunShapes
<1> QED  BY <1>1, InstallKept, OverKeeps DEF RunEnds, IInv

LEMMA CrashKeeps == IInv /\ Crash => IInv'
<1> SUFFICES ASSUME IInv, Crash PROVE IInv'
  OBVIOUS
<1>1. Reaped /\ had' = FALSE /\ Trouble /\ Idle /\ IF Running THEN Cut ELSE UNCHANGED dirs
  BY DEF Crash, Terminate
<1>2. \/ UNCHANGED dirs
      \/ At("export") /\ \E f : CutOff(dirs[stage], f) /\ dirs' = [dirs EXCEPT ![stage] = f]
  BY <1>1, CutIsCutOff DEF Running
<1>3. Over
  BY <1>1, <1>2, ReapedShape, TroubleCounts DEF Over, Crash
<1>4. InstallInv'
  BY DEF IInv, InstallInv, Crash, InstallDies
<1> QED  BY <1>3, <1>4, OverKeeps

LEMMA InstallFailsKeeps == IInv /\ InstallFails => IInv'
<1> SUFFICES ASSUME IInv, InstallFails PROVE IInv'
  OBVIOUS
<1>1. (Trouble \/ UNCHANGED counters) /\ Idle /\ ~At("export")
      /\ UNCHANGED <<processVars, saved, nextStage, metaAt, history>>
  BY DEF InstallFails, At
<1>2. Over
  BY <1>1, NoChild, TroubleCounts DEF Over, processVars, childVars, IInv, Shapes, WorldShapes, RunShapes
<1>3. InstallInv'
  BY DEF IInv, InstallInv, InstallFails, DownloadFails, HashMismatch, ExtractFails, InstallEnds
<1> QED  BY <1>2, <1>3, OverKeeps

-----------------------------------------------------------------------------
(* Installing, and the quiet steps of a run.                               *)

\* All variables but those of the installation.
AllButInstall ==
    <<processVars, saved, mem, old, prev, mode, step, inv, decision, stage, seed, previous,
      nextStage, metaAt, todo, history, runs>>

\* A step of the installation, and one that changes nothing but the trouble.
LEMMA InstallOnly ==
    ASSUME IInv, InstallInv', UNCHANGED AllButInstall, Trouble \/ UNCHANGED counters
    PROVE  IInv'
<1> USE DEF AllButInstall, processVars, childVars, discord, history
<1>1. Shapes'
  <2>1. Len(posts') <= Len(FirstPosts) + trouble'
    <3>1. posts' = posts
      OBVIOUS
    <3> QED  BY <3>1, TroubleCounts, Counted
  <2>2. WorldShapes'
    BY <2>1, TroubleCounts DEF IInv, Shapes, WorldShapes
  <2>3. RunShapes'
    BY <2>1, TroubleCounts DEF IInv, Shapes, RunShapes
  <2> QED  BY <2>2, <2>3 DEF Shapes
<1>2. RunInv'
  BY DEF IInv, RunInv
<1>3. RecordInv' /\ ChildInv' /\ ShownInv'
  BY DEF IInv, RecordInv, ChildInv, ShownInv, At
<1>4. WitnessInv' /\ MediaInv' /\ OnlyThePair'
  BY DEF IInv, WitnessInv, MediaInv, OnlyThePair, Vouched, Inspectable, At
<1>5. ContentsInv' /\ MarkInv'
  BY DEF IInv, ContentsInv, MarkInv, Closed, Marked, Of, Message
<1> QED  BY <1>1, <1>2, <1>3, <1>4, <1>5 DEF IInv

LEMMA InstallKeeps ==
    ASSUME IInv, InstallStep \/ InstallTrouble
    PROVE  IInv'
<1>1. InstallInv'
  <2> USE DEF IInv, InstallInv
  <2>1. CASE InstallTrouble
    BY <2>1 DEF InstallTrouble, Download, DownloadAgain
  <2>2. CASE StartInstall \/ Download("pinned")
    BY <2>2 DEF StartInstall, Download
  <2>3. CASE \E skip \in BOOLEAN : Verify(skip)
    BY <2>3 DEF Verify
  <2>4. CASE Extract \/ ExtractDone \/ Replace
    BY <2>4 DEF Extract, ExtractDone, Replace, InstallEnds
  <2> QED  BY <2>1, <2>2, <2>3, <2>4 DEF InstallStep
<1>2. UNCHANGED AllButInstall /\ (Trouble \/ UNCHANGED counters)
  BY DEF InstallStep, InstallTrouble, AllButInstall, run, counters, Trouble
<1> QED  BY <1>1, <1>2, InstallOnly

\* The trouble counted so far, and the messages it allows.
LEMMA CountersShape ==
    ASSUME IInv, Trouble \/ UNCHANGED counters, UNCHANGED posts
    PROVE  /\ trouble' \in 0..MaxTrouble /\ runs' \in 0..MaxRuns /\ runs' = runs
           /\ Len(posts') <= Len(FirstPosts) + trouble'
<1>1. runs' = runs /\ runs \in 0..MaxRuns
  BY TroubleCounts DEF IInv, Shapes, WorldShapes, RunShapes
<1> QED  BY <1>1, TroubleCounts, Counted

\* What FindDce, ReadPage and InventoryFails change: the step and the inventory.
Looks ==
    /\ UNCHANGED <<installVars, processVars, saved, mem, old, prev, mode, decision, stage,
                   seed, previous, nextStage, metaAt, todo, history>>
    /\ Trouble \/ UNCHANGED counters
    /\ inv' \in [ids : SUBSET Source, left : SUBSET Source, complete : BOOLEAN]
    /\ \/ step \in Early /\ step' \in Early /\ (step' = "inventory" => mode = "incremental")
       \/ step \in Early /\ step' = "seed" /\ mode # "incremental"

LEMMA LooksKeeps == IInv /\ Looks => IInv'
<1> SUFFICES ASSUME IInv, Looks PROVE IInv'
  OBVIOUS
<1> USE DEF At
<1>1. /\ UNCHANGED <<installVars, processVars, history, saved, mem, old, prev, mode, decision,
                     stage, seed, previous, nextStage, metaAt, todo>>
      /\ step \in Early /\ step' \in Early \union {"seed"}
      /\ step' = "inventory" => mode = "incremental"
      /\ step' = "seed" => mode # "incremental"
      /\ inv' \in [ids : SUBSET Source, left : SUBSET Source, complete : BOOLEAN]
  BY DEF Looks, Early
<1>2. trouble' \in 0..MaxTrouble /\ runs' \in 0..MaxRuns /\ runs' = runs
      /\ Len(posts') <= Len(FirstPosts) + trouble'
  BY <1>1, CountersShape DEF Looks, processVars, discord
<1>3. Shapes'
  <2>1. WorldShapes'
    BY <1>1, <1>2 DEF IInv, Shapes, WorldShapes, processVars, childVars, discord, history
  <2>2. RunShapes'
    BY <1>1, <1>2 DEF IInv, Shapes, RunShapes, processVars, childVars, discord, history, Before, Early
  <2> QED  BY <2>1, <2>2 DEF Shapes
<1>4. InstallInv'
  BY <1>1, InstallKept DEF IInv
<1>5. RunInv'
  BY <1>1, <1>2 DEF IInv, RunInv, processVars, Early
<1>6. RecordInv' /\ ChildInv' /\ ShownInv'
  BY <1>1 DEF IInv, RecordInv, ChildInv, ShownInv, Before, Early, Kept, processVars, childVars
<1>7. WitnessInv' /\ MediaInv' /\ OnlyThePair'
  BY <1>1 DEF IInv, WitnessInv, MediaInv, OnlyThePair, Vouched, Inspectable, Kept, Early,
              processVars, childVars, history
<1>8. ContentsInv' /\ MarkInv'
  BY <1>1 DEF IInv, ContentsInv, MarkInv, Closed, Marked, Of, Message, Kept, Before, Early,
              processVars, childVars, discord
<1> QED  BY <1>3, <1>4, <1>5, <1>6, <1>7, <1>8 DEF IInv

LEMMA LookSteps ==
    ASSUME IInv, ValidateToken \/ FindDce \/ (\E s \in Source : ReadPage(s)) \/ InventoryFails
    PROVE  IInv'
<1> USE DEF At, Go, Early
<1> DEFINE Inventory == [ids : SUBSET Source, left : SUBSET Source, complete : BOOLEAN]
<1>1. inv \in Inventory /\ (step = "inventory" => mode = "incremental")
  BY DEF IInv, Shapes, WorldShapes, RunShapes, RunInv
<1>2. CASE ValidateToken
  BY <1>1, <1>2, LooksKeeps DEF ValidateToken, Looks
<1>3. CASE FindDce
  <2>1. inv' \in Inventory
    <3>1. inv' \in {inv, [ids |-> {}, left |-> Source, complete |-> TRUE]}
      BY <1>3 DEF FindDce
    <3>2. [ids |-> {}, left |-> Source, complete |-> TRUE] \in Inventory
      OBVIOUS
    <3> HIDE DEF Inventory
    <3> QED  BY <1>1, <3>1, <3>2
  <2> QED  BY <1>3, <2>1, LooksKeeps DEF FindDce, Looks
<1>4. CASE \E s \in Source : ReadPage(s)
  <2>1. inv' \in Inventory
    <3>1. PICK s \in Source :
            inv' = [inv EXCEPT !.left = @ \ {s}, !.ids = @ \union ({s} \intersect live)]
      BY <1>4 DEF ReadPage
    <3> QED  BY <1>1, <3>1
  <2> QED  BY <1>1, <1>4, <2>1, LooksKeeps DEF ReadPage, Looks
<1>5. CASE InventoryFails
  <2>1. inv' \in Inventory
    BY <1>5 DEF InventoryFails, NoInventory
  <2> QED  BY <1>1, <1>5, <2>1, LooksKeeps DEF InventoryFails, Looks
<1> QED  BY <1>2, <1>3, <1>4, <1>5

-----------------------------------------------------------------------------
(* Discord goes on.                                                        *)

LEMMA ChannelsKeeps ==
    ASSUME IInv, NEW s \in Source, Channels(s)
    PROVE  IInv'
<1> USE DEF At
<1>1. /\ UNCHANGED <<installVars, posts, dirs, childVars, saved, run, nextStage, metaAt, history>>
      /\ live' \subseteq Source /\ Trouble
  BY DEF Channels, IInv, Shapes, WorldShapes, RunShapes
<1>2. trouble' \in 0..MaxTrouble /\ runs' \in 0..MaxRuns /\ runs' = runs
      /\ Len(posts') <= Len(FirstPosts) + trouble'
  BY <1>1, CountersShape
<1>3. Shapes'
  <2>1. WorldShapes'
    BY <1>1, <1>2 DEF IInv, Shapes, WorldShapes, childVars, run, history
  <2>2. RunShapes'
    BY <1>1, <1>2 DEF IInv, Shapes, RunShapes, childVars, run, history
  <2> QED  BY <2>1, <2>2 DEF Shapes
<1>4. InstallInv'
  BY <1>1, InstallKept DEF IInv
<1>5. RunInv' /\ RecordInv' /\ ChildInv' /\ ShownInv'
  BY <1>1, <1>2 DEF IInv, RunInv, RecordInv, ChildInv, ShownInv, childVars, run
<1>6. WitnessInv' /\ MediaInv' /\ OnlyThePair'
  BY <1>1 DEF IInv, WitnessInv, MediaInv, OnlyThePair, Vouched, Inspectable, childVars, run, history
<1>7. ContentsInv' /\ MarkInv'
  BY <1>1 DEF IInv, ContentsInv, MarkInv, Closed, Marked, Of, Message, childVars, run
<1> QED  BY <1>3, <1>4, <1>5, <1>6, <1>7 DEF IInv

\* A new message is above every mark and in no folder yet.
LEMMA PostKeeps ==
    ASSUME IInv, NEW s \in Source, Post(s)
    PROVE  IInv'
<1> USE DEF At
<1>1. /\ UNCHANGED <<installVars, live, dirs, childVars, saved, run, nextStage, metaAt, history>>
      /\ posts' = Append(posts, s) /\ Trouble /\ step \in {"idle", "export"}
  BY DEF Post
<1>2. posts \in Seq(Source) /\ posts' \in Seq(Source) /\ Len(posts) \in Nat
      /\ Len(posts') = Len(posts) + 1
      /\ Message = 1..Len(posts) /\ Message' = 1..(Len(posts) + 1)
      /\ \A n \in Message : n \in Message' /\ posts'[n] = posts[n]
  BY <1>1 DEF IInv, Shapes, WorldShapes, RunShapes, Message
<1>3. /\ runs' = runs /\ trouble' \in 0..MaxTrouble /\ trouble' = trouble + 1
      /\ Len(posts') <= Len(FirstPosts) + trouble'
  <2>1. trouble \in Nat /\ Len(FirstPosts) \in Nat /\ Len(posts) <= Len(FirstPosts) + trouble
    BY Counted
  <2>2. trouble' = trouble + 1
    BY <1>1 DEF Trouble
  <2> QED  BY <1>1, <1>2, <2>1, <2>2, TroubleCounts
<1>4. Shapes'
  <2> HIDE DEF At
  <2>1. posts' \in Seq(Source) /\ Len(posts') <= Len(FirstPosts) + trouble'
        /\ trouble' \in 0..MaxTrouble /\ runs' = runs
    BY <1>2, <1>3
  <2>2. WorldShapes'
    BY <1>1, <2>1 DEF IInv, Shapes, WorldShapes, childVars, run, history
  <2>3. RunShapes'
    BY <1>1, <2>1 DEF IInv, Shapes, RunShapes, childVars, run, history
  <2> QED  BY <2>2, <2>3 DEF Shapes
<1>5. InstallInv'
  BY <1>1, InstallKept DEF IInv
<1>6. RunInv' /\ RecordInv' /\ ChildInv' /\ ShownInv'
  BY <1>1, <1>3 DEF IInv, RunInv, RecordInv, ChildInv, ShownInv, childVars, run
<1>7. WitnessInv' /\ MediaInv' /\ OnlyThePair'
  BY <1>1 DEF IInv, WitnessInv, MediaInv, OnlyThePair, Vouched, Inspectable, childVars, run, history
<1>8. ContentsInv'
  <2>1. ASSUME NEW d \in 0..MaxStages
        PROVE  /\ dirs[d].posts \subseteq Message /\ dirs[d].known \in Nat /\ dirs[d].known <= Len(posts)
               /\ \A n \in dirs[d].posts : posts[n] \in dirs[d].files
    BY DEF IInv, ContentsInv, Shapes, WorldShapes, RunShapes, Folder
  <2>2. stage \in 0..MaxStages /\ 0 \in 0..MaxStages /\ decision.after \in Nat
    BY ExportAssumption DEF IInv, Shapes, WorldShapes, RunShapes
  <2>3. ASSUME NEW d \in 0..MaxStages, NEW after \in Nat, Closed(d, after) PROVE Closed(d, after)'
    BY <1>1, <1>2, <2>1, <2>3 DEF Closed
  <2>4. Closed(0, 0)' /\ Closed(stage, decision.after)'
    <3>1. Closed(0, 0) /\ Closed(stage, decision.after)
      BY DEF IInv, ContentsInv
    <3> QED  BY <1>1, <2>2, <2>3, <3>1 DEF run, Closed
  <2>5. stage # 0 =>
          \A c \in dirs[stage].files \ dirs[stage].torn : \A n \in Of(c)' :
             decision.after < n /\ n <= dirs[stage].known => n \in dirs[stage].posts
    BY <1>1, <1>2, <2>1, <2>2 DEF IInv, ContentsInv, Of
  <2>6. ASSUME NEW d \in 0..MaxStages
        PROVE  /\ dirs[d].posts \subseteq Message' /\ dirs[d].known <= Len(posts')
               /\ \A n \in dirs[d].posts : posts'[n] \in dirs[d].files
    BY <1>2, <2>1
  <2> QED  BY <1>1, <2>4, <2>5, <2>6 DEF IInv, ContentsInv, run, childVars
<1>9. ASSUME NEW r \in Record, Marked(r) PROVE Marked(r)'
  <2>1. /\ r.map \subseteq Message' /\ r.failed \subseteq Message'
        /\ \A c \in Source : r.highWater[c] \in Nat /\ r.highWater[c] <= Len(posts)
    BY <1>2, <1>9 DEF Marked, Record
  <2>2. ASSUME NEW c \in Source, NEW n \in Of(c)', n <= r.highWater[c]
        PROVE  n \in r.map \union r.failed
    <3>1. n \in Message
      BY <1>2, <2>1, <2>2 DEF Of
    <3> QED  BY <1>2, <1>9, <2>2, <3>1 DEF Marked, Of
  <2> QED  BY <1>2, <2>1, <2>2 DEF Marked
<1>10. MarkInv'
  <2>1. decision.after \in Nat
    BY DEF IInv, Shapes, WorldShapes, RunShapes
  <2>2. decision.scope = "bounded" => decision.after <= Len(posts)
    BY DEF IInv, MarkInv
  <2>3. ASSUME decision.scope = "bounded", NEW c \in decision.expected, NEW n \in Of(c)', n <= decision.after
        PROVE  n \in mem.map
    <3>1. n \in Message
      BY <1>2, <2>1, <2>2, <2>3 DEF Of
    <3> QED  BY <1>2, <2>3, <3>1 DEF IInv, MarkInv, Of
  <2>4. (saved # NoState => Marked(saved)') /\ (mem # NoState => Marked(mem)')
    BY <1>1, <1>9 DEF IInv, MarkInv, Shapes, WorldShapes, RunShapes, run, Marked
  <2> QED  BY <1>1, <1>2, <2>1, <2>2, <2>3, <2>4 DEF IInv, MarkInv, run
<1> QED  BY <1>4, <1>5, <1>6, <1>7, <1>8, <1>10 DEF IInv

-----------------------------------------------------------------------------
(* A run begins.                                                           *)

LEMMA NewStateShape ==
    ASSUME IInv, NEW r \in Nat \ {0}
    PROVE  /\ NewState(r) \in Record /\ NewState(r).witness = NoWitness
           /\ NewState(r).completed = FALSE
           /\ Marked(NewState(r)) /\ Vouched(NewState(r).witness)
<1>1. 0 \in 0..MaxStages
  BY ExportAssumption
<1>2. NoWitness \in Witness
  BY <1>1 DEF NoWitness, Witness
<1>3. NewState(r) \in Record /\ NewState(r).witness = NoWitness /\ NewState(r).completed = FALSE
      /\ NewState(r).map = {} /\ NewState(r).failed = {}
      /\ NewState(r).highWater = [s \in Source |-> 0]
  BY <1>2 DEF NewState, Record, NoNumber
<1>4. Len(posts) \in Nat /\ Message = 1..Len(posts)
  BY DEF IInv, Shapes, WorldShapes, RunShapes, Message
<1>5. Marked(NewState(r))
  BY <1>3, <1>4 DEF Marked, Of
<1> QED  BY <1>3, <1>5 DEF Vouched

\* An incremental run carries over what an earlier one sent and accepted.
LEMMA CarriedShape ==
    ASSUME IInv, saved # NoState, NEW r \in Nat \ {0}
    PROVE  /\ Carried(saved, r) \in Record /\ Carried(saved, r).witness = saved.witness
           /\ Marked(Carried(saved, r)) /\ Vouched(Carried(saved, r).witness)
<1>1. saved \in Record /\ Marked(saved) /\ Vouched(saved.witness)
  BY DEF IInv, Shapes, WorldShapes, RunShapes, MarkInv, WitnessInv
<1>2. NewState(r) \in Record
  BY NewStateShape
<1>3. /\ Carried(saved, r) \in Record /\ Carried(saved, r).witness = saved.witness
      /\ Carried(saved, r).map = saved.map /\ Carried(saved, r).failed = saved.failed
      /\ Carried(saved, r).highWater = saved.highWater
  BY <1>1, <1>2 DEF Carried, Record
<1>4. Marked(Carried(saved, r))
  BY <1>1, <1>3 DEF Marked
<1> QED  BY <1>1, <1>3, <1>4

LEMMA StartKeeps ==
    ASSUME IInv, NEW m \in {"fresh", "resume", "incremental"}, Start(m)
    PROVE  IInv'
<1> USE DEF At, Go
<1>1. /\ UNCHANGED <<installVars, processVars, saved, inv, decision, stage, seed, previous,
                     nextStage, metaAt, todo, history, trouble>>
      /\ step = "idle" /\ step' = "token" /\ mode' = m /\ (m = "resume" => saved # NoState)
      /\ runs < MaxRuns /\ runs' = runs + 1
      /\ prev' = IF saved = NoState THEN NoPrev ELSE Facts(saved)
      /\ old' = IF m = "fresh" THEN saved ELSE NoState
      /\ mem' = CASE m = "resume" -> saved
                  [] m = "incremental" /\ saved # NoState -> Carried(saved, runs')
                  [] OTHER -> NewState(runs')
  BY DEF Start
<1>2. MaxRuns \in Nat /\ runs \in Nat /\ runs' \in 0..MaxRuns /\ runs' \in Nat \ {0}
  <2>1. MaxRuns \in Nat /\ runs \in 0..MaxRuns
    BY ExportAssumption DEF IInv, Shapes, WorldShapes, RunShapes
  <2> QED  BY <1>1, <2>1
<1>3. saved \in Record \union {NoState}
      /\ (saved # NoState => Marked(saved) /\ Vouched(saved.witness))
  BY DEF IInv, Shapes, WorldShapes, RunShapes, MarkInv, WitnessInv
<1>4. /\ mem' \in Record /\ Marked(mem') /\ Vouched(mem'.witness)
      /\ mem'.witness = IF m = "fresh" \/ saved = NoState THEN NoWitness ELSE saved.witness
  <2>1. CASE m = "resume"
    BY <1>1, <1>3, <2>1
  <2>2. CASE m = "incremental" /\ saved # NoState
    <3>1. mem' = Carried(saved, runs')
      BY <1>1, <2>2
    <3>2. PICK r \in Nat \ {0} : r = runs'
      BY <1>2
    <3> QED  BY <2>2, <3>1, <3>2, CarriedShape
  <2>3. CASE m = "fresh" \/ (m = "incremental" /\ saved = NoState)
    <3>1. mem' = NewState(runs')
      BY <1>1, <2>3
    <3>2. PICK r \in Nat \ {0} : r = runs'
      BY <1>2
    <3> QED  BY <2>3, <3>1, <3>2, NewStateShape
  <2> QED  BY <2>1, <2>2, <2>3
<1>5. mem' # NoState
  BY <1>4, RecordIsSome
<1>6. mode = "none" /\ stage = 0 /\ nextStage <= 2 * runs + 1 /\ decision.scope # "bounded"
  BY <1>1 DEF IInv, RunInv
<1>7. prev' \in [completed : BOOLEAN, warned : BOOLEAN, started : Nat]
  BY <1>1, <1>3 DEF NoPrev, Facts, Record
<1>8. Shapes'
  <2>1. WorldShapes'
    BY <1>1, <1>2, <1>3, <1>4, <1>7
       DEF IInv, Shapes, WorldShapes, processVars, childVars, discord, history
  <2>2. RunShapes'
    BY <1>1, <1>2, <1>3, <1>4, <1>7
       DEF IInv, Shapes, RunShapes, processVars, childVars, discord, history, Before
  <2> QED  BY <2>1, <2>2 DEF Shapes
<1>9. InstallInv'
  BY <1>1, InstallKept DEF IInv
<1>10. RunInv'
  <2>1. nextStage' <= 2 * runs' - 1 /\ nextStage' <= 2 * runs' + 1
    <3>1. nextStage \in Nat
      BY ExportAssumption DEF IInv, Shapes, WorldShapes, RunShapes
    <3> QED  BY <1>1, <1>2, <1>6, <3>1
  <2> QED  BY <1>1, <1>5, <1>6, <2>1 DEF IInv, RunInv, processVars, Early
<1>11. RecordInv' /\ ChildInv' /\ ShownInv' /\ OnlyThePair'
  BY <1>1, <1>4 DEF IInv, RecordInv, ChildInv, ShownInv, OnlyThePair, Before, Kept, processVars, childVars
<1>12. WitnessInv' /\ MediaInv'
  BY <1>1, <1>4, <1>6 DEF IInv, WitnessInv, MediaInv, Vouched, Inspectable, Kept,
              processVars, childVars, history
<1>13. ContentsInv' /\ MarkInv'
  BY <1>1, <1>4, <1>6 DEF IInv, ContentsInv, MarkInv, Closed, Marked, Of, Message, Kept, Before,
              processVars, childVars, discord
<1> QED  BY <1>8, <1>9, <1>10, <1>11, <1>12, <1>13 DEF IInv

-----------------------------------------------------------------------------
(* How much is asked for.                                                  *)

\* A set of numbers has a least one, and one with a bound a greatest one.
LEMMA LeastNumber ==
    ASSUME NEW T \in SUBSET Nat, T # {}
    PROVE  Min(T) \in T /\ \A y \in T : Min(T) <= y
<1>1. IsWellFoundedOn(OpToRel(<, Nat), Nat)
  BY NatLessThanWellFounded
<1>2. PICK x \in T : \A y \in T : <<y, x>> \notin OpToRel(<, Nat)
  BY <1>1, WFMin, Zenon
<1>3. \A y \in T : x <= y
  <2> TAKE y \in T
  <2>1. ~(y < x)
    BY <1>2 DEF OpToRel
  <2> QED  BY <2>1
<1> QED  BY <1>3 DEF Min

LEMMA GreatestNumber ==
    ASSUME NEW N \in Nat, NEW T \in SUBSET (0..N), T # {}
    PROVE  Max(T) \in T /\ \A y \in T : y <= Max(T)
<1> DEFINE U == {N - x : x \in T}
<1>1. U \in SUBSET Nat /\ U # {}
  <2>1. \A x \in T : x \in 0..N /\ N - x \in Nat
    OBVIOUS
  <2>2. \E x \in T : N - x \in U
    OBVIOUS
  <2> QED  BY <2>1, <2>2
<1>2. Min(U) \in U /\ \A y \in U : Min(U) <= y
  BY <1>1, LeastNumber
<1>3. PICK x \in T : Min(U) = N - x
  BY <1>2
<1>4. \A y \in T : y <= x
  <2> TAKE y \in T
  <2>1. N - x <= N - y
    BY <1>2, <1>3
  <2> QED  BY <2>1
<1> QED  BY <1>4 DEF Max

\* The bound of a shorter export: nothing at or below it is missing.
LEMMA BoundDelivered ==
    ASSUME IInv, mem \in Record, NEW ids \in SUBSET Source, ids # {}
    PROVE  /\ After(ids) \in Nat /\ After(ids) <= Len(posts)
           /\ \A s \in ids : \A n \in Of(s) : n <= After(ids) => n \in mem.map
<1> DEFINE T == {mem.highWater[s] : s \in ids} \union {n - 1 : n \in mem.failed}
<1>1. mem # NoState /\ Marked(mem)
  BY RecordIsSome DEF IInv, MarkInv
<1>2. /\ \A s \in Source : mem.highWater[s] \in Nat /\ mem.highWater[s] <= Len(posts)
      /\ mem.failed \subseteq Message /\ Message = 1..Len(posts) /\ Len(posts) \in Nat
  BY <1>1 DEF Marked, Record, Message, IInv, Shapes, WorldShapes, RunShapes
<1>3. T \in SUBSET Nat
  BY <1>2
<1>4. T # {}
  OBVIOUS
<1>5. Min(T) \in T /\ \A y \in T : Min(T) <= y
  BY <1>3, <1>4, LeastNumber
<1>6. After(ids) = Min(T)
  BY DEF After
<1>7. PICK c \in ids : TRUE
  OBVIOUS
<1>8. After(ids) \in Nat /\ After(ids) <= Len(posts)
  <2>1. mem.highWater[c] \in T /\ mem.highWater[c] <= Len(posts)
    BY <1>2, <1>7
  <2>2. Min(T) <= mem.highWater[c] /\ Min(T) \in Nat
    BY <1>3, <1>5, <2>1
  <2> HIDE DEF T
  <2> QED  BY <1>2, <1>6, <1>7, <2>1, <2>2
<1>9. ASSUME NEW s \in ids, NEW n \in Of(s), n <= After(ids) PROVE n \in mem.map
  <2>1. mem.highWater[s] \in T /\ (n \in mem.failed => n - 1 \in T)
    OBVIOUS
  <2>2. n \in Message /\ n \in Nat
    BY <1>2 DEF Of
  <2> HIDE DEF T
  <2>3. n <= mem.highWater[s]
    <3>1. After(ids) <= mem.highWater[s] /\ mem.highWater[s] \in Nat
      BY <1>2, <1>5, <1>6, <2>1
    <3> QED  BY <1>8, <1>9, <2>2, <3>1
  <2>4. n \notin mem.failed
    <3>1. n \in mem.failed => After(ids) <= n - 1
      BY <1>5, <1>6, <2>1
    <3> QED  BY <1>8, <1>9, <2>2, <3>1
  <2> QED  BY <1>1, <1>9, <2>3, <2>4 DEF Marked
<1> QED  BY <1>8, <1>9

LEMMA FolderShape ==
    /\ Gone \in Folder /\ [Gone EXCEPT !.made = TRUE] \in Folder
    /\ [Gone EXCEPT !.made = TRUE].files = {} /\ [Gone EXCEPT !.made = TRUE].posts = {}
    /\ [Gone EXCEPT !.made = TRUE].known = 0
    /\ Gone.files = {} /\ Gone.posts = {} /\ Gone.known = 0
<1>1. Len(FirstPosts) \in Nat /\ MaxTrouble \in Nat
  BY ExportAssumption
<1>2. 0 \in 0..MaxPosts
  BY <1>1 DEF MaxPosts
<1> QED  BY <1>2 DEF Gone, Folder

\* A witness is of an earlier stage, and stays true when another folder changes.
LEMMA VouchedApart ==
    ASSUME IInv, NEW w \in Witness, Vouched(w), nextStage <= nextStage', nextStage' \in Nat,
           staged => staged', spoilt => spoilt',
           w # NoWitness => dirs'[w.stage] = dirs[w.stage]
    PROVE  Vouched(w)'
<1>1. nextStage \in Nat /\ (w # NoWitness => w.stage \in 1..(nextStage' - 1))
  <2>1. nextStage \in Nat
    BY ExportAssumption DEF IInv, Shapes, WorldShapes, RunShapes
  <2> QED  BY <2>1 DEF Vouched
<1> QED  BY <1>1 DEF Vouched, Inspectable

\* The records' witnesses have their shape and hold.
LEMMA WitnessFacts ==
    ASSUME IInv
    PROVE  /\ saved # NoState => saved \in Record /\ saved.witness \in Witness /\ Vouched(saved.witness)
           /\ mem # NoState => mem \in Record /\ mem.witness \in Witness /\ Vouched(mem.witness)
           /\ \A w \in Witness : Vouched(w) /\ w # NoWitness =>
                 w.stage \in 1..MaxStages /\ w.stage < nextStage /\ w.stage \in Nat
           /\ nextStage \in Nat /\ stage \in 0..MaxStages /\ stage \in Nat /\ MaxStages \in Nat
           /\ NoWitness.stage = 0
<1>1. MaxStages \in Nat /\ nextStage \in 1..(MaxStages + 1) /\ stage \in 0..MaxStages
      /\ {saved, mem} \subseteq Record \union {NoState}
  BY ExportAssumption DEF IInv, Shapes, WorldShapes, RunShapes
<1>2. \A w \in Witness : Vouched(w) /\ w # NoWitness => w.stage \in 1..(nextStage - 1)
  BY DEF Vouched
<1>3. NoWitness.stage = 0
  BY DEF NoWitness
<1> QED  BY <1>1, <1>2, <1>3 DEF IInv, WitnessInv, Record

LEMMA DecideKeeps == IInv /\ Decide => IInv'
<1> SUFFICES ASSUME IInv, Decide PROVE IInv'
  OBVIOUS
<1> USE DEF At, Go
<1>1. /\ step = "inventory" /\ step' = "seed" /\ inv.left = {} /\ inv' = NoInventory
      /\ decision' = IF Bounded
                     THEN [scope |-> "bounded", expected |-> inv.ids, after |-> After(inv.ids)]
                     ELSE Full(inv.ids)
      /\ stage' = nextStage /\ nextStage' = nextStage + 1
      /\ dirs' = [dirs EXCEPT ![stage'] = [Gone EXCEPT !.made = TRUE]]
      /\ UNCHANGED <<installVars, discord, childVars, saved, mem, old, prev, mode, seed, previous,
                     metaAt, todo, history, counters>>
  BY DEF Decide, CreateStage
<1>2. /\ mode = "incremental" /\ mem # NoState /\ mem \in Record /\ stage = 0
      /\ nextStage <= 2 * runs - 1 /\ child = "none"
  BY <1>1, NoChild DEF IInv, RunInv, Shapes, WorldShapes, RunShapes, Early
<1>3. /\ runs \in Nat /\ nextStage \in Nat /\ MaxStages \in Nat
      /\ nextStage \in 1..MaxStages /\ nextStage + 1 \in 1..(MaxStages + 1)
      /\ nextStage + 1 <= 2 * runs
  <2>1. MaxStages \in Nat /\ MaxRuns \in Nat /\ MaxStages >= 2 * MaxRuns
    BY ExportAssumption
  <2>2. runs \in 0..MaxRuns /\ nextStage \in 1..(MaxStages + 1)
    BY DEF IInv, Shapes, WorldShapes, RunShapes
  <2> QED  BY <1>2, <2>1, <2>2
<1>4. /\ dirs' \in [0..MaxStages -> Folder]
      /\ dirs'[stage'] = [Gone EXCEPT !.made = TRUE]
      /\ \A d \in 0..MaxStages : d # stage' => dirs'[d] = dirs[d]
  BY <1>1, <1>3, FolderShape DEF IInv, Shapes, WorldShapes, RunShapes
<1>5. /\ decision' \in [scope : {"full", "bounded"}, expected : SUBSET Source, after : Nat]
      /\ decision'.scope = "full" => decision'.after = 0
      /\ decision'.scope = "bounded" =>
           /\ decision'.after <= Len(posts)
           /\ \A s \in decision'.expected : \A n \in Of(s) : n <= decision'.after => n \in mem.map
  <2>1. inv.ids \in SUBSET Source
    BY DEF IInv, Shapes, WorldShapes, RunShapes
  <2>2. CASE Bounded
    <3>1. PICK ids \in SUBSET Source : ids = inv.ids /\ ids # {}
      BY <2>1, <2>2 DEF Bounded
    <3>2. /\ After(ids) \in Nat /\ After(ids) <= Len(posts)
          /\ \A s \in ids : \A n \in Of(s) : n <= After(ids) => n \in mem.map
      BY <1>2, <3>1, BoundDelivered
    <3>3. decision' = [scope |-> "bounded", expected |-> ids, after |-> After(ids)]
      BY <1>1, <2>2, <3>1
    <3> QED  BY <3>2, <3>3
  <2>3. CASE ~Bounded
    BY <1>1, <2>1, <2>3 DEF Full
  <2> QED  BY <2>2, <2>3
<1>6. Shapes'
  <2>1. inv' \in [ids : SUBSET Source, left : SUBSET Source, complete : BOOLEAN]
    BY <1>1 DEF NoInventory
  <2>2. stage' \in 0..MaxStages /\ nextStage' \in 1..(MaxStages + 1)
    BY <1>1, <1>3
  <2> HIDE DEF At, Go
  <2>3. WorldShapes'
    BY <1>1, <1>4, <1>5, <2>1, <2>2
       DEF IInv, Shapes, WorldShapes, discord, childVars, history, counters
  <2>4. RunShapes'
    BY <1>1, <1>4, <1>5, <2>1, <2>2
       DEF IInv, Shapes, RunShapes, discord, childVars, history, counters, Before
  <2> QED  BY <2>3, <2>4 DEF Shapes
<1>7. InstallInv'
  BY <1>1, InstallKept DEF IInv
<1>8. RunInv'
  <2>1. \A d \in 0..MaxStages : d >= nextStage' => dirs'[d] = Gone
    <3>1. \A d \in 0..MaxStages : d >= nextStage + 1 => d >= nextStage /\ d # nextStage
      BY <1>3
    <3> QED  BY <1>1, <1>4, <3>1 DEF IInv, RunInv
  <2>2. /\ stage' # 0 /\ stage' < nextStage' /\ nextStage' <= 2 * runs' /\ nextStage' <= 2 * runs' + 1
    BY <1>1, <1>3 DEF counters
  <2> QED  BY <1>1, <1>2, <1>5, <2>1, <2>2 DEF IInv, RunInv, Early
<1>9. RecordInv' /\ ChildInv' /\ ShownInv' /\ OnlyThePair'
  BY <1>1, <1>2 DEF IInv, RecordInv, ChildInv, ShownInv, OnlyThePair, Before, Kept, childVars
<1>10. WitnessInv'
  <2>1. ASSUME NEW w \in Witness, Vouched(w)
        PROVE  Vouched(w)' /\ w.stage # stage'
    <3>1. w # NoWitness => w.stage \in 0..MaxStages /\ w.stage # stage'
      BY <1>1, <1>3, <2>1, WitnessFacts
    <3>2. w = NoWitness => w.stage # stage'
      BY <1>1, <1>3, WitnessFacts
    <3> QED  BY <1>1, <1>3, <1>4, <2>1, <3>1, <3>2, VouchedApart DEF history
  <2> QED  BY <1>1, <1>2, <2>1, WitnessFacts DEF WitnessInv, Vouched, Inspectable, Kept, history
<1>11. MediaInv'
  BY <1>1, <1>2, <1>3, <1>4 DEF IInv, MediaInv, childVars, history
<1>12. ContentsInv'
  <2>1. /\ dirs'[stage'].posts = {} /\ dirs'[stage'].files = {} /\ dirs'[stage'].known = 0
        /\ UNCHANGED posts /\ Len(posts) \in Nat /\ stage' # 0 /\ 0 \in 0..MaxStages
    <3>1. dirs'[stage'].posts = {} /\ dirs'[stage'].files = {} /\ dirs'[stage'].known = 0
      BY <1>4, FolderShape
    <3>2. UNCHANGED posts
      BY <1>1 DEF discord
    <3>3. Len(posts) \in Nat
      BY DEF IInv, Shapes, WorldShapes, RunShapes
    <3>4. stage' # 0 /\ 0 \in 0..MaxStages
      BY <1>1, <1>3
    <3> QED  BY <3>1, <3>2, <3>3, <3>4
  <2>2. ASSUME NEW d \in 0..MaxStages
        PROVE  /\ dirs'[d].posts \subseteq Message /\ dirs'[d].known <= Len(posts)
               /\ \A n \in dirs'[d].posts : posts[n] \in dirs'[d].files
    <3>1. CASE d = stage'
      BY <2>1, <3>1
    <3>2. CASE d # stage'
      BY <1>4, <3>2 DEF IInv, ContentsInv
    <3> QED  BY <3>1, <3>2
  <2>3. Closed(0, 0)'
    BY <1>4, <2>1 DEF IInv, ContentsInv, Closed, Message
  <2>4. Closed(stage, decision.after)'
    BY <2>1 DEF Closed
  <2> QED  BY <2>1, <2>2, <2>3, <2>4 DEF ContentsInv, Message
<1>13. MarkInv'
  BY <1>1, <1>2, <1>5 DEF IInv, MarkInv, Marked, Of, Message, Kept, discord
<1> QED  BY <1>6, <1>7, <1>8, <1>9, <1>10, <1>11, <1>12, <1>13 DEF IInv

-----------------------------------------------------------------------------
(* Media to keep.                                                          *)

\* Media is kept from a folder that is whole, or from the export folder after
\* a stage was adopted in its place.
LEMMA SeedSourceFacts ==
    ASSUME IInv, At("seed")
    PROVE  /\ SeedSource \in -1..MaxStages
           /\ SeedSource # -1 =>
                /\ dirs[SeedSource].media = "whole" \/ spoilt \/ (staged /\ SeedSource = 0)
                /\ stage = 0 => dirs[0].media = "whole" \/ staged
<1> DEFINE w == mem.witness
           d == IF w = NoWitness THEN 0 ELSE w.stage
<1>1. mem # NoState /\ w \in Witness /\ Vouched(w) /\ MaxStages \in Nat
  BY WitnessFacts DEF IInv, RunInv, At
<1>2. d \in 0..MaxStages
  BY <1>1 DEF Witness
<1>3. SeedSource \in {d, -1} /\ -1 \in -1..MaxStages /\ d \in -1..MaxStages
  BY <1>1, <1>2 DEF SeedSource
<1>4. ASSUME SeedSource # -1
      PROVE  /\ SeedSource = d /\ saved # NoState /\ saved.completed
             /\ w # NoWitness => w.covered
  <2>1. prev = IF saved = NoState THEN NoPrev ELSE Facts(saved)
    BY DEF IInv, RecordInv, At, Before
  <2>2. ReusePolicy(d) /\ (w # NoWitness => HasCompleteFullWitness(w, w.ids)) /\ SeedSource = d
    BY <1>4 DEF SeedSource
  <2>3. prev.completed
    BY <2>2 DEF ReusePolicy
  <2>4. saved # NoState /\ saved.completed
    BY <2>1, <2>3 DEF NoPrev, Facts
  <2> QED  BY <2>2, <2>4 DEF HasCompleteFullWitness
<1>5. saved # NoState /\ saved.completed => dirs[0].media = "whole" \/ staged
  BY DEF IInv, MediaInv, Shapes, WorldShapes, RunShapes
<1>6. w # NoWitness /\ w.covered => dirs[w.stage].media = "whole" \/ spoilt
  BY <1>1 DEF Vouched
<1> QED  BY <1>3, <1>4, <1>5, <1>6

\* What SeedMedia and SeedFails change.
Seeds(m) ==
    /\ step = "seed" /\ step' = "checkpoint"
    /\ seed' \in -1..MaxStages
    /\ dirs' = IF stage = 0 THEN dirs ELSE [dirs EXCEPT ![stage].media = m]
    /\ seed' # -1 /\ dirs'[stage].media = "partial" => spoilt \/ (staged /\ 0 \in {stage, seed'})
    /\ Trouble \/ UNCHANGED counters
    /\ UNCHANGED <<installVars, discord, childVars, saved, mem, old, prev, mode, inv, decision,
                   stage, previous, nextStage, metaAt, todo, history>>

LEMMA SeedsKeeps ==
    ASSUME IInv, NEW m \in {"none", "partial", "whole"}, Seeds(m)
    PROVE  IInv'
<1> USE DEF At
<1>1. /\ UNCHANGED <<installVars, discord, childVars, saved, mem, old, prev, mode, inv, decision,
                     stage, previous, nextStage, metaAt, todo, history>>
      /\ step = "seed" /\ step' = "checkpoint" /\ seed' \in -1..MaxStages
      /\ seed' # -1 /\ dirs'[stage].media = "partial" => spoilt \/ (staged /\ 0 \in {stage, seed'})
  BY DEF Seeds
<1>2. trouble' \in 0..MaxTrouble /\ runs' \in 0..MaxRuns /\ runs' = runs
      /\ Len(posts') <= Len(FirstPosts) + trouble'
  BY <1>1, CountersShape DEF Seeds, discord
<1>3. dirs \in [0..MaxStages -> Folder] /\ stage \in 0..MaxStages
  BY DEF IInv, Shapes, WorldShapes, RunShapes
<1>4. dirs' = dirs \/ (stage # 0 /\ dirs' = [dirs EXCEPT ![stage].media = m])
  BY DEF Seeds
<1>5. dirs' \in [0..MaxStages -> Folder]
  BY <1>3, <1>4 DEF Folder
<1>6. ASSUME NEW d \in 0..MaxStages
      PROVE  /\ d # stage \/ stage = 0 => dirs'[d] = dirs[d]
             /\ dirs'[d].made = dirs[d].made /\ dirs'[d].files = dirs[d].files
             /\ dirs'[d].posts = dirs[d].posts /\ dirs'[d].torn = dirs[d].torn
             /\ dirs'[d].known = dirs[d].known
  <2>1. CASE d = stage /\ stage # 0 /\ dirs' = [dirs EXCEPT ![stage].media = m]
    <3>1. dirs'[d] = [dirs[d] EXCEPT !.media = m] /\ dirs[d] \in Folder
      BY <1>3, <2>1
    <3> QED  BY <2>1, <3>1 DEF Folder
  <2>2. CASE d # stage \/ dirs' = dirs
    BY <1>3, <1>4, <2>2
  <2> QED  BY <1>4, <2>1, <2>2
<1>7. Shapes'
  <2>1. WorldShapes'
    BY <1>1, <1>2, <1>5 DEF IInv, Shapes, WorldShapes, discord, childVars, history
  <2>2. RunShapes'
    BY <1>1, <1>2, <1>5 DEF IInv, Shapes, RunShapes, discord, childVars, history, Before
  <2> QED  BY <2>1, <2>2 DEF Shapes
<1>8. InstallInv'
  BY <1>1, InstallKept DEF IInv
<1>9. RunInv'
  <2>1. stage < nextStage /\ stage \in Nat /\ nextStage \in Nat
    BY WitnessFacts DEF IInv, RunInv
  <2>2. \A d \in 0..MaxStages : d >= nextStage => dirs'[d] = Gone
    BY <1>6, <2>1 DEF IInv, RunInv
  <2> QED  BY <1>1, <1>2, <2>2 DEF IInv, RunInv, Early
<1>10. RecordInv' /\ OnlyThePair'
  BY <1>1 DEF IInv, RecordInv, OnlyThePair, Before, Kept
<1>11. child = "none" /\ ChildInv' /\ ShownInv'
  BY <1>1, NoChild DEF IInv, ChildInv, ShownInv, childVars
<1>12. WitnessInv'
  <2>1. ASSUME NEW w \in Witness, Vouched(w), stage # 0 => w.stage # stage PROVE Vouched(w)'
    <3>1. w.stage \in 0..MaxStages /\ dirs'[w.stage] = dirs[w.stage]
      BY <1>6, <2>1 DEF Witness
    <3>2. nextStage \in Nat /\ nextStage' = nextStage /\ nextStage <= nextStage'
      BY <1>1, WitnessFacts
    <3> QED  BY <1>1, <2>1, <3>1, <3>2, VouchedApart DEF history
  <2> QED  BY <1>1, <2>1, WitnessFacts DEF IInv, WitnessInv, Kept
<1>13. MediaInv'
  <2>1. 0 \in 0..MaxStages /\ dirs'[0] = dirs[0]
    BY <1>3, <1>6, WitnessFacts
  <2> QED  BY <1>1, <1>11, <2>1 DEF IInv, MediaInv, childVars, history
<1>14. ContentsInv'
  <2>1. 0 \in 0..MaxStages
    BY WitnessFacts
  <2> QED  BY <1>1, <1>3, <1>6, <2>1 DEF IInv, ContentsInv, Closed, Of, Message, Before, childVars, discord
<1>15. MarkInv'
  BY <1>1 DEF IInv, MarkInv, Marked, Of, Message, Kept, discord
<1> QED  BY <1>7, <1>8, <1>9, <1>10, <1>11, <1>12, <1>13, <1>14, <1>15 DEF IInv

LEMMA SeedSteps ==
    ASSUME IInv, SeedMedia \/ SeedFails
    PROVE  IInv'
<1>1. dirs \in [0..MaxStages -> Folder] /\ stage \in 0..MaxStages
  BY DEF IInv, Shapes, WorldShapes, RunShapes
<1>2. CASE SeedMedia
  <2>1. /\ SeedSource \in -1..MaxStages
        /\ SeedSource # -1 =>
             /\ dirs[SeedSource].media = "whole" \/ spoilt \/ (staged /\ SeedSource = 0)
             /\ stage = 0 => dirs[0].media = "whole" \/ staged
    BY <1>2, SeedSourceFacts DEF SeedMedia
  <2>2. /\ seed' = SeedSource
        /\ dirs' = IF SeedSource = -1 \/ stage = 0 THEN dirs
                   ELSE [dirs EXCEPT ![stage].media = dirs[SeedSource].media]
    BY <1>2 DEF SeedMedia
  <2> DEFINE m == IF SeedSource = -1 THEN dirs[stage].media ELSE dirs[SeedSource].media
  <2>3. m \in {"none", "partial", "whole"}
    <3>1. SeedSource = -1 \/ SeedSource \in 0..MaxStages
      BY <2>1, WitnessFacts
    <3> QED  BY <1>1, <3>1 DEF Folder
  <2>4. dirs' = IF stage = 0 THEN dirs ELSE [dirs EXCEPT ![stage].media = m]
    <3>1. SeedSource = -1 => dirs = [dirs EXCEPT ![stage].media = m]
      BY <1>1 DEF Folder
    <3> QED  BY <2>2, <3>1
  <2>5. SeedSource # -1 /\ stage # 0 => dirs'[stage].media = dirs[SeedSource].media
    BY <1>1, <2>2 DEF Folder
  <2>6. seed' # -1 /\ dirs'[stage].media = "partial" => spoilt \/ (staged /\ 0 \in {stage, seed'})
    BY <2>1, <2>2, <2>5
  <2>7. Seeds(m)
    BY <1>2, <2>1, <2>2, <2>4, <2>6 DEF Seeds, SeedMedia, At, Go
  <2>8. PICK k \in {"none", "partial", "whole"} : k = m
    BY <2>3
  <2> HIDE DEF m
  <2> QED  BY <2>7, <2>8, SeedsKeeps
<1>3. CASE SeedFails
  <2>1. -1 \in -1..MaxStages
    BY WitnessFacts
  <2>2. Seeds("partial")
    BY <1>3, <2>1 DEF Seeds, SeedFails, At, Go
  <2> QED  BY <2>2, SeedsKeeps
<1> QED  BY <1>2, <1>3

-----------------------------------------------------------------------------
(* The export begins.                                                      *)

\* A record that says the export is not complete is the same otherwise.
LEMMA Uncompleted ==
    ASSUME NEW r \in Record
    PROVE  LET u == [r EXCEPT !.completed = FALSE] IN
           /\ u \in Record /\ u # NoState /\ ~u.completed /\ u.witness = r.witness
           /\ Marked(r) => Marked(u)
<1> DEFINE u == [r EXCEPT !.completed = FALSE]
<1>1. /\ u \in Record /\ u.completed = FALSE /\ u.witness = r.witness
      /\ u.map = r.map /\ u.failed = r.failed /\ u.highWater = r.highWater
  BY DEF Record
<1>2. u # NoState
  BY <1>1, RecordIsSome
<1> HIDE DEF u
<1>3. Marked(r) => Marked(u)
  BY <1>1 DEF Marked
<1> QED  BY <1>1, <1>2, <1>3 DEF u

\* What the checkpoint leaves in state.json and in memory.
LEMMA CheckpointLeaves ==
    ASSUME IInv, StartExport
    PROVE  /\ mem' \in Record /\ mem' # NoState /\ mem'.witness = mem.witness /\ Marked(mem')
           /\ mem'.map = mem.map
           /\ saved' \in Record \union {NoState}
           /\ mode = "incremental" => saved' = mem'
           /\ saved' # NoState =>
                /\ ~saved'.completed /\ Marked(saved') /\ saved'.witness \in Witness
                /\ Vouched(saved'.witness)
                /\ stage # 0 => saved'.witness.stage # stage
<1>1. step = "checkpoint" /\ mem # NoState /\ mem \in Record /\ Marked(mem) /\ Vouched(mem.witness)
      /\ (stage # 0 => mem.witness.stage # stage) /\ mem.witness \in Witness
  BY WitnessFacts DEF StartExport, At, IInv, RunInv, MarkInv, WitnessInv, Kept
<1>2. saved # NoState => saved \in Record /\ Marked(saved) /\ Vouched(saved.witness) /\ saved.witness \in Witness
                         /\ (stage # 0 => saved.witness.stage # stage)
  BY <1>1, WitnessFacts DEF IInv, MarkInv, WitnessInv, Kept
<1>3. CASE mode # "fresh"
  <2>1. mem' = [mem EXCEPT !.completed = FALSE] /\ saved' = mem'
    BY <1>3 DEF StartExport, Checkpoint
  <2>2. mem'.map = mem.map
    BY <1>1, <2>1 DEF Record
  <2>3. PICK r \in Record : r = mem
    BY <1>1
  <2> QED  BY <1>1, <2>1, <2>2, <2>3, Uncompleted
<1>4. CASE mode = "fresh"
  <2>1. /\ mem' = mem /\ old = saved
        /\ saved' = IF old = NoState THEN saved ELSE [old EXCEPT !.completed = FALSE]
    BY <1>1, <1>4 DEF StartExport, Checkpoint, IInv, RecordInv, Before
  <2>2. CASE saved = NoState
    BY <1>1, <1>4, <2>1, <2>2
  <2>3. CASE saved # NoState
    <3>1. saved' = [saved EXCEPT !.completed = FALSE]
      BY <2>1, <2>3
    <3>2. PICK r \in Record : r = saved
      BY <1>2, <2>3
    <3> QED  BY <1>1, <1>2, <1>4, <2>1, <2>3, <3>1, <3>2, Uncompleted
  <2> QED  BY <2>2, <2>3
<1> QED  BY <1>3, <1>4

LEMMA StartExportKeeps == IInv /\ StartExport => IInv'
<1> SUFFICES ASSUME IInv, StartExport PROVE IInv'
  OBVIOUS
<1> USE DEF At
<1>1. /\ step = "checkpoint" /\ step' = "export"
      /\ dirs' = [dirs EXCEPT ![stage].made = TRUE]
      /\ spoilt' = (spoilt \/ (request'.tainted /\ staged /\ 0 \in {stage, seed}))
      /\ old' = NoState /\ prev' = NoPrev /\ seed' = 0
      /\ UNCHANGED <<installVars, discord, mode, inv, decision, stage, previous, nextStage,
                     metaAt, todo, staged, counters>>
  BY DEF StartExport, Go
<1>2. /\ child' = "starting" /\ request' = Command(stage, decision.after, seed # -1)
      /\ pending' = {} /\ failing' = {} /\ stderr' = {} /\ had' = FALSE /\ progress' = NoProgress
  BY DEF StartExport, Spawn
<1>3. dirs \in [0..MaxStages -> Folder] /\ stage \in 0..MaxStages /\ decision.after \in Nat
      /\ stage \in Nat /\ nextStage \in Nat /\ MaxStages \in Nat /\ 0 \in 0..MaxStages /\ stage < nextStage
  BY WitnessFacts DEF IInv, Shapes, WorldShapes, RunShapes, RunInv
<1>4. dirs' \in [0..MaxStages -> Folder]
  <2>1. [dirs[stage] EXCEPT !.made = TRUE] \in Folder
    BY <1>3 DEF Folder
  <2>2. dirs' = [dirs EXCEPT ![stage] = [dirs[stage] EXCEPT !.made = TRUE]]
    BY <1>1
  <2> QED  BY <1>3, <2>1, <2>2
<1>5. ASSUME NEW d \in 0..MaxStages
      PROVE  /\ d # stage => dirs'[d] = dirs[d]
             /\ dirs'[d].files = dirs[d].files /\ dirs'[d].media = dirs[d].media
             /\ dirs'[d].posts = dirs[d].posts /\ dirs'[d].torn = dirs[d].torn
             /\ dirs'[d].known = dirs[d].known
  <2>1. CASE d = stage
    <3>1. dirs'[d] = [dirs[d] EXCEPT !.made = TRUE] /\ dirs[d] \in Folder
      BY <1>1, <1>3, <2>1
    <3> QED  BY <2>1, <3>1 DEF Folder
  <2>2. CASE d # stage
    BY <1>1, <1>3, <2>2
  <2> QED  BY <2>1, <2>2
<1>6. /\ request' \in Asked /\ request'.dir = stage /\ request'.after = decision.after
      /\ request'.tainted = (seed # -1 /\ dirs[stage].media = "partial")
  BY <1>2, <1>3 DEF Command, Asked
<1>7. /\ mem' \in Record /\ mem' # NoState /\ mem'.witness = mem.witness /\ Marked(mem')
      /\ mem'.map = mem.map
      /\ saved' \in Record \union {NoState}
      /\ mode = "incremental" => saved' = mem'
      /\ saved' # NoState =>
           /\ ~saved'.completed /\ Marked(saved') /\ saved'.witness \in Witness
           /\ Vouched(saved'.witness)
           /\ stage # 0 => saved'.witness.stage # stage
  BY CheckpointLeaves
<1>8. /\ spoilt \in BOOLEAN /\ staged \in BOOLEAN /\ spoilt' \in BOOLEAN
      /\ spoilt => spoilt'
      /\ request'.tainted => spoilt'
      /\ spoilt' => staged
  <2>1. spoilt \in BOOLEAN /\ staged \in BOOLEAN
    BY DEF IInv, Shapes, WorldShapes, RunShapes
  <2>2. spoilt => staged
    BY DEF IInv, MediaInv
  <2>3. request'.tainted => spoilt \/ (staged /\ 0 \in {stage, seed})
    BY <1>1, <1>6 DEF IInv, MediaInv
  <2> QED  BY <1>1, <2>1, <2>2, <2>3
<1>9. Shapes'
  <2>1. NoProgress \in Shown /\ NoPrev \in [completed : BOOLEAN, warned : BOOLEAN, started : Nat]
    BY DEF NoProgress, Shown, NoPrev, NoNumber
  <2>2. {saved, mem, old}' \subseteq Record \union {NoState}
    BY <1>1, <1>7
  <2>3. 0 \in -1..MaxStages
    BY <1>3
  <2>4. WorldShapes'
    BY <1>1, <1>2, <1>4, <1>6, <1>8, <2>1, <2>2, <2>3 DEF IInv, Shapes, WorldShapes, discord, counters
  <2>5. RunShapes'
    BY <1>1, <1>2, <1>4, <1>6, <1>8, <2>1, <2>2, <2>3 DEF IInv, Shapes, RunShapes, discord, counters
  <2> QED  BY <2>4, <2>5 DEF Shapes
<1>10. InstallInv'
  BY <1>1, InstallKept DEF IInv
<1>11. RunInv'
  <2>1. \A d \in 0..MaxStages : d >= nextStage => dirs'[d] = Gone
    BY <1>3, <1>5 DEF IInv, RunInv
  <2>2. mem # NoState
    BY <1>1 DEF IInv, RunInv
  <2> QED  BY <1>1, <1>7, <2>1, <2>2 DEF IInv, RunInv, Early, counters
<1>12. RecordInv' /\ OnlyThePair' /\ ChildInv' /\ ShownInv'
  BY <1>1, <1>2, <1>6, <1>7 DEF RecordInv, OnlyThePair, ChildInv, ShownInv, Before, Kept
<1>13. WitnessInv'
  <2>1. ASSUME NEW w \in Witness, Vouched(w), stage # 0 => w.stage # stage PROVE Vouched(w)'
    <3>1. w # NoWitness => w.stage \in 0..MaxStages /\ dirs'[w.stage] = dirs[w.stage]
      BY <1>3, <1>5, <2>1, WitnessFacts
    <3>2. nextStage \in Nat /\ nextStage' = nextStage /\ nextStage <= nextStage'
      BY <1>1, <1>3
    <3> QED  BY <1>1, <1>8, <2>1, <3>1, <3>2, VouchedApart
  <2>2. mem.witness \in Witness /\ Vouched(mem.witness) /\ (stage # 0 => mem.witness.stage # stage)
    BY <1>1, WitnessFacts DEF IInv, RunInv, WitnessInv, Kept
  <2>3. Vouched(mem.witness)'
    <3>1. PICK w \in Witness : w = mem'.witness
      BY <1>7, <2>2
    <3>2. Vouched(w)'
      BY <1>7, <2>1, <2>2, <3>1
    <3> QED  BY <3>1, <3>2 DEF Vouched, Inspectable
  <2>4. saved' # NoState => Vouched(saved.witness)'
    <3> SUFFICES ASSUME saved' # NoState PROVE Vouched(saved.witness)'
      OBVIOUS
    <3>1. PICK w \in Witness : w = saved'.witness
      BY <1>7
    <3>2. Vouched(w)'
      BY <1>7, <2>1, <3>1
    <3> QED  BY <3>1, <3>2 DEF Vouched, Inspectable
  <2> QED  BY <1>1, <1>7, <2>2, <2>3, <2>4 DEF WitnessInv, Kept
<1>14. MediaInv'
  BY <1>1, <1>7, <1>8 DEF MediaInv
<1>15. ContentsInv'
  BY <1>1, <1>3, <1>5 DEF IInv, ContentsInv, Closed, Of, Message, Before, discord
<1>16. MarkInv'
  <2>1. (saved' # NoState => Marked(saved)') /\ (mem' # NoState => Marked(mem)')
    BY <1>1, <1>7 DEF Marked, Of, Message, discord
  <2> QED  BY <1>1, <1>7, <2>1 DEF IInv, MarkInv, Of, Message, Kept, discord
<1> QED  BY <1>9, <1>10, <1>11, <1>12, <1>13, <1>14, <1>15, <1>16 DEF IInv

-----------------------------------------------------------------------------
(* The child at work.                                                      *)

\* A step of the child leaves folder f behind.
Works(f) ==
    /\ step = "export" /\ child # "none" /\ child' \in {"alive", "exited", "failed"}
    /\ UNCHANGED <<installVars, discord, request, had, saved, run, nextStage, metaAt, history>>
    /\ Trouble \/ UNCHANGED counters
    /\ dirs' = [dirs EXCEPT ![stage] = f] /\ f \in Folder
    /\ pending' \subseteq Source /\ failing' \subseteq Source /\ stderr' \subseteq failing'
    /\ progress' \in Shown

\* Folder f holds of the messages what the run's folder must.
Holds(f) ==
    /\ f.posts \subseteq Message /\ f.known <= Len(posts)
    /\ \A n \in f.posts : posts[n] \in f.files
    /\ \A m \in f.posts : \A n \in Message :
          posts[n] = posts[m] /\ decision.after < n /\ n <= m => n \in f.posts
    /\ stage # 0 =>
         \A s \in f.files \ f.torn : \A n \in Of(s) :
             decision.after < n /\ n <= f.known => n \in f.posts

LEMMA WorksKeeps ==
    ASSUME IInv, NEW f, Works(f), Holds(f), ChildInv', ShownInv'
    PROVE  IInv'
<1> USE DEF At
<1>1. /\ UNCHANGED <<installVars, discord, request, had, saved, run, nextStage, metaAt, history>>
      /\ step = "export" /\ child # "none" /\ child' \in {"alive", "exited", "failed"}
      /\ dirs' = [dirs EXCEPT ![stage] = f] /\ f \in Folder
      /\ pending' \subseteq Source /\ failing' \subseteq Source /\ stderr' \subseteq failing'
      /\ progress' \in Shown
  BY DEF Works
<1>2. trouble' \in 0..MaxTrouble /\ runs' \in 0..MaxRuns /\ runs' = runs
      /\ Len(posts') <= Len(FirstPosts) + trouble'
  BY <1>1, CountersShape DEF Works, discord
<1>3. dirs \in [0..MaxStages -> Folder] /\ stage \in 0..MaxStages /\ 0 \in 0..MaxStages
      /\ stage \in Nat /\ nextStage \in Nat /\ stage < nextStage
      /\ decision.scope \in {"full", "bounded"}
  <2>1. dirs \in [0..MaxStages -> Folder] /\ decision.scope \in {"full", "bounded"}
    BY DEF IInv, Shapes, WorldShapes, RunShapes
  <2>2. 0 \in 0..MaxStages
    BY WitnessFacts
  <2> QED  BY <2>1, <2>2, WitnessFacts DEF IInv, RunInv
<1>4. /\ dirs' \in [0..MaxStages -> Folder] /\ dirs'[stage] = f
      /\ \A d \in 0..MaxStages : d # stage => dirs'[d] = dirs[d]
  BY <1>1, <1>3
<1>5. Shapes'
  <2>1. WorldShapes'
    BY <1>1, <1>2, <1>4 DEF IInv, Shapes, WorldShapes, discord, run, history
  <2>2. RunShapes'
    BY <1>1, <1>2, <1>4 DEF IInv, Shapes, RunShapes, discord, run, history
  <2> QED  BY <2>1, <2>2 DEF Shapes
<1>6. InstallInv'
  BY <1>1, InstallKept DEF IInv
<1>7. RunInv'
  <2>1. \A d \in 0..MaxStages : d >= nextStage => dirs'[d] = Gone
    BY <1>3, <1>4 DEF IInv, RunInv
  <2> QED  BY <1>1, <1>2, <2>1 DEF IInv, RunInv, Early, run
<1>8. RecordInv' /\ OnlyThePair'
  BY <1>1 DEF IInv, RecordInv, OnlyThePair, Before, Kept, run
<1>9. WitnessInv'
  <2>1. ASSUME NEW w \in Witness, Vouched(w), stage # 0 => w.stage # stage PROVE Vouched(w)'
    <3>1. w # NoWitness => w.stage \in 0..MaxStages /\ dirs'[w.stage] = dirs[w.stage]
      BY <1>3, <1>4, <2>1, WitnessFacts
    <3>2. nextStage' = nextStage /\ nextStage <= nextStage'
      BY <1>1, <1>3
    <3> QED  BY <1>1, <1>3, <2>1, <3>1, <3>2, VouchedApart DEF history
  <2> QED  BY <1>1, <2>1, WitnessFacts DEF IInv, WitnessInv, Kept, run
<1>10. MediaInv'
  <2>1. ~staged /\ saved # NoState /\ saved.completed => FALSE
    BY <1>1 DEF IInv, RecordInv
  <2> QED  BY <1>1, <2>1 DEF IInv, MediaInv, run, history
<1>11. ContentsInv'
  <2>1. stage = 0 => decision.after = 0
    BY <1>3 DEF IInv, RunInv
  <2>2. ASSUME NEW d \in 0..MaxStages
        PROVE  /\ dirs'[d].posts \subseteq Message /\ dirs'[d].known <= Len(posts)
               /\ \A n \in dirs'[d].posts : posts[n] \in dirs'[d].files
    BY <1>4 DEF Holds, IInv, ContentsInv
  <2>3. Closed(stage, decision.after)'
    BY <1>1, <1>4 DEF Holds, Closed, Message, run, discord
  <2>4. Closed(0, 0)'
    <3>1. CASE stage = 0
      BY <1>1, <2>1, <2>3, <3>1 DEF Closed, run
    <3>2. CASE stage # 0
      BY <1>1, <1>3, <1>4, <3>2 DEF IInv, ContentsInv, Closed, Message, discord
    <3> QED  BY <3>1, <3>2
  <2>5. stage # 0 =>
          \A s \in dirs'[stage].files \ dirs'[stage].torn : \A n \in Of(s) :
             decision.after < n /\ n <= dirs'[stage].known => n \in dirs'[stage].posts
    BY <1>4 DEF Holds
  <2> QED  BY <1>1, <2>2, <2>3, <2>4, <2>5 DEF ContentsInv, Before, Message, Of, run, discord
<1>12. MarkInv'
  BY <1>1 DEF IInv, MarkInv, Marked, Of, Message, Kept, run, discord
<1> QED  BY <1>5, <1>6, <1>7, <1>8, <1>9, <1>10, <1>11, <1>12 DEF IInv

\* What every step of the child may use.
LEMMA ChildFacts ==
    ASSUME IInv, step = "export", child # "none"
    PROVE  /\ request.dir = stage /\ request.after = decision.after
           /\ dirs \in [0..MaxStages -> Folder] /\ stage \in 0..MaxStages
           /\ dirs[stage] \in Folder /\ Holds(dirs[stage])
           /\ pending \subseteq Source /\ failing \subseteq Source /\ stderr \subseteq failing
           /\ progress \in Shown /\ decision.after \in Nat
           /\ child = "starting" /\ stage # 0 => dirs[stage].files = {}
<1>1. /\ dirs \in [0..MaxStages -> Folder] /\ stage \in 0..MaxStages
      /\ pending \subseteq Source /\ failing \subseteq Source /\ stderr \subseteq failing
      /\ progress \in Shown /\ decision.after \in Nat
  BY DEF IInv, Shapes, WorldShapes, RunShapes
<1>2. request.dir = stage /\ request.after = decision.after
  BY DEF IInv, ChildInv
<1>3. Holds(dirs[stage]) /\ (child = "starting" /\ stage # 0 => dirs[stage].files = {})
  BY <1>1 DEF IInv, ContentsInv, Closed, Holds
<1> QED  BY <1>1, <1>2, <1>3

\* The channels are a finite set, and so is every count of them.
LEMMA Countable ==
    ASSUME NEW T \in SUBSET Source
    PROVE  /\ IsFiniteSet(T) /\ Cardinality(T) \in Nat /\ (Cardinality(T) = 0 <=> T = {})
           /\ \A U \in SUBSET T : Cardinality(U) \in Nat /\ Cardinality(U) <= Cardinality(T)
<1>1. IsFiniteSet(T)
  BY ExportAssumption, FS_Subset
<1> QED  BY <1>1, FS_Subset, FS_CardinalityType, FS_EmptySet

\* What the child's steps have in common.
ChildOnly ==
    /\ step = "export" /\ (Trouble \/ UNCHANGED counters)
    /\ UNCHANGED <<installVars, saved, run, nextStage, metaAt, history>>

LEMMA EnumerateKeeps ==
    ASSUME IInv, ChildOnly, Enumerate
    PROVE  IInv'
<1> USE DEF At, ChildOnly
<1>1. /\ child = "starting" /\ child' = "alive" /\ pending' = live
      /\ progress' = Header(Cardinality(live))
      /\ dirs' = [dirs EXCEPT ![request.dir].media = "partial", ![request.dir].lost = {},
                              ![request.dir].known = Len(posts)]
      /\ UNCHANGED <<discord, request, failing, stderr, had>>
  BY DEF Enumerate
<1>2. /\ request.dir = stage /\ dirs \in [0..MaxStages -> Folder] /\ stage \in 0..MaxStages
      /\ dirs[stage] \in Folder /\ Holds(dirs[stage])
      /\ failing = {} /\ stderr = {} /\ ~had /\ progress = NoProgress
      /\ (stage # 0 => dirs[stage].files = {})
  BY <1>1, ChildFacts DEF IInv, ChildInv, ShownInv
<1>3. live \subseteq Source /\ Len(posts) \in 0..MaxPosts
  <2>1. live \subseteq Source
    BY DEF IInv, Shapes, WorldShapes, RunShapes
  <2> QED  BY <2>1, Counted
<1>4. Cardinality(live) \in Nat
  BY <1>3, Countable
<1>5. /\ progress' \in Shown
      /\ progress'.done = {} /\ progress'.total = Cardinality(live) /\ progress'.final = <<>>
  BY <1>1, <1>2, <1>4 DEF Header, NoProgress, NoNumber, Shown
<1> DEFINE f == [dirs[stage] EXCEPT !.media = "partial", !.lost = {}, !.known = Len(posts)]
<1>6. /\ f \in Folder /\ f.lost = {} /\ f.posts = dirs[stage].posts /\ f.files = dirs[stage].files
      /\ f.known = Len(posts) /\ f.torn = dirs[stage].torn
  BY <1>2, <1>3 DEF Folder
<1>7. dirs' = [dirs EXCEPT ![stage] = f] /\ dirs'[stage] = f
  BY <1>1, <1>2
<1> HIDE DEF f
<1>8. Works(f)
  BY <1>1, <1>2, <1>3, <1>5, <1>6, <1>7 DEF Works
<1>9. Holds(f)
  BY <1>2, <1>3, <1>6 DEF Holds
<1>10. ChildInv'
  <2>1. stage' = stage /\ decision' = decision /\ step' = step
    BY DEF run
  <2> QED  BY <1>1, <1>2, <1>6, <1>7, <2>1 DEF IInv, ChildInv
<1>11. ShownInv'
  <2>1. progress'.done \union pending' \union failing' = live
    BY <1>1, <1>2, <1>5
  <2> QED  BY <1>1, <1>5, <2>1 DEF ShownInv
<1> QED  BY <1>8, <1>9, <1>10, <1>11, WorksKeeps

LEMMA ExportsKeeps ==
    ASSUME IInv, ChildOnly, NEW s \in Source, DceExports(s)
    PROVE  IInv'
<1> USE DEF At, ChildOnly
<1> DEFINE found == {n \in Of(s) : n > decision.after}
<1>1. /\ child = "alive" /\ s \in pending /\ pending' = pending \ {s}
      /\ progress' = PerChannel(s)
      /\ UNCHANGED <<discord, child, request, failing, stderr, had>>
  BY DEF DceExports
<1>2. /\ request.dir = stage /\ request.after = decision.after
      /\ dirs \in [0..MaxStages -> Folder] /\ stage \in 0..MaxStages
      /\ dirs[stage] \in Folder /\ Holds(dirs[stage])
      /\ pending \subseteq Source /\ failing \subseteq Source /\ stderr \subseteq failing
      /\ progress \in Shown /\ decision.after \in Nat
  BY <1>1, ChildFacts
<1>3. \/ dirs' = dirs
      \/ dirs' = [dirs EXCEPT ![stage].files = @ \union {s}, ![stage].torn = @ \ {s},
                              ![stage].posts = (@ \ Of(s)) \union found]
  BY <1>2 DEF DceExports
<1>4. /\ progress' \in Shown /\ progress'.done = progress.done \union {s}
      /\ progress'.total = progress.total /\ progress'.final = progress.final
  BY <1>1, <1>2 DEF PerChannel, Shown
<1>5. ShownInv'
  <2>1. progress'.done \union pending' \union failing' = progress.done \union pending \union failing
    BY <1>1, <1>4
  <2> QED  BY <1>1, <1>4, <2>1 DEF IInv, ShownInv
<1>6. ASSUME NEW f, f \in Folder, Holds(f), f.lost = dirs[stage].lost,
             dirs' = [dirs EXCEPT ![stage] = f]
      PROVE  IInv'
  <2>1. Works(f)
    BY <1>1, <1>2, <1>4, <1>6 DEF Works
  <2>2. dirs'[stage].lost = dirs[stage].lost
    BY <1>2, <1>6
  <2>3. ChildInv'
    <3>1. stage' = stage /\ decision' = decision /\ step' = step
      BY DEF run
    <3> QED  BY <1>1, <2>2, <3>1 DEF IInv, ChildInv
  <2> QED  BY <1>5, <1>6, <2>1, <2>3, WorksKeeps
<1>7. CASE dirs' = dirs
  <2>1. dirs' = [dirs EXCEPT ![stage] = dirs[stage]]
    BY <1>2, <1>7
  <2> QED  BY <1>2, <1>6, <2>1
<1>8. CASE dirs' = [dirs EXCEPT ![stage].files = @ \union {s}, ![stage].torn = @ \ {s},
                                ![stage].posts = (@ \ Of(s)) \union found]
  <2> DEFINE f == [dirs[stage] EXCEPT !.files = @ \union {s}, !.torn = @ \ {s},
                                      !.posts = (@ \ Of(s)) \union found]
  <2>1. Message = 1..Len(posts) /\ 1..Len(posts) \subseteq 1..MaxPosts
    <3>1. Message = 1..Len(posts) /\ Len(posts) \in 0..MaxPosts /\ MaxPosts \in Nat
      BY Counted
    <3> QED  BY <3>1
  <2>2. found \subseteq Of(s) /\ Of(s) \subseteq Message
    BY DEF Of
  <2>3. /\ f.files = dirs[stage].files \union {s} /\ f.torn = dirs[stage].torn \ {s}
        /\ f.posts = (dirs[stage].posts \ Of(s)) \union found
        /\ f.lost = dirs[stage].lost /\ f.known = dirs[stage].known
    BY <1>2 DEF Folder
  <2>4. f \in Folder
    BY <1>2, <2>1, <2>2 DEF Folder
  <2>5. dirs' = [dirs EXCEPT ![stage] = f]
    BY <1>2, <1>8
  <2> HIDE DEF f
  <2>6. Holds(f)
    <3>1. f.posts \subseteq Message /\ f.known <= Len(posts)
      BY <1>2, <2>2, <2>3 DEF Holds
    <3>2. \A n \in f.posts : posts[n] \in f.files
      BY <1>2, <2>3 DEF Holds, Of
    <3>3. ASSUME NEW m \in f.posts, NEW n \in Message,
                 posts[n] = posts[m], decision.after < n, n <= m
          PROVE  n \in f.posts
      <4>1. CASE posts[m] = s
        BY <1>2, <2>1, <2>3, <3>3, <4>1 DEF Of
      <4>2. CASE posts[m] # s
        <5>1. m \in dirs[stage].posts
          BY <2>3, <4>2 DEF Of
        <5>2. n \in dirs[stage].posts
          BY <1>2, <3>3, <5>1 DEF Holds
        <5> QED  BY <2>3, <3>3, <4>2, <5>2 DEF Of
      <4> QED  BY <4>1, <4>2
    <3>4. ASSUME stage # 0, NEW c \in f.files \ f.torn, NEW n \in Of(c),
                 decision.after < n, n <= f.known
          PROVE  n \in f.posts
      <4>1. CASE c = s
        BY <1>2, <2>1, <2>2, <2>3, <3>4, <4>1
      <4>2. CASE c # s
        <5>1. n \in dirs[stage].posts
          BY <1>2, <2>3, <3>4, <4>2 DEF Holds
        <5> QED  BY <2>3, <4>2, <5>1 DEF Of
      <4> QED  BY <4>1, <4>2
    <3> QED  BY <3>1, <3>2, <3>3, <3>4 DEF Holds
  <2> QED  BY <1>6, <2>3, <2>4, <2>5, <2>6
<1> QED  BY <1>3, <1>7, <1>8

\* The retries show nothing but what belongs to the announced channels.
LEMMA RetriesKeeps ==
    ASSUME IInv, ChildOnly, (\E s \in Source : DceRetries(s)) \/ DceAnnounces
    PROVE  IInv'
<1> USE DEF At, ChildOnly
<1>1. child = "alive" /\ UNCHANGED <<discord, dirs, child, request, pending, failing, stderr, had>>
  BY DEF DceRetries, DceAnnounces
<1>2. /\ dirs \in [0..MaxStages -> Folder] /\ stage \in 0..MaxStages
      /\ dirs[stage] \in Folder /\ Holds(dirs[stage])
      /\ pending \subseteq Source /\ failing \subseteq Source /\ stderr \subseteq failing
      /\ progress \in Shown
  BY <1>1, ChildFacts
<1>3. progress.final = <<>>
      /\ Cardinality(progress.done \union pending \union failing) = progress.total
  BY <1>1 DEF IInv, ShownInv
<1>4. /\ progress' \in Shown /\ progress'.final = <<>>
      /\ Cardinality(progress'.done \union pending \union failing) = progress'.total
  <2>1. CASE \E s \in Source : DceRetries(s)
    <3>1. PICK s \in Source : s \in pending /\ progress' = PerChannel(s)
      BY <2>1 DEF DceRetries
    <3>2. /\ progress' \in Shown /\ progress'.done = progress.done \union {s}
          /\ progress'.total = progress.total /\ progress'.final = progress.final
      BY <1>2, <3>1 DEF PerChannel, Shown
    <3>3. progress'.done \union pending \union failing = progress.done \union pending \union failing
      BY <3>1, <3>2
    <3> QED  BY <1>3, <3>2, <3>3
  <2>2. CASE DceAnnounces
    <3>1. pending # {} /\ progress' = Header(Cardinality(pending))
      BY <2>2 DEF DceAnnounces
    <3>2. progress.done \union pending \union failing \in SUBSET Source
      BY <1>2 DEF Shown
    <3>3. progress.total # 0
      BY <1>3, <3>1, <3>2, Countable
    <3>4. progress' = progress
      BY <1>2, <3>1, <3>3 DEF Header, NoNumber, Shown
    <3> QED  BY <1>2, <1>3, <3>4
  <2> QED  BY <2>1, <2>2
<1>5. dirs' = [dirs EXCEPT ![stage] = dirs[stage]]
  BY <1>1, <1>2
<1>6. Works(dirs[stage])
  BY <1>1, <1>2, <1>4, <1>5 DEF Works
<1>7. ShownInv'
  BY <1>1, <1>4 DEF ShownInv
<1>8. ChildInv'
  <2>1. stage' = stage /\ decision' = decision /\ step' = step
    BY DEF run
  <2> QED  BY <1>1, <2>1 DEF IInv, ChildInv
<1>9. PICK f : f = dirs[stage]
  OBVIOUS
<1> QED  BY <1>2, <1>6, <1>7, <1>8, <1>9, WorksKeeps

\* A channel that is given up is among those the child will report.
LEMMA ChannelFailsKeeps ==
    ASSUME IInv, ChildOnly, NEW s \in Source, DceFails(s)
    PROVE  IInv'
<1> USE DEF At, ChildOnly
<1>1. /\ child = "alive" /\ s \in pending /\ pending' = pending \ {s}
      /\ failing' = failing \union {s}
      /\ UNCHANGED <<discord, child, request, stderr, had, progress>>
  BY DEF DceFails
<1>2. /\ request.dir = stage
      /\ dirs \in [0..MaxStages -> Folder] /\ stage \in 0..MaxStages
      /\ dirs[stage] \in Folder /\ Holds(dirs[stage])
      /\ pending \subseteq Source /\ failing \subseteq Source /\ stderr \subseteq failing
      /\ progress \in Shown
  BY <1>1, ChildFacts
<1>3. PICK cut \in SUBSET {s} :
        dirs' = [dirs EXCEPT ![stage].torn = @ \union cut, ![stage].files = @ \union cut,
                             ![stage].lost = @ \union {s}]
  BY <1>2 DEF DceFails
<1> DEFINE f == [dirs[stage] EXCEPT !.torn = @ \union cut, !.files = @ \union cut,
                                    !.lost = @ \union {s}]
<1>4. /\ f \in Folder /\ f.torn = dirs[stage].torn \union cut
      /\ f.files = dirs[stage].files \union cut /\ f.lost = dirs[stage].lost \union {s}
      /\ f.posts = dirs[stage].posts /\ f.known = dirs[stage].known
  BY <1>2 DEF Folder
<1>5. dirs' = [dirs EXCEPT ![stage] = f] /\ dirs'[stage] = f
  BY <1>2, <1>3
<1> HIDE DEF f
<1>6. Works(f)
  BY <1>1, <1>2, <1>4, <1>5 DEF Works
<1>7. Holds(f)
  BY <1>2, <1>4 DEF Holds
<1>8. ShownInv'
  <2>1. progress.done \union pending' \union failing' = progress.done \union pending \union failing
    BY <1>1
  <2> QED  BY <1>1, <2>1 DEF IInv, ShownInv
<1>9. ChildInv'
  <2>1. stage' = stage /\ decision' = decision /\ step' = step
    BY DEF run
  <2> QED  BY <1>1, <1>4, <1>5, <2>1 DEF IInv, ChildInv
<1> QED  BY <1>6, <1>7, <1>8, <1>9, WorksKeeps

\* At its end the child says what it failed on.
LEMMA ExitsKeeps ==
    ASSUME IInv, ChildOnly, DceExits
    PROVE  IInv'
<1> USE DEF At, ChildOnly
<1>1. /\ child = "alive" /\ child' = "exited" /\ stderr' = failing
      /\ progress' = Success(Cardinality(progress.done \ failing))
      /\ UNCHANGED <<discord, request, pending, failing, had>>
  BY DEF DceExits
<1>2. /\ request.dir = stage
      /\ dirs \in [0..MaxStages -> Folder] /\ stage \in 0..MaxStages
      /\ dirs[stage] \in Folder /\ Holds(dirs[stage])
      /\ pending \subseteq Source /\ failing \subseteq Source
      /\ progress \in Shown
  BY <1>1, ChildFacts
<1> DEFINE media == IF failing # {} \/ request.tainted THEN "partial" ELSE "whole"
           f == [dirs[stage] EXCEPT !.media = media]
           n == Cardinality(progress.done \ failing)
           top == Max({n, progress.total})
<1>3. /\ f \in Folder /\ f.media = media /\ f.lost = dirs[stage].lost
      /\ f.posts = dirs[stage].posts /\ f.known = dirs[stage].known
      /\ f.files = dirs[stage].files /\ f.torn = dirs[stage].torn
  BY <1>2 DEF Folder
<1>4. dirs' = [dirs EXCEPT ![stage] = f] /\ dirs'[stage] = f
  BY <1>1, <1>2 DEF DceExits
<1> HIDE DEF f
<1>5. n \in Nat /\ top \in Nat /\ n <= top
  <2>1. n \in Nat /\ progress.total \in Nat
    BY <1>2, Countable DEF Shown
  <2>2. PICK a \in Nat, b \in Nat : a = n /\ b = progress.total
    BY <2>1
  <2>3. a + b \in Nat /\ {a, b} \in SUBSET (0..(a + b)) /\ {a, b} # {}
    OBVIOUS
  <2>4. Max({a, b}) \in {a, b} /\ \A y \in {a, b} : y <= Max({a, b})
    BY <2>3, GreatestNumber
  <2> QED  BY <2>1, <2>2, <2>4
<1>6. /\ progress' \in Shown /\ progress'.final = <<n, top>>
  BY <1>1, <1>2, <1>5 DEF Success, Shown
<1> HIDE DEF n, top
<1>7. Works(f)
  BY <1>1, <1>2, <1>3, <1>4, <1>6 DEF Works
<1>8. Holds(f)
  BY <1>2, <1>3 DEF Holds
<1>9. ShownInv'
  <2>1. progress'.final # <<>> /\ progress'.final[1] <= progress'.final[2]
    BY <1>5, <1>6
  <2> QED  BY <1>1, <2>1 DEF ShownInv
<1>10. ChildInv'
  <2>1. stage' = stage /\ decision' = decision /\ step' = step
    BY DEF run
  <2> QED  BY <1>1, <1>3, <1>4, <2>1 DEF IInv, ChildInv
<1> QED  BY <1>7, <1>8, <1>9, <1>10, WorksKeeps

LEMMA BreaksKeeps ==
    ASSUME IInv, ChildOnly, DceBreaks
    PROVE  IInv'
<1> USE DEF At, ChildOnly
<1>1. /\ child \in {"starting", "alive"} /\ child' = "failed" /\ Cut
      /\ UNCHANGED <<discord, request, pending, failing, stderr, had, progress>>
  BY DEF DceBreaks, Running
<1>2. /\ dirs \in [0..MaxStages -> Folder] /\ stage \in 0..MaxStages
      /\ dirs[stage] \in Folder /\ Holds(dirs[stage])
      /\ pending \subseteq Source /\ failing \subseteq Source /\ stderr \subseteq failing
      /\ progress \in Shown
  BY <1>1, ChildFacts
<1>3. PICK f : CutOff(dirs[stage], f) /\ dirs' = [dirs EXCEPT ![stage] = f]
  BY <1>1, CutIsCutOff
<1>4. Works(f)
  BY <1>1, <1>2, <1>3 DEF Works, CutOff
<1>5. Holds(f)
  BY <1>2, <1>3 DEF Holds, CutOff
<1>6. ShownInv'
  <2>1. CASE child = "starting"
    <3>1. progress.done = {} /\ progress.total = 0 /\ progress.final = <<>>
      BY <2>1 DEF IInv, ShownInv, NoProgress, NoNumber
    <3>2. Cardinality(progress.done) = 0
      BY <3>1, FS_EmptySet
    <3> QED  BY <1>1, <3>1, <3>2 DEF ShownInv
  <2>2. CASE child = "alive"
    <3>1. progress.final = <<>>
          /\ Cardinality(progress.done \union pending \union failing) = progress.total
      BY <2>2 DEF IInv, ShownInv
    <3>2. progress.done \union pending \union failing \in SUBSET Source
          /\ progress.done \in SUBSET (progress.done \union pending \union failing)
      BY <1>2 DEF Shown
    <3>3. Cardinality(progress.done) <= progress.total
      BY <3>1, <3>2, Countable
    <3> QED  BY <1>1, <3>1, <3>3 DEF ShownInv
  <2> QED  BY <1>1, <2>1, <2>2
<1>7. ChildInv'
  <2>1. stage' = stage /\ decision' = decision /\ step' = step
    BY DEF run
  <2> QED  BY <1>1, <2>1 DEF IInv, ChildInv
<1> QED  BY <1>4, <1>5, <1>6, <1>7, WorksKeeps

LEMMA DceKeeps ==
    ASSUME IInv, Dce \/ DceTrouble
    PROVE  IInv'
<1>1. ChildOnly
  BY DEF ChildOnly, Dce, DceTrouble, At
<1>2. CASE Dce
  BY <1>1, <1>2, EnumerateKeeps, ExitsKeeps, ExportsKeeps, ChannelFailsKeeps DEF Dce
<1>3. CASE DceTrouble
  BY <1>1, <1>3, BreaksKeeps, ChannelFailsKeeps, RetriesKeeps DEF DceTrouble
<1> QED  BY <1>2, <1>3

LEMMA RecordKeeps == IInv /\ RecordExportEvent => IInv'
<1> SUFFICES ASSUME IInv, RecordExportEvent PROVE IInv'
  OBVIOUS
<1> USE DEF At
<1>1. /\ step = "export" /\ had' = TRUE
      /\ mem' = [mem EXCEPT !.warned = TRUE]
      /\ UNCHANGED <<discord, dirs, child, request, pending, failing, progress>>
      /\ UNCHANGED <<installVars, saved, old, prev, mode, step, inv, decision, stage, seed,
                     previous, nextStage, metaAt, todo, history, counters>>
  BY DEF RecordExportEvent, ReadStderr
<1>2. PICK s \in Source : s \in stderr /\ stderr' = stderr \ {s}
  BY DEF RecordExportEvent, ReadStderr
<1>3. child \notin {"starting", "alive"}
  BY <1>2 DEF IInv, ChildInv
<1>4. mem # NoState /\ mem \in Record /\ Marked(mem) /\ Vouched(mem.witness)
  BY <1>1, WitnessFacts DEF IInv, RunInv, MarkInv
<1>5. /\ mem' \in Record /\ mem'.witness = mem.witness
      /\ mem'.map = mem.map /\ mem'.failed = mem.failed /\ mem'.highWater = mem.highWater
  BY <1>1, <1>4 DEF Record
<1>6. mem' # NoState
  BY <1>5, RecordIsSome
<1>7. Shapes'
  <2>1. WorldShapes'
    BY <1>1, <1>2, <1>5 DEF IInv, Shapes, WorldShapes, discord, history, counters
  <2>2. RunShapes'
    BY <1>1, <1>2, <1>5 DEF IInv, Shapes, RunShapes, discord, history, counters
  <2> QED  BY <2>1, <2>2 DEF Shapes
<1>8. InstallInv'
  BY <1>1, InstallKept DEF IInv
<1>9. RunInv'
  BY <1>1, <1>4, <1>6 DEF IInv, RunInv, counters
<1>10. RecordInv' /\ OnlyThePair'
  BY <1>1, <1>5 DEF IInv, RecordInv, OnlyThePair, Before, Kept
<1>11. ChildInv' /\ ShownInv'
  BY <1>1, <1>3 DEF IInv, ChildInv, ShownInv
<1>12. WitnessInv' /\ MediaInv'
  <2>1. WitnessInv'
    BY <1>1, <1>4, <1>5 DEF IInv, WitnessInv, Vouched, Inspectable, Kept, history
  <2>2. MediaInv'
    BY <1>1 DEF IInv, MediaInv, history
  <2> QED  BY <2>1, <2>2
<1>13. ContentsInv'
  BY <1>1 DEF IInv, ContentsInv, Closed, Of, Message, Before, discord
<1>14. MarkInv'
  <2>1. Marked(mem)'
    BY <1>1, <1>4, <1>5 DEF Marked, Of, Message, discord
  <2> QED  BY <1>1, <1>4, <1>5, <2>1 DEF IInv, MarkInv, Marked, Of, Message, Kept, discord
<1> QED  BY <1>7, <1>8, <1>9, <1>10, <1>11, <1>12, <1>13, <1>14 DEF IInv

\* An exporter that ended, of whose failures none is unread.
LEMMA ReturnsKeeps == IInv /\ ExportReturns => IInv'
<1> SUFFICES ASSUME IInv, ExportReturns PROVE IInv'
  OBVIOUS
<1> USE DEF At
<1>1. /\ step = "export" /\ step' = IF mode = "incremental" THEN "inspect" ELSE "finish"
      /\ child = "exited" /\ stderr = {} /\ UNCHANGED had
      /\ UNCHANGED <<installVars, discord, dirs, saved, mem, old, prev, mode, inv, decision, stage,
                     seed, previous, nextStage, metaAt, todo, history, counters>>
  BY DEF ExportReturns, Drained, Go
<1>2. /\ child' = "none" /\ progress' = NoProgress /\ request' \in Asked
      /\ pending' = {} /\ failing' = {} /\ stderr' = {}
  BY ReapedShape DEF ExportReturns
<1>3. step' \in {"inspect", "finish"} /\ (step' = "inspect" <=> mode = "incremental")
  BY <1>1
<1>4. Shapes'
  <2>1. NoProgress \in Shown
    BY DEF NoProgress, Shown, NoNumber
  <2>2. WorldShapes'
    BY <1>1, <1>2, <1>3, <2>1 DEF IInv, Shapes, WorldShapes, discord, history, counters
  <2>3. RunShapes'
    BY <1>1, <1>2, <1>3, <2>1 DEF IInv, Shapes, RunShapes, discord, history, counters
  <2> QED  BY <2>2, <2>3 DEF Shapes
<1>5. InstallInv'
  BY <1>1, InstallKept DEF IInv
<1>6. RunInv'
  BY <1>1, <1>3 DEF IInv, RunInv, Early, counters
<1>7. RecordInv' /\ OnlyThePair' /\ ChildInv' /\ ShownInv'
  BY <1>1, <1>2, <1>3 DEF IInv, RecordInv, OnlyThePair, ChildInv, ShownInv, Before, Kept
<1>8. WitnessInv'
  BY <1>1, <1>3 DEF IInv, WitnessInv, Vouched, Inspectable, Kept, history
<1>9. MediaInv'
  <2>1. ~had => dirs[stage].lost = {} /\ (spoilt \/ dirs[stage].media = "whole")
    <3> SUFFICES ASSUME ~had PROVE dirs[stage].lost = {} /\ (spoilt \/ dirs[stage].media = "whole")
      OBVIOUS
    <3>1. failing = {} /\ dirs[stage].lost \subseteq failing
      BY <1>1 DEF IInv, ChildInv
    <3>2. ~request.tainted => dirs[stage].media = "whole"
      BY <1>1, <3>1 DEF IInv, ChildInv
    <3>3. request.tainted => spoilt
      BY <1>1 DEF IInv, MediaInv
    <3> QED  BY <3>1, <3>2, <3>3
  <2> QED  BY <1>1, <1>2, <1>3, <2>1 DEF IInv, MediaInv, history
<1>10. ContentsInv'
  BY <1>1, <1>2, <1>3 DEF IInv, ContentsInv, Closed, Of, Message, Before, discord
<1>11. MarkInv'
  BY <1>1, <1>3 DEF IInv, MarkInv, Marked, Of, Message, Kept, discord
<1> QED  BY <1>4, <1>5, <1>6, <1>7, <1>8, <1>9, <1>10, <1>11 DEF IInv

-----------------------------------------------------------------------------
(* What becomes of the export.                                             *)

LEMMA FinishKeeps == IInv /\ Finish => IInv'
<1> SUFFICES ASSUME IInv, Finish PROVE IInv'
  OBVIOUS
<1> USE DEF At
<1>1. /\ step = "finish" /\ step' = "metadata" /\ had' = FALSE
      /\ mem' = [mem EXCEPT !.completed = ~had] /\ saved' = mem'
      /\ UNCHANGED <<installVars, discord, dirs, child, request, pending, failing, stderr, progress>>
      /\ UNCHANGED <<old, prev, mode, inv, decision, stage, seed, previous, nextStage, metaAt, todo,
                     history, counters>>
  BY DEF Finish, Go
<1>2. /\ mem # NoState /\ mem \in Record /\ Marked(mem) /\ Vouched(mem.witness)
      /\ mode # "incremental" /\ stage = 0 /\ child = "none" /\ decision.scope # "bounded"
  BY <1>1, NoChild, WitnessFacts DEF IInv, RunInv, MarkInv
<1>3. had \in BOOLEAN
  BY DEF IInv, Shapes, WorldShapes, RunShapes
<1>4. /\ mem' \in Record /\ mem'.witness = mem.witness /\ mem'.completed = ~had
      /\ mem'.map = mem.map /\ mem'.failed = mem.failed /\ mem'.highWater = mem.highWater
  BY <1>1, <1>2, <1>3 DEF Record
<1>5. mem' # NoState
  BY <1>4, RecordIsSome
<1>6. Shapes'
  <2>1. {saved, mem, old}' \subseteq Record \union {NoState}
    BY <1>1, <1>4 DEF IInv, Shapes, WorldShapes, RunShapes
  <2>2. /\ step' = "metadata" /\ had' = FALSE
        /\ UNCHANGED <<discord, dirs, child, request, pending, failing, stderr, progress>>
        /\ UNCHANGED <<prev, mode, inv, decision, stage, seed, previous, nextStage, metaAt, todo,
                       history, counters>>
    BY <1>1
  <2>3. WorldShapes'
    BY <2>1, <2>2 DEF IInv, Shapes, WorldShapes, discord, history, counters
  <2>4. RunShapes'
    BY <2>1, <2>2 DEF IInv, Shapes, RunShapes, discord, history, counters, Kept
  <2> QED  BY <2>3, <2>4 DEF Shapes
<1>7. InstallInv'
  BY <1>1, InstallKept DEF IInv
<1>8. RunInv'
  BY <1>1, <1>2, <1>5 DEF IInv, RunInv, counters, Early
<1>9. RecordInv' /\ OnlyThePair' /\ ChildInv' /\ ShownInv'
  BY <1>1, <1>2 DEF IInv, RecordInv, OnlyThePair, ChildInv, ShownInv, Before, Kept
<1>10. WitnessInv'
  BY <1>1, <1>2, <1>4 DEF IInv, WitnessInv, Vouched, Inspectable, Kept, history
<1>11. MediaInv'
  BY <1>1, <1>2, <1>4 DEF IInv, MediaInv, history
<1>12. ContentsInv'
  BY <1>1, <1>2 DEF IInv, ContentsInv, Closed, Of, Message, Before, discord
<1>13. MarkInv'
  <2>1. Marked(mem)'
    BY <1>1, <1>2, <1>4 DEF Marked, Of, Message, discord
  <2>2. Marked(saved)'
    BY <1>1, <2>1 DEF Marked
  <2> QED  BY <1>1, <1>2, <2>1, <2>2 DEF MarkInv
<1> QED  BY <1>6, <1>7, <1>8, <1>9, <1>10, <1>11, <1>12, <1>13 DEF IInv

\* The witness that is saved is of the folder that was inspected.
LEMMA AcceptKeeps == IInv /\ AcceptStage => IInv'
<1> SUFFICES ASSUME IInv, AcceptStage PROVE IInv'
  OBVIOUS
<1> USE DEF At
<1>1. /\ step = "inspect" /\ step' = "retain" /\ Inspectable(stage) /\ had' = FALSE
      /\ decision.scope = "bounded" => Covered
      /\ mem' = [mem EXCEPT !.completed = Covered, !.witness = Candidate] /\ saved' = mem'
      /\ previous' = mem.witness.stage /\ staged' = TRUE
      /\ UNCHANGED <<installVars, discord, dirs, child, request, pending, failing, stderr, progress>>
      /\ UNCHANGED <<old, prev, mode, inv, decision, stage, seed, nextStage, metaAt, todo, spoilt,
                     counters>>
  BY DEF AcceptStage, Go
<1>2. /\ mem # NoState /\ mem \in Record /\ Marked(mem) /\ mem.witness \in Witness
      /\ mode = "incremental" /\ stage # 0 /\ child = "none"
  BY <1>1, NoChild, WitnessFacts DEF IInv, RunInv, MarkInv, Early
<1>3. /\ stage \in Nat /\ nextStage \in Nat /\ stage < nextStage /\ stage \in 0..MaxStages
      /\ stage \in 1..(nextStage - 1)
  BY <1>2, WitnessFacts DEF IInv, RunInv
<1>4. /\ Candidate \in Witness /\ Candidate.stage = stage /\ Candidate.ids = dirs[stage].files
      /\ Candidate.covered = Covered /\ Candidate # NoWitness
  <2>1. dirs[stage].files \subseteq Source /\ decision.scope \in {"full", "bounded"}
    BY <1>3 DEF IInv, Shapes, WorldShapes, RunShapes, Folder
  <2>2. Covered \in BOOLEAN
    BY DEF Covered
  <2>3. Candidate \in Witness /\ Candidate.stage = stage /\ Candidate.ids = dirs[stage].files
        /\ Candidate.covered = Covered
    BY <1>3, <2>1, <2>2 DEF Candidate, Witness
  <2>4. NoWitness.stage = 0
    BY DEF NoWitness
  <2> QED  BY <1>2, <2>3, <2>4
<1>5. /\ mem' \in Record /\ mem'.witness = Candidate
      /\ mem'.map = mem.map /\ mem'.failed = mem.failed /\ mem'.highWater = mem.highWater
  <2>1. Covered \in BOOLEAN
    BY DEF Covered
  <2> QED  BY <1>1, <1>2, <1>4, <2>1 DEF Record
<1>6. mem' # NoState
  BY <1>5, RecordIsSome
<1>7. Covered => dirs[stage].lost = {} /\ (spoilt \/ dirs[stage].media = "whole")
                 /\ dirs[stage].files = decision.expected
  BY <1>1 DEF Covered, IInv, MediaInv
<1>8. Shapes'
  <2>1. previous' \in 0..MaxStages
    BY <1>1, <1>2 DEF Witness
  <2>2. {saved, mem, old}' \subseteq Record \union {NoState}
    BY <1>1, <1>5 DEF IInv, Shapes, WorldShapes, RunShapes
  <2>3. /\ step' = "retain" /\ had' = FALSE /\ staged' = TRUE
        /\ UNCHANGED <<discord, dirs, child, request, pending, failing, stderr, progress>>
        /\ UNCHANGED <<prev, mode, inv, decision, stage, seed, nextStage, metaAt, todo, spoilt,
                       counters>>
    BY <1>1
  <2>4. WorldShapes'
    BY <2>1, <2>2, <2>3 DEF IInv, Shapes, WorldShapes, discord, counters
  <2>5. RunShapes'
    BY <2>1, <2>2, <2>3 DEF IInv, Shapes, RunShapes, discord, counters, Kept
  <2> QED  BY <2>4, <2>5 DEF Shapes
<1>9. InstallInv'
  BY <1>1, InstallKept DEF IInv
<1>10. RunInv'
  BY <1>1, <1>2, <1>6 DEF IInv, RunInv, counters, Early
<1>11. RecordInv' /\ OnlyThePair' /\ ChildInv' /\ ShownInv'
  BY <1>1, <1>2 DEF IInv, RecordInv, OnlyThePair, ChildInv, ShownInv, Before, Kept
<1>12. WitnessInv'
  <2>1. Vouched(mem.witness)'
    BY <1>1, <1>3, <1>4, <1>5, <1>7 DEF Vouched, Inspectable
  <2>2. Vouched(saved.witness)'
    BY <1>1, <2>1 DEF Vouched, Inspectable
  <2> QED  BY <1>1, <1>4, <1>5, <2>1, <2>2 DEF WitnessInv, Kept
<1>13. MediaInv'
  BY <1>1, <1>2 DEF IInv, MediaInv
<1>14. ContentsInv'
  BY <1>1, <1>2 DEF IInv, ContentsInv, Closed, Of, Message, Before, discord
<1>15. MarkInv'
  <2>1. Marked(mem)'
    BY <1>1, <1>2, <1>5 DEF Marked, Of, Message, discord
  <2>2. Marked(saved)'
    BY <1>1, <2>1 DEF Marked
  <2>3. decision.scope = "bounded" => mem'.witness.ids = decision.expected
    BY <1>1, <1>4, <1>5, <1>7
  <2> QED  BY <1>1, <1>5, <2>1, <2>2, <2>3 DEF IInv, MarkInv, Of, Message, discord
<1> QED  BY <1>8, <1>9, <1>10, <1>11, <1>12, <1>13, <1>14, <1>15 DEF IInv

\* Nothing the records vouch for is removed.
LEMMA RemoveKeeps ==
    ASSUME IInv, NEW d \in 1..MaxStages, Remove(d)
    PROVE  IInv'
<1> USE DEF At
<1>1. /\ step = "retain" /\ d \in Superseded
      /\ dirs' = [dirs EXCEPT ![d] = Gone]
      /\ UNCHANGED <<installVars, discord, childVars, saved, run, nextStage, metaAt, history, counters>>
  BY DEF Remove
<1>2. /\ mode = "incremental" /\ stage # 0 /\ child = "none" /\ saved = mem /\ mem # NoState
      /\ mem.witness.stage = stage /\ d # stage /\ d \in 0..MaxStages /\ d # 0
  BY <1>1, NoChild, WitnessFacts
     DEF IInv, RunInv, RecordInv, WitnessInv, Superseded, Kept, Early
<1>3. /\ dirs' \in [0..MaxStages -> Folder] /\ dirs'[d] = Gone
      /\ \A c \in 0..MaxStages : c # d => dirs'[c] = dirs[c]
  BY <1>1, <1>2, FolderShape DEF IInv, Shapes, WorldShapes, RunShapes
<1>4. Shapes'
  <2>1. WorldShapes'
    BY <1>1, <1>3 DEF IInv, Shapes, WorldShapes, discord, childVars, run, history, counters
  <2>2. RunShapes'
    BY <1>1, <1>3 DEF IInv, Shapes, RunShapes, discord, childVars, run, history, counters
  <2> QED  BY <2>1, <2>2 DEF Shapes
<1>5. InstallInv'
  BY <1>1, InstallKept DEF IInv
<1>6. RunInv'
  <2>1. \A c \in 0..MaxStages : c >= nextStage => dirs'[c] = Gone
    BY <1>3 DEF IInv, RunInv
  <2> QED  BY <1>1, <2>1 DEF IInv, RunInv, run, counters
<1>7. RecordInv' /\ OnlyThePair' /\ ChildInv' /\ ShownInv'
  BY <1>1, <1>2 DEF IInv, RecordInv, OnlyThePair, ChildInv, ShownInv, Before, Kept, run, childVars
<1>8. WitnessInv'
  <2>1. mem.witness \in Witness /\ Vouched(mem.witness) /\ mem.witness.stage \in 0..MaxStages
    BY <1>2, WitnessFacts DEF Witness
  <2>2. dirs'[mem.witness.stage] = dirs[mem.witness.stage]
    BY <1>2, <1>3, <2>1
  <2>3. Vouched(mem.witness)'
    BY <1>1, <2>1, <2>2 DEF Vouched, Inspectable, run, history
  <2>4. Vouched(saved.witness)'
    BY <1>1, <1>2, <2>3 DEF Vouched, Inspectable, run
  <2> QED  BY <1>1, <2>3, <2>4 DEF IInv, WitnessInv, Kept, run
<1>9. MediaInv'
  BY <1>1, <1>2, <1>3, WitnessFacts DEF IInv, MediaInv, run, history, childVars
<1>10. ContentsInv'
  <2>1. ASSUME NEW c \in 0..MaxStages
        PROVE  /\ dirs'[c].posts \subseteq Message /\ dirs'[c].known <= Len(posts)
               /\ \A n \in dirs'[c].posts : posts[n] \in dirs'[c].files
    <3>1. CASE c = d
      <4>1. Len(posts) \in Nat
        BY DEF IInv, Shapes, WorldShapes, RunShapes
      <4> QED  BY <1>3, <3>1, <4>1, FolderShape
    <3>2. CASE c # d
      BY <1>3, <3>2 DEF IInv, ContentsInv
    <3> QED  BY <3>1, <3>2
  <2>2. dirs'[0] = dirs[0] /\ dirs'[stage] = dirs[stage] /\ stage' = stage
        /\ decision' = decision /\ step' = step /\ posts' = posts
    BY <1>1, <1>2, <1>3, WitnessFacts DEF run, discord
  <2>3. Closed(0, 0)' /\ Closed(stage, decision.after)'
    BY <2>2 DEF IInv, ContentsInv, Closed, Message
  <2> QED  BY <1>1, <1>2, <2>1, <2>2, <2>3 DEF IInv, ContentsInv, Of, Message, Before, childVars
<1>11. MarkInv'
  BY <1>1 DEF IInv, MarkInv, Marked, Of, Message, Kept, discord, run
<1> QED  BY <1>4, <1>5, <1>6, <1>7, <1>8, <1>9, <1>10, <1>11 DEF IInv

\* The quiet steps after the export: Retained, FetchMetadata and NoMetadata.
LEMMA AfterKeeps ==
    ASSUME IInv, Retained \/ FetchMetadata \/ NoMetadata
    PROVE  IInv'
<1> USE DEF At
<1>1. /\ UNCHANGED <<installVars, processVars, saved, mem, old, prev, mode, inv, decision, stage>>
      /\ UNCHANGED <<seed, previous, nextStage, history>>
      /\ step \in {"retain", "metadata"} /\ step' \in {"metadata", "messages"}
      /\ step = "retain" => Superseded = {}
      /\ todo' \in {todo, Unfinished} /\ metaAt' \in {metaAt, runs}
      /\ Trouble \/ UNCHANGED counters
  BY DEF Retained, FetchMetadata, NoMetadata, Go
<1>2. trouble' \in 0..MaxTrouble /\ runs' \in 0..MaxRuns /\ runs' = runs
      /\ Len(posts') <= Len(FirstPosts) + trouble'
  BY <1>1, CountersShape DEF processVars, discord
<1>3. todo' \subseteq Source /\ metaAt' \in Nat
  <2>1. dirs[stage].files \subseteq Source /\ todo \subseteq Source /\ metaAt \in Nat
        /\ runs \in 0..MaxRuns /\ MaxRuns \in Nat
    BY ExportAssumption DEF IInv, Shapes, WorldShapes, RunShapes, Folder
  <2> QED  BY <1>1, <2>1 DEF Unfinished
<1>4. child = "none"
  BY <1>1, NoChild
<1>5. Shapes'
  <2>1. WorldShapes'
    BY <1>1, <1>2, <1>3 DEF IInv, Shapes, WorldShapes, processVars, childVars, discord, history
  <2>2. RunShapes'
    BY <1>1, <1>2, <1>3 DEF IInv, Shapes, RunShapes, processVars, childVars, discord, history, Kept
  <2> QED  BY <2>1, <2>2 DEF Shapes
<1>6. InstallInv'
  BY <1>1, InstallKept DEF IInv
<1>7. RunInv'
  BY <1>1, <1>2 DEF IInv, RunInv, Early, processVars
<1>8. OnlyThePair'
  <2>1. CASE step = "retain"
    BY <1>1, <2>1 DEF OnlyThePair, Superseded, processVars
  <2>2. CASE step = "metadata"
    BY <1>1, <2>2 DEF IInv, OnlyThePair, processVars
  <2> QED  BY <1>1, <2>1, <2>2
<1>9. RecordInv' /\ ChildInv' /\ ShownInv'
  BY <1>1, <1>4 DEF IInv, RecordInv, ChildInv, ShownInv, Before, Kept, processVars, childVars
<1>10. WitnessInv' /\ MediaInv'
  <2>1. WitnessInv'
    BY <1>1 DEF IInv, WitnessInv, Vouched, Inspectable, Kept, history, processVars
  <2>2. MediaInv'
    BY <1>1, <1>4 DEF IInv, MediaInv, history, processVars, childVars
  <2> QED  BY <2>1, <2>2
<1>11. ContentsInv' /\ MarkInv'
  <2>1. ContentsInv'
    BY <1>1, <1>4 DEF IInv, ContentsInv, Closed, Of, Message, Before, discord, processVars, childVars
  <2>2. MarkInv'
    BY <1>1 DEF IInv, MarkInv, Marked, Of, Message, Kept, discord, processVars
  <2> QED  BY <2>1, <2>2
<1> QED  BY <1>5, <1>6, <1>7, <1>8, <1>9, <1>10, <1>11 DEF IInv

\* Everything is exported again, into a folder of its own, and only once.
LEMMA FallBackKeeps == IInv /\ FallBack => IInv'
<1> SUFFICES ASSUME IInv, FallBack PROVE IInv'
  OBVIOUS
<1> USE DEF At
<1>1. /\ step = "inspect" /\ step' = "export" /\ decision.scope = "bounded"
      /\ decision' = Full(decision.expected)
      /\ stage' = nextStage /\ nextStage' = nextStage + 1
      /\ dirs' = [dirs EXCEPT ![stage] = Gone, ![stage'] = [Gone EXCEPT !.made = TRUE]]
      /\ UNCHANGED <<installVars, discord, saved, mem, old, prev, mode, inv, seed, previous, metaAt,
                     todo, history, counters>>
  BY DEF FallBack, CreateStage, Go
<1>2. /\ child' = "starting" /\ request' = Command(stage', 0, FALSE)
      /\ pending' = {} /\ failing' = {} /\ stderr' = {} /\ had' = FALSE /\ progress' = NoProgress
  BY DEF FallBack, Spawn
<1>3. /\ mode = "incremental" /\ stage # 0 /\ mem # NoState /\ saved # NoState
      /\ ~saved.completed /\ mem.witness = saved.witness
      /\ mem.witness \in Witness /\ Vouched(mem.witness) /\ mem.witness.stage # stage
      /\ nextStage <= 2 * runs
  BY <1>1, WitnessFacts DEF IInv, RunInv, RecordInv, WitnessInv, Kept
<1>4. /\ stage \in 0..MaxStages /\ stage < nextStage
      /\ runs \in Nat /\ nextStage \in Nat /\ stage \in Nat /\ MaxStages \in Nat
      /\ nextStage \in 1..MaxStages /\ nextStage + 1 \in 1..(MaxStages + 1)
      /\ nextStage + 1 <= 2 * runs + 1
  <2>1. MaxStages \in Nat /\ MaxRuns \in Nat /\ MaxStages >= 2 * MaxRuns
    BY ExportAssumption
  <2>2. runs \in 0..MaxRuns /\ nextStage \in 1..(MaxStages + 1) /\ stage \in 0..MaxStages
    BY DEF IInv, Shapes, WorldShapes, RunShapes
  <2>3. stage < nextStage
    BY DEF IInv, RunInv
  <2> QED  BY <1>3, <2>1, <2>2, <2>3
<1>5. /\ dirs' \in [0..MaxStages -> Folder]
      /\ dirs'[stage'] = [Gone EXCEPT !.made = TRUE] /\ dirs'[stage] = Gone
      /\ \A d \in 0..MaxStages : d # stage /\ d # stage' => dirs'[d] = dirs[d]
  <2>1. stage # stage' /\ stage' \in 0..MaxStages
    BY <1>1, <1>4
  <2> QED  BY <1>1, <1>4, <2>1, FolderShape DEF IInv, Shapes, WorldShapes, RunShapes
<1>6. /\ decision' \in [scope : {"full", "bounded"}, expected : SUBSET Source, after : Nat]
      /\ decision'.scope = "full" /\ decision'.after = 0
  <2>1. decision.expected \in SUBSET Source
    BY DEF IInv, Shapes, WorldShapes, RunShapes
  <2> QED  BY <1>1, <2>1 DEF Full
<1>7. request' \in Asked /\ request'.dir = stage' /\ request'.after = 0 /\ request'.tainted = FALSE
  <2>1. request' = [dir |-> stage', after |-> 0, reuse |-> FALSE, tainted |-> FALSE]
    BY <1>2 DEF Command
  <2>2. stage' \in 0..MaxStages
    BY <1>1, <1>4
  <2> QED  BY <2>1, <2>2 DEF Asked
<1>8. Shapes'
  <2>1. NoProgress \in Shown
    BY DEF NoProgress, Shown, NoNumber
  <2>2. stage' \in 0..MaxStages /\ nextStage' \in 1..(MaxStages + 1)
    BY <1>1, <1>4
  <2>3. /\ step' = "export"
        /\ UNCHANGED <<discord, saved, mem, old, prev, mode, inv, seed, previous, metaAt, todo,
                       history, counters>>
    BY <1>1
  <2>4. /\ child' = "starting" /\ pending' = {} /\ failing' = {} /\ stderr' = {} /\ had' = FALSE
        /\ progress' = NoProgress
    BY <1>2
  <2>5. WorldShapes'
    BY <1>5, <1>6, <1>7, <2>1, <2>2, <2>3, <2>4
       DEF IInv, Shapes, WorldShapes, discord, history, counters
  <2>6. RunShapes'
    BY <1>5, <1>6, <1>7, <2>1, <2>2, <2>3, <2>4
       DEF IInv, Shapes, RunShapes, discord, history, counters
  <2> QED  BY <2>5, <2>6 DEF Shapes
<1>9. InstallInv'
  BY <1>1, InstallKept DEF IInv
<1>10. RunInv'
  <2>1. \A d \in 0..MaxStages : d >= nextStage' => dirs'[d] = Gone
    <3>1. \A d \in 0..MaxStages : d >= nextStage + 1 => d >= nextStage /\ d # nextStage /\ d # stage
      BY <1>4
    <3> QED  BY <1>1, <1>5, <3>1 DEF IInv, RunInv
  <2>2. stage' # 0 /\ stage' < nextStage' /\ nextStage' <= 2 * runs' + 1
    BY <1>1, <1>4 DEF counters
  <2> QED  BY <1>1, <1>3, <1>6, <2>1, <2>2 DEF IInv, RunInv, Early
<1>11. RecordInv' /\ ChildInv' /\ ShownInv' /\ OnlyThePair'
  BY <1>1, <1>2, <1>3, <1>6, <1>7
     DEF RecordInv, ChildInv, ShownInv, OnlyThePair, Before, Kept
<1>12. WitnessInv'
  <2>1. mem.witness.stage # stage' /\ (mem.witness # NoWitness => mem.witness.stage \in 0..MaxStages)
    BY <1>1, <1>3, <1>4, WitnessFacts
  <2>2. PICK w \in Witness : w = mem.witness
    BY <1>3
  <2>3. Vouched(w)'
    BY <1>1, <1>3, <1>4, <1>5, <2>1, <2>2, VouchedApart DEF history
  <2>4. Vouched(mem.witness)' /\ Vouched(saved.witness)'
    BY <1>1, <1>3, <2>2, <2>3 DEF Vouched, Inspectable
  <2> QED  BY <1>1, <1>3, <2>1, <2>4 DEF WitnessInv, Kept
<1>13. MediaInv'
  BY <1>1, <1>3, <1>7 DEF IInv, MediaInv, history
<1>14. ContentsInv'
  <2>1. /\ dirs'[stage'].posts = {} /\ dirs'[stage'].files = {} /\ dirs'[stage'].known = 0
        /\ dirs'[stage].posts = {} /\ dirs'[stage].known = 0
    BY <1>5, FolderShape
  <2>2. UNCHANGED posts
    BY <1>1 DEF discord
  <2>3. Len(posts) \in Nat
    BY DEF IInv, Shapes, WorldShapes, RunShapes
  <2>4. ASSUME NEW d \in 0..MaxStages
        PROVE  /\ dirs'[d].posts \subseteq Message /\ dirs'[d].known <= Len(posts)
               /\ \A n \in dirs'[d].posts : posts[n] \in dirs'[d].files
    <3>1. CASE d \in {stage, stage'}
      BY <2>1, <2>3, <3>1
    <3>2. CASE d \notin {stage, stage'}
      BY <1>5, <3>2 DEF IInv, ContentsInv
    <3> QED  BY <3>1, <3>2
  <2>5. Closed(0, 0)'
    <3>1. dirs'[0] = dirs[0]
      BY <1>1, <1>3, <1>4, <1>5
    <3> QED  BY <2>2, <3>1 DEF IInv, ContentsInv, Closed, Message
  <2>6. Closed(stage, decision.after)'
    BY <2>1 DEF Closed
  <2> QED  BY <2>1, <2>2, <2>4, <2>5, <2>6 DEF ContentsInv, Message
<1>15. MarkInv'
  BY <1>1, <1>6 DEF IInv, MarkInv, Marked, Of, Message, discord
<1> QED  BY <1>8, <1>9, <1>10, <1>11, <1>12, <1>13, <1>14, <1>15 DEF IInv

-----------------------------------------------------------------------------
(* The messages phase.                                                     *)

\* No message at or below the last one of the file is missing: what is not in
\* the file was delivered before.
LEMMA BelowTheLast ==
    ASSUME IInv, step = "messages", NEW s \in Source,
           NEW m \in dirs[stage].posts, posts[m] = s,
           NEW n \in Of(s), n <= m
    PROVE  n \in dirs[stage].posts \/ n \in mem.map
<1>1. /\ decision.after \in Nat /\ stage \in 0..MaxStages /\ posts \in Seq(Source)
      /\ decision.scope \in {"full", "bounded"}
  BY DEF IInv, Shapes, WorldShapes, RunShapes
<1>2. n \in Message /\ n \in Nat /\ n >= 1 /\ posts[n] = posts[m]
  BY <1>1 DEF Of, Message
<1>3. decision.after < n => n \in dirs[stage].posts
  BY <1>2 DEF IInv, ContentsInv, Closed
<1>4. CASE decision.scope = "full"
  <2>1. decision.after = 0
    BY <1>4 DEF IInv, RunInv
  <2> QED  BY <1>2, <1>3, <2>1
<1>5. CASE decision.scope = "bounded"
  <2>1. /\ mem # NoState /\ mem.witness # NoWitness /\ mem.witness.stage = stage
        /\ Vouched(mem.witness) /\ mem.witness.ids = decision.expected
    BY <1>5 DEF IInv, RunInv, WitnessInv, MarkInv, Kept
  <2>2. s \in decision.expected
    BY <1>1, <2>1 DEF IInv, ContentsInv, Vouched
  <2>3. n <= decision.after => n \in mem.map
    BY <1>5, <2>2 DEF IInv, MarkInv
  <2> QED  BY <1>1, <1>2, <1>3, <2>3
<1> QED  BY <1>1, <1>4, <1>5

LEMMA CopyKeeps ==
    ASSUME IInv, NEW s \in Source, NEW bad, CopyChannel(s, bad), Trouble \/ UNCHANGED counters
    PROVE  IInv'
<1> USE DEF At
<1> DEFINE file == dirs[stage].posts \intersect Of(s)
           mark == IF file = {} THEN mem.highWater[s] ELSE Max(file)
<1>1. /\ step = "messages" /\ bad \subseteq ToSend(s) /\ todo' = todo \ {s}
      /\ mem' = [mem EXCEPT !.map = @ \union (ToSend(s) \ bad),
                            !.failed = (@ \ ToSend(s)) \union bad,
                            !.highWater[s] = mark,
                            !.copied = @ \union {s}]
      /\ saved' = mem'
      /\ UNCHANGED <<installVars, processVars, old, prev, mode, step, inv, decision, stage, seed,
                     previous, nextStage, metaAt, history>>
  <2>1. mem' = [mem EXCEPT !.map = @ \union (ToSend(s) \ bad),
                          !.failed = (@ \ ToSend(s)) \union bad,
                          !.highWater[s] = IF file = {} THEN @ ELSE Max(file),
                          !.copied = @ \union {s}]
    BY DEF CopyChannel
  <2>2. mem' = [mem EXCEPT !.map = @ \union (ToSend(s) \ bad),
                            !.failed = (@ \ ToSend(s)) \union bad,
                            !.highWater[s] = mark,
                            !.copied = @ \union {s}]
    BY <2>1
  <2> QED  BY <2>2 DEF CopyChannel
<1>2. /\ mem # NoState /\ mem \in Record /\ Marked(mem) /\ Vouched(mem.witness) /\ child = "none"
      /\ saved = mem
  BY <1>1, NoChild, WitnessFacts DEF IInv, RunInv, MarkInv, RecordInv, Kept
<1>3. /\ posts \in Seq(Source) /\ Len(posts) \in Nat /\ Message = 1..Len(posts)
      /\ stage \in 0..MaxStages
  BY DEF IInv, Shapes, WorldShapes, RunShapes, Message
<1>4. file \subseteq Of(s) /\ Of(s) \subseteq Message /\ ToSend(s) \subseteq file
  BY DEF ToSend, Of
<1>5. file # {} => Max(file) \in file
  <2>1. file \in SUBSET (0..Len(posts))
    BY <1>3, <1>4
  <2>2. PICK N \in Nat : N = Len(posts)
    BY <1>3
  <2>3. PICK T \in SUBSET (0..N) : T = file
    BY <2>1, <2>2
  <2> HIDE DEF file
  <2> QED  BY <2>2, <2>3, GreatestNumber
<1>6. mark \in Nat /\ mark <= Len(posts)
  <2>1. CASE file = {}
    BY <1>2, <2>1 DEF Marked, Record
  <2>2. CASE file # {}
    <3>1. mark \in Message
      BY <1>4, <1>5, <2>2
    <3> HIDE DEF mark
    <3> QED  BY <1>3, <3>1
  <2> QED  BY <2>1, <2>2
<1>7. ASSUME NEW n \in Of(s), n <= mark
      PROVE  n \in mem.map \union mem.failed \union ToSend(s)
  <2>1. CASE file = {}
    BY <1>2, <1>7, <2>1 DEF Marked
  <2>2. CASE file # {}
    <3>1. PICK m \in dirs[stage].posts : m = Max(file) /\ posts[m] = s
      BY <1>5, <2>2 DEF Of
    <3>2. n \in dirs[stage].posts \/ n \in mem.map
      BY <1>1, <1>7, <2>2, <3>1, BelowTheLast
    <3>3. CASE n \in mem.map
      BY <3>3
    <3>4. CASE n \in dirs[stage].posts
      <4>1. n \in file
        BY <1>7, <3>4
      <4>2. CASE mode = "incremental"
        <5>1. n \in ToSend(s) \/ ~(n > mem.highWater[s])
          BY <4>1, <4>2 DEF ToSend
        <5>2. n \in Nat /\ mem.highWater[s] \in Nat
          BY <1>2, <1>3, <1>4, <1>7 DEF Record
        <5>3. n \in ToSend(s) \/ n <= mem.highWater[s]
          BY <5>1, <5>2
        <5> QED  BY <1>2, <1>7, <5>3 DEF Marked
      <4>3. CASE mode # "incremental"
        BY <4>1, <4>3 DEF ToSend
      <4> QED  BY <4>2, <4>3
    <3> QED  BY <3>2, <3>3, <3>4
  <2> QED  BY <2>1, <2>2
<1> HIDE DEF mark, file
<1>8. /\ mem' \in Record /\ mem'.witness = mem.witness /\ mem'.completed = mem.completed
      /\ mem'.map = mem.map \union (ToSend(s) \ bad)
      /\ mem'.failed = (mem.failed \ ToSend(s)) \union bad
      /\ mem'.highWater = [mem.highWater EXCEPT ![s] = mark]
  <2>1. ToSend(s) \subseteq Nat /\ bad \subseteq Nat
    BY <1>1, <1>3, <1>4
  <2> QED  BY <1>1, <1>2, <1>6, <2>1 DEF Record
<1>9. mem' # NoState
  BY <1>8, RecordIsSome
<1>10. Marked(mem')
  <2>1. mem'.map \subseteq Message /\ mem'.failed \subseteq Message
    BY <1>1, <1>2, <1>4, <1>8 DEF Marked
  <2>2. mem.map \union mem.failed \union ToSend(s) \subseteq mem'.map \union mem'.failed
    BY <1>8
  <2>3. mem.highWater \in [Source -> Nat]
    BY <1>2 DEF Record
  <2>4. ASSUME NEW c \in Source
        PROVE  /\ mem'.highWater[c] <= Len(posts)
               /\ \A n \in Of(c) : n <= mem'.highWater[c] => n \in mem'.map \union mem'.failed
    <3>1. CASE c = s
      <4>1. mem'.highWater[c] = mark
        BY <1>8, <2>3, <3>1
      <4> QED  BY <1>6, <1>7, <2>2, <3>1, <4>1
    <3>2. CASE c # s
      <4>1. mem'.highWater[c] = mem.highWater[c]
        BY <1>8, <2>3, <3>2
      <4> QED  BY <1>2, <2>2, <4>1 DEF Marked
    <3> QED  BY <3>1, <3>2
  <2> QED  BY <2>1, <2>4 DEF Marked
<1>11. trouble' \in 0..MaxTrouble /\ runs' \in 0..MaxRuns /\ runs' = runs
      /\ Len(posts') <= Len(FirstPosts) + trouble'
  BY <1>1, CountersShape DEF processVars, discord
<1>12. Shapes'
  <2>1. {saved, mem, old}' \subseteq Record \union {NoState}
    BY <1>1, <1>8 DEF IInv, Shapes, WorldShapes, RunShapes
  <2>2. todo' \subseteq Source
    BY <1>1 DEF IInv, Shapes, WorldShapes, RunShapes
  <2>3. UNCHANGED <<processVars, prev, mode, step, inv, decision, stage, seed, previous, nextStage,
                    metaAt, history>>
    BY <1>1
  <2>4. WorldShapes'
    BY <1>11, <2>1, <2>2, <2>3 DEF IInv, Shapes, WorldShapes, processVars, childVars, discord, history
  <2>5. RunShapes'
    BY <1>11, <2>1, <2>2, <2>3 DEF IInv, Shapes, RunShapes, processVars, childVars, discord, history
  <2> QED  BY <2>4, <2>5 DEF Shapes
<1>13. InstallInv'
  BY <1>1, InstallKept DEF IInv
<1>14. RunInv'
  BY <1>1, <1>2, <1>9, <1>11 DEF IInv, RunInv, processVars, Early
<1>15. RecordInv' /\ ChildInv' /\ ShownInv' /\ OnlyThePair'
  BY <1>1, <1>2, <1>8 DEF IInv, RecordInv, ChildInv, ShownInv, OnlyThePair, Before, Kept,
                          processVars, childVars
<1>16. WitnessInv' /\ MediaInv'
  <2>1. WitnessInv'
    BY <1>1, <1>2, <1>8 DEF IInv, WitnessInv, Vouched, Inspectable, Kept, history, processVars
  <2>2. MediaInv'
    BY <1>1, <1>2, <1>8 DEF IInv, MediaInv, history, processVars, childVars
  <2> QED  BY <2>1, <2>2
<1>17. ContentsInv'
  BY <1>1, <1>2 DEF IInv, ContentsInv, Closed, Of, Message, Before, discord, processVars, childVars
<1>18. MarkInv'
  <2>1. Marked(mem)' /\ Marked(saved)'
    BY <1>1, <1>10 DEF Marked, Of, Message, discord, processVars
  <2> QED  BY <1>1, <1>2, <1>8, <2>1 DEF IInv, MarkInv, Of, Message, Kept, discord, processVars
<1> QED  BY <1>12, <1>13, <1>14, <1>15, <1>16, <1>17, <1>18 DEF IInv

LEMMA CopySteps ==
    ASSUME IInv, NEW s \in Source, CopyWhole(s) \/ CopyPart(s)
    PROVE  IInv'
BY CopyKeeps DEF CopyWhole, CopyPart

-----------------------------------------------------------------------------
(* The invariant.                                                          *)

LEMMA InitIInv == Init => IInv
<1> SUFFICES ASSUME Init PROVE IInv
  OBVIOUS
<1>1. /\ live = FirstLive /\ posts = FirstPosts
      /\ saved = NoState /\ mem = NoState /\ old = NoState /\ prev = NoPrev
      /\ mode = "none" /\ step = "idle" /\ inv = NoInventory /\ decision = Full({})
      /\ stage = 0 /\ seed = 0 /\ previous = 0 /\ todo = {}
      /\ nextStage = 1 /\ metaAt = 0 /\ staged = FALSE /\ spoilt = FALSE
      /\ runs = 0 /\ trouble = 0
      /\ dirs = [d \in 0..MaxStages |-> Gone]
      /\ child = "none" /\ request = NoRequest /\ pending = {} /\ failing = {}
      /\ stderr = {} /\ had = FALSE /\ progress = NoProgress
  BY DEF Init, ProcessInit
<1>2. /\ MaxStages \in Nat /\ MaxTrouble \in Nat /\ MaxRuns \in Nat
      /\ FirstLive \subseteq Source /\ FirstPosts \in Seq(Source) /\ Len(FirstPosts) \in Nat
  BY ExportAssumption
<1>3. /\ dirs \in [0..MaxStages -> Folder]
      /\ \A d \in 0..MaxStages :
           dirs[d] = Gone /\ dirs[d].posts = {} /\ dirs[d].files = {} /\ dirs[d].known = 0
  BY <1>1, FolderShape
<1>4. Shapes
  <2>1. /\ NoPrev \in [completed : BOOLEAN, warned : BOOLEAN, started : Nat] /\ NoProgress \in Shown
        /\ NoInventory \in [ids : SUBSET Source, left : SUBSET Source, complete : BOOLEAN]
        /\ Full({}) \in [scope : {"full", "bounded"}, expected : SUBSET Source, after : Nat]
    BY DEF NoPrev, NoProgress, Shown, NoInventory, Full, NoNumber
  <2>2. NoRequest \in Asked
    BY <1>2 DEF NoRequest, Asked
  <2>3. Len(posts) <= Len(FirstPosts) + trouble /\ trouble \in 0..MaxTrouble /\ runs \in 0..MaxRuns
        /\ stage \in 0..MaxStages /\ seed \in -1..MaxStages /\ previous \in 0..MaxStages
        /\ nextStage \in 1..(MaxStages + 1)
    BY <1>1, <1>2
  <2> QED  BY <1>1, <1>2, <1>3, <2>1, <2>2, <2>3 DEF Shapes, WorldShapes, RunShapes
<1>5. InstallInv
  BY DEF Init, InstallInit, InstallInv
<1>6. RunInv
  BY <1>1, <1>3 DEF RunInv, Full, Early
<1>7. RecordInv /\ ChildInv /\ ShownInv /\ WitnessInv /\ MediaInv /\ OnlyThePair
  BY <1>1 DEF RecordInv, ChildInv, ShownInv, WitnessInv, MediaInv, OnlyThePair, Before, Kept, At
<1>8. ContentsInv
  <2>1. Len(posts) \in Nat /\ 0 \in 0..MaxStages
    BY <1>1, <1>2
  <2> QED  BY <1>1, <1>3, <2>1 DEF ContentsInv, Closed
<1>9. MarkInv
  BY <1>1 DEF MarkInv, Full
<1> QED  BY <1>4, <1>5, <1>6, <1>7, <1>8, <1>9 DEF IInv

LEMMA StutterKeeps == IInv /\ UNCHANGED vars => IInv'
<1> SUFFICES ASSUME IInv, UNCHANGED vars PROVE IInv'
  OBVIOUS
<1>1. UNCHANGED AllButInstall /\ UNCHANGED counters /\ UNCHANGED installVars
  BY DEF vars, AllButInstall, run, counters
<1> QED  BY <1>1, InstallKept, InstallOnly DEF IInv

\* Each step keeps the invariant.
LEMMA NextIInv == IInv /\ [Next]_vars => IInv'
<1> SUFFICES ASSUME IInv, [Next]_vars PROVE IInv'
  OBVIOUS
<1>1. CASE Progress
  <2>1. CASE ValidateToken \/ FindDce \/ (\E s \in Source : ReadPage(s))
    BY <2>1, LookSteps
  <2>2. CASE InstallStep \/ InstallFails
    BY <2>2, InstallKeeps, InstallFailsKeeps
  <2>3. CASE Decide \/ SeedMedia \/ StartExport
    BY <2>3, DecideKeeps, SeedSteps, StartExportKeeps
  <2>4. CASE Dce \/ RecordExportEvent \/ ExportFails \/ ExportReturns
    BY <2>4, DceKeeps, RecordKeeps, ExportEnds, ReturnsKeeps
  <2>5. CASE Finish \/ Invalid \/ FallBack \/ AcceptStage
    BY <2>5, FinishKeeps, InvalidKeeps, FallBackKeeps, AcceptKeeps
  <2>6. CASE (\E d \in 1..MaxStages : Remove(d)) \/ Retained \/ FetchMetadata
    BY <2>6, RemoveKeeps, AfterKeeps
  <2>7. CASE (\E s \in Source : CopyWhole(s)) \/ RunEnds
    BY <2>7, CopySteps, RunEndsKeeps
  <2> QED  BY <1>1, <2>1, <2>2, <2>3, <2>4, <2>5, <2>6, <2>7 DEF Progress
<1>2. CASE Troubles
  <2>1. CASE Refused \/ InstallTrouble \/ InventoryFails
    BY <2>1, RefusedKeeps, InstallKeeps, LookSteps
  <2>2. CASE DceTrouble \/ ExportCancelled \/ SeedFails \/ SaveFails
    BY <2>2, DceKeeps, ExportEnds, SeedSteps, SaveFailsKeeps
  <2>3. CASE NoMetadata \/ (\E s \in Source : CopyPart(s)) \/ Crash
    BY <2>3, AfterKeeps, CopySteps, CrashKeeps
  <2> QED  BY <1>2, <2>1, <2>2, <2>3 DEF Troubles
<1>3. CASE Environment
  BY <1>3, PostKeeps, ChannelsKeeps, StartKeeps DEF Environment
<1>4. CASE UNCHANGED vars
  BY <1>4, StutterKeeps
<1> QED  BY <1>1, <1>2, <1>3, <1>4 DEF Next

-----------------------------------------------------------------------------
(* The theorems.                                                           *)

\* The inductive invariant holds in every behaviour.
THEOREM Invariant == Spec => []IInv
<1>1. Init => IInv
  BY InitIInv
<1>2. IInv /\ [Next]_vars => IInv'
  BY NextIInv
<1> QED  BY <1>1, <1>2, PTL DEF Spec

\* What state.json says of the accepted export is what is on the disk.
LEMMA RecordsAreTrue == IInv => WitnessTrue
<1> SUFFICES ASSUME IInv, saved # NoState
             PROVE  /\ saved.witness # NoWitness =>
                         /\ Inspectable(saved.witness.stage)
                         /\ dirs[saved.witness.stage].files = saved.witness.ids
                    /\ saved.witness.covered =>
                         /\ dirs[saved.witness.stage].lost = {}
                         /\ spoilt \/ dirs[saved.witness.stage].media = "whole"
  BY DEF WitnessTrue, WitnessOnDisk, CoverageIsReal
<1>1. Vouched(saved.witness)
  BY DEF IInv, WitnessInv
<1>2. saved.witness.covered => saved.witness # NoWitness
  BY DEF NoWitness
<1> QED  BY <1>1, <1>2 DEF Vouched

\* WitnessTrue: the witness names a stage that is there, whole and readable, and
\* full coverage is claimed only of an export that lost nothing. Its media is complete,
\* except when an export was cut off under a staged state that calls the one before it
\* completed, and its media was kept for the next (spoilt).
THEOREM WitnessHolds == Spec => []WitnessTrue
<1>1. IInv => WitnessTrue
  BY RecordsAreTrue
<1> QED  BY <1>1, Invariant, PTL

LEMMA MessagesAreThere == IInv => NothingLost
<1> SUFFICES ASSUME IInv PROVE NothingMissed /\ NothingSkipped
  BY DEF NothingLost
<1>1. NothingSkipped
  BY DEF IInv, MarkInv, Marked, NothingSkipped
<1>2. ASSUME step = "messages", decision.scope = "bounded",
             NEW s \in decision.expected, NEW n \in Of(s), n <= dirs[stage].known
      PROVE  n \in mem.map \union dirs[stage].posts
  <2>1. /\ decision.after \in Nat /\ posts \in Seq(Source) /\ n \in Nat
    BY DEF IInv, Shapes, WorldShapes, RunShapes, Of, Message
  <2>2. /\ mem # NoState /\ mem.witness # NoWitness /\ mem.witness.stage = stage /\ stage # 0
        /\ Vouched(mem.witness) /\ mem.witness.ids = decision.expected
    BY <1>2 DEF IInv, RunInv, WitnessInv, MarkInv, Kept
  <2>3. s \in dirs[stage].files \ dirs[stage].torn
    BY <1>2, <2>2 DEF Vouched, Inspectable
  <2>4. decision.after < n => n \in dirs[stage].posts
    BY <1>2, <2>2, <2>3 DEF IInv, ContentsInv
  <2>5. n <= decision.after => n \in mem.map
    BY <1>2 DEF IInv, MarkInv
  <2> QED  BY <2>1, <2>4, <2>5
<1>3. NothingMissed
  BY <1>2 DEF NothingMissed, At
<1> QED  BY <1>1, <1>3

\* NothingLost: a shorter export that is adopted holds what was not delivered
\* before, and no channel's mark passes a message that was forgotten.
THEOREM NoMessageLost == Spec => []NothingLost
<1>1. IInv => NothingLost
  BY MessagesAreThere
<1> QED  BY <1>1, Invariant, PTL

LEMMA ExportFacts == IInv => ExportInv
<1> SUFFICES ASSUME IInv PROVE ExportInv
  OBVIOUS
<1>1. TypeOK
  <2>1. Len(posts) <= MaxPosts
    BY Counted
  <2>2. installed \in {"none", "torn", "pinned", "other"}
    BY DEF IInv, InstallInv
  <2> QED  BY <2>1, <2>2 DEF IInv, Shapes, WorldShapes, RunShapes, TypeOK, Before, Kept
<1>2. ExecutableWhole
  BY DEF IInv, InstallInv, ExecutableWhole
<1>3. NoOrphan /\ SeedIsWhole /\ OnlyThePair
  BY DEF IInv, ChildInv, MediaInv, NoOrphan, SeedIsWhole
<1>4. ProgressBounded
  <2> SUFFICES ASSUME progress.total # NoNumber
               PROVE  ProgressCounts(progress)[1] <= ProgressCounts(progress)[2]
    BY DEF ProgressBounded
  <2>1. child \in {"none", "starting", "alive", "exited", "failed"} /\ progress \in Shown
        /\ pending \subseteq Source /\ failing \subseteq Source
    BY DEF IInv, Shapes, WorldShapes, RunShapes
  <2>2. child \notin {"none", "starting"}
    BY DEF IInv, ShownInv, NoProgress
  <2>3. CASE child = "exited"
    BY <2>3 DEF IInv, ShownInv, ProgressCounts
  <2>4. CASE child \in {"alive", "failed"}
    <3>1. Cardinality(progress.done) <= progress.total /\ progress.final = <<>>
      <4>1. CASE child = "alive"
        <5>1. progress.done \union pending \union failing \in SUBSET Source
              /\ progress.done \in SUBSET (progress.done \union pending \union failing)
          BY <2>1 DEF Shown
        <5> QED  BY <4>1, <5>1, Countable DEF IInv, ShownInv
      <4>2. CASE child = "failed"
        BY <4>2 DEF IInv, ShownInv
      <4> QED  BY <2>4, <4>1, <4>2
    <3> QED  BY <3>1 DEF ProgressCounts
  <2> QED  BY <2>1, <2>2, <2>3, <2>4
<1> QED  BY <1>1, <1>2, <1>3, <1>4 DEF ExportInv

\* ExportInv: the types, what runs as the exporter, that no child is left
\* behind, the progress shown, the media kept and the stages that are left.
THEOREM ExportHolds == Spec => []ExportInv
<1>1. IInv => ExportInv
  BY ExportFacts
<1> QED  BY <1>1, Invariant, PTL

-----------------------------------------------------------------------------
(* The feedback service.                                                   *)

-----------------------------------------------------------------------------
(* What the operations do to the variables.                                *)

LEMMA Numbers ==
    /\ Requests \subseteq Nat /\ Requests \subseteq 0..MaxRequests
    /\ ReceiptRetention \in Nat \ {0} /\ ContactRetention \in Nat /\ CutoffMargin \in Nat
    /\ MaxRequests \in Nat \ {0} /\ MaxTime \in Nat /\ 0..MaxTime \subseteq Nat
  BY BoundsAssumption DEF Requests

Element == [request : Requests, content : Contents, at : Nat]

\* A request of the service and the answer that a transaction gives about it.
LEMMA GoesShape ==
    ASSUME ServiceShapes, NEW h \in Handlers, NEW p \in {"ready", "post", "contact", "deliver", "failing", "waiting"},
           Goes(h, p)
    PROVE  /\ handlers' \in [Handlers -> Handling]
           /\ \A g \in Handlers \ {h} : handlers'[g] = handlers[g]
           /\ handlers'[h].pc = p
           /\ handlers'[h].request = handlers[h].request
           /\ handlers'[h].content = handlers[h].content
           /\ handlers'[h].reply = handlers[h].reply /\ handlers'[h].url = handlers[h].url
           /\ handlers'[h].landed = handlers[h].landed
<1>. DEFINE new == [handlers[h] EXCEPT !.pc = p, !.source = "none"]
<1>1. handlers \in [Handlers -> Handling] /\ handlers[h] \in Handling
  BY DEF ServiceShapes
<1>2. handlers' = [handlers EXCEPT ![h] = new]
  BY <1>1 DEF Goes
<1>3. new \in Handling /\ new.pc = p
      /\ new.request = handlers[h].request /\ new.content = handlers[h].content
      /\ new.reply = handlers[h].reply /\ new.url = handlers[h].url /\ new.landed = handlers[h].landed
  BY <1>1 DEF Handling
<1>. HIDE DEF new
<1>. QED  BY <1>1, <1>2, <1>3

LEMMA RepliedShape ==
    ASSUME ServiceShapes, NEW h \in Handlers, NEW url \in Nat,
           NEW reply \in {"throttled", "conflict", "invalid", "delivered", "review", "error", "failed"},
           Replied(h, reply, url)
    PROVE  /\ handlers' \in [Handlers -> Handling]
           /\ \A g \in Handlers \ {h} : handlers'[g] = handlers[g]
           /\ handlers'[h].pc = "done"
           /\ handlers'[h].request = handlers[h].request
           /\ handlers'[h].content = handlers[h].content
           /\ handlers'[h].reply = reply /\ handlers'[h].url = url
<1>. DEFINE new == [handlers[h] EXCEPT !.pc = "done", !.reply = reply, !.url = url,
                                       !.landed = 0, !.source = "none"]
<1>1. handlers \in [Handlers -> Handling] /\ handlers[h] \in Handling
  BY DEF ServiceShapes
<1>2. handlers' = [handlers EXCEPT ![h] = new]
  BY <1>1 DEF Replied
<1>3. new \in Handling /\ new.pc = "done" /\ new.reply = reply /\ new.url = url
      /\ new.request = handlers[h].request /\ new.content = handlers[h].content
  BY <1>1 DEF Handling
<1>. HIDE DEF new
<1>. QED  BY <1>1, <1>2, <1>3

\* The items after one more was created.
LEMMA AppendShape ==
    ASSUME ServiceShapes, NEW e \in Element, items' = Append(items, e)
    PROVE  /\ items' \in Seq(Element) /\ Len(items) + 1 \in Nat /\ Len(items) + 1 # 0
           /\ DOMAIN items' = DOMAIN items \union {Len(items) + 1}
           /\ Len(items) + 1 \notin DOMAIN items
           /\ \A n \in DOMAIN items : items'[n] = items[n] /\ n < Len(items) + 1
           /\ items'[Len(items) + 1] = e
<1>1. items \in Seq(Element) /\ Len(items) \in Nat /\ DOMAIN items = 1..Len(items)
  BY DEF ServiceShapes, Element
<1>2. /\ items' \in Seq(Element) /\ Len(items') = Len(items) + 1
      /\ \A n \in 1..Len(items) : items'[n] = items[n]
      /\ items'[Len(items) + 1] = e /\ DOMAIN items' = 1..Len(items')
  BY <1>1
<1>. QED  BY <1>1, <1>2

LEMMA ItemShape ==
    ASSUME ServiceShapes
    PROVE  /\ DOMAIN items \subseteq Nat \ {0}
           /\ \A n \in DOMAIN items : /\ items[n] \in Element
                                      /\ items[n].request \in Requests
                                      /\ items[n].content \in Contents /\ items[n].at \in Nat
<1>1. items \in Seq(Element)
  BY DEF ServiceShapes, Element
<1>2. DOMAIN items \subseteq Nat \ {0} /\ \A n \in DOMAIN items : items[n] \in Element
  BY <1>1
<1>. QED  BY <1>2 DEF Element

\* A claim has one item at most, and it carries the report of the claim.
LEMMA ClaimOne ==
    ASSUME ServiceIInv, NEW r \in Requests, receipts[r].state # "none"
    PROVE  /\ \A n \in ItemsOfClaim(r) : /\ n \in DOMAIN items /\ items[n].request = r
                                         /\ items[n].at = receipts[r].created
                                         /\ items[n].content = receipts[r].content
           /\ \A n, m \in ItemsOfClaim(r) : n = m
           /\ \A n \in DOMAIN items : items[n].request = r /\ n \notin ItemsOfClaim(r) =>
                                        items[n].at + ReceiptRetention <= receipts[r].created
<1>1. /\ receipts[r].created \in Nat
      /\ \A n \in DOMAIN items : n \in Nat /\ items[n].at \in Nat
  BY ItemShape DEF ServiceIInv, ServiceShapes, Row
<1>2. \A n \in ItemsOfClaim(r) : /\ n \in DOMAIN items /\ items[n].request = r
                                 /\ items[n].at = receipts[r].created
                                 /\ items[n].content = receipts[r].content
  BY <1>1, Numbers DEF ServiceIInv, ItemInv, ItemsOfClaim
<1>3. \A n, m \in ItemsOfClaim(r) : n = m
  <2> SUFFICES ASSUME NEW n \in ItemsOfClaim(r), NEW m \in ItemsOfClaim(r), n < m PROVE FALSE
    BY <1>1, <1>2
  <2>. QED  BY <1>1, <1>2, Numbers DEF ServiceIInv, NoDuplicate
<1>4. \A n \in DOMAIN items : items[n].request = r /\ n \notin ItemsOfClaim(r) =>
                                        items[n].at + ReceiptRetention <= receipts[r].created
  BY <1>1, Numbers DEF ServiceIInv, ItemInv, ItemsOfClaim
<1>. QED  BY <1>2, <1>3, <1>4

\* A row is deleted only when its time is over, and a contact likewise.
LEMMA LiveShape ==
    ASSUME ServiceIInv
    PROVE  /\ LiveReceipts \in [Requests -> Row] /\ LiveContacts \in [Requests -> Nat]
           /\ \A r \in Requests :
                 \/ LiveReceipts[r] = receipts[r] /\ (receipts[r].state # "none" => receipts[r].expires > now)
                 \/ /\ LiveReceipts[r] = NoRow /\ receipts[r].state # "none"
                    /\ receipts[r].created + ReceiptRetention <= now
           /\ \A r \in Requests : \/ LiveContacts[r] = contacts[r] /\ contacts[r] > now
                                  \/ LiveContacts[r] = 0 /\ contacts[r] <= now
           /\ NoRow \in Row /\ NoRow.state = "none"
<1>1. /\ receipts \in [Requests -> Row] /\ contacts \in [Requests -> Nat] /\ now \in Nat
      /\ NoRow \in Row /\ NoRow.state = "none"
  BY Numbers DEF ServiceIInv, ServiceShapes, NoRow, Row
<1>2. \A r \in Requests : receipts[r].expires \in Int /\ receipts[r].created \in Int
  BY <1>1 DEF Row
<1>3. \A r \in Requests :
         \/ LiveReceipts[r] = receipts[r] /\ (receipts[r].state # "none" => receipts[r].expires > now)
         \/ /\ LiveReceipts[r] = NoRow /\ receipts[r].state # "none"
            /\ receipts[r].created + ReceiptRetention <= now
  BY <1>1, <1>2, Numbers DEF ServiceIInv, RowInv, LiveReceipts
<1>4. \A r \in Requests : \/ LiveContacts[r] = contacts[r] /\ contacts[r] > now
                          \/ LiveContacts[r] = 0 /\ contacts[r] <= now
  BY <1>1, Numbers DEF LiveContacts
<1>5. LiveReceipts \in [Requests -> Row] /\ LiveContacts \in [Requests -> Nat]
  BY <1>1 DEF LiveReceipts, LiveContacts
<1>. QED  BY <1>1, <1>3, <1>4, <1>5

-----------------------------------------------------------------------------
(* What most steps have in common.                                         *)

\* The handlers after a step: those that move keep their claim, and its items are theirs.
Moved(g) ==
    \/ handlers'[g] = handlers[g]
    \/ handlers'[g].pc \notin Active
    \/ /\ handlers[g].pc \in Active /\ handlers'[g].pc \in Active
       /\ handlers'[g].request = handlers[g].request /\ handlers'[g].content = handlers[g].content
       /\ handlers'[g].pc \in {"ready", "failing"} => ItemsOfClaim(handlers[g].request) = {}
       /\ handlers'[g].pc = "post" =>
            IF handlers'[g].landed = 0 THEN ItemsOfClaim(handlers[g].request) = {}
            ELSE handlers'[g].landed \in ItemsOfClaim(handlers[g].request)
       /\ handlers'[g].pc \in {"contact", "deliver"} => handlers'[g].url \in ItemsOfClaim(handlers[g].request)

\* The rows after a step that at most deletes what is past its time.
Swept ==
    /\ receipts' \in [Requests -> Row]
    /\ \A r \in Requests :
         \/ receipts'[r] = receipts[r]
         \/ /\ receipts'[r] = NoRow /\ receipts[r].state # "none"
            /\ receipts[r].created + ReceiptRetention <= now

\* The writes after a step: a handler that gives up its write leaves it under way.
LeftBehind ==
    \A w \in late' :
      \/ w \in late
      \/ \E g \in Handlers :
           /\ handlers[g].pc = "post" /\ handlers[g].landed = 0 /\ handlers'[g].pc \notin Active
           /\ w = [request |-> handlers[g].request, content |-> handlers[g].content]

\* A row that something works on is not past its time.
LEMMA ActiveRow ==
    ASSUME ServiceIInv, NEW g \in Handlers, handlers[g].pc \in Active
    PROVE  /\ handlers[g].request \in Requests /\ handlers[g].content \in Contents
           /\ receipts[handlers[g].request].state \in {"pending", "delivered"}
           /\ receipts[handlers[g].request].created = now
           /\ receipts[handlers[g].request].content = handlers[g].content
           /\ receipts[handlers[g].request].expires = now + ReceiptRetention
           /\ now \in Nat /\ ~(now + ReceiptRetention <= now)
<1>1. handlers[g].request \in Requests /\ handlers[g].content \in Contents
  BY DEF ServiceIInv, HandlerInv, Active
<1>2. /\ receipts[handlers[g].request].state \in {"pending", "delivered"}
      /\ receipts[handlers[g].request].created = now
      /\ receipts[handlers[g].request].content = handlers[g].content
  BY DEF ServiceIInv, ActiveInv
<1>3. now \in Nat /\ ~(now + ReceiptRetention <= now)
  BY Numbers DEF ServiceIInv, ServiceShapes
<1>. QED  BY <1>1, <1>2, <1>3 DEF ServiceIInv, RowInv

LEMMA SweptRow ==
    ASSUME ServiceIInv, Swept, UNCHANGED <<now, items>>, NEW r \in Requests
    PROVE  /\ receipts[r].created \in Nat /\ receipts[r].expires \in Nat /\ now \in Nat
           /\ receipts'[r].state = "none" \/ receipts'[r] = receipts[r]
           /\ receipts[r].state # "none" /\ receipts[r].created = now => receipts'[r] = receipts[r]
           /\ receipts[r].state # "none" /\ receipts[r].expires > now => receipts'[r] = receipts[r]
           /\ receipts'[r] = receipts[r] => ItemsOfClaim(r)' = ItemsOfClaim(r)
<1>1. receipts[r] \in Row /\ now \in Nat
  BY Numbers DEF ServiceIInv, ServiceShapes
<1>2. receipts[r].created \in Nat /\ receipts[r].expires \in Nat
  BY <1>1 DEF Row
<1>3. receipts'[r] = receipts[r] \/ /\ receipts'[r] = NoRow /\ receipts[r].state # "none"
                                    /\ receipts[r].created + ReceiptRetention <= now
  BY DEF Swept
<1>4. receipts[r].state # "none" => receipts[r].expires = receipts[r].created + ReceiptRetention
  BY DEF ServiceIInv, RowInv
<1>5. receipts'[r] = receipts[r] => ItemsOfClaim(r)' = ItemsOfClaim(r)
  BY DEF ItemsOfClaim
<1>. QED  BY <1>1, <1>2, <1>3, <1>4, <1>5, Numbers DEF NoRow

\* A step after which rows are the same or deleted, and handlers have moved.
LEMMA CalmKeeps ==
    ASSUME ServiceIInv, Swept, UNCHANGED <<now, items>>, \A g \in Handlers : Moved(g), LeftBehind,
           contacts' \in [Requests -> Nat],
           \A r \in Requests :
              \/ contacts'[r] >= contacts[r] \/ contacts'[r] >= now + ReceiptRetention
              \/ contacts[r] <= now /\ (receipts'[r].state # "none" => receipts'[r].expires > now)
    PROVE  /\ RowInv' /\ ItemInv' /\ NoDuplicate' /\ ActiveInv' /\ LateInv'
           /\ FreeHasNoItem' /\ ContactKept'
<1>1. now \in Nat /\ \A n \in DOMAIN items : items[n].request \in Requests /\ items[n].at \in Nat
  BY Numbers, ItemShape DEF ServiceIInv, ServiceShapes
<1>2. RowInv'
  BY <1>1, SweptRow DEF ServiceIInv, RowInv, Swept
<1>3. ItemInv'
  <2> SUFFICES ASSUME NEW n \in DOMAIN items
               PROVE  LET row == receipts'[items[n].request]
                      IN  /\ items[n].at <= now
                          /\ row.state = "none" => items[n].at + ReceiptRetention <= now
                          /\ row.state # "none" =>
                               \/ items[n].at + ReceiptRetention <= row.created
                               \/ items[n].at = row.created /\ items[n].content = row.content
    BY DEF ItemInv
  <2> DEFINE r == items[n].request
  <2>1. r \in Requests /\ items[n].at \in Nat /\ receipts[r].created \in Nat
    BY <1>1, SweptRow
  <2>2. CASE receipts'[r] = receipts[r]
    BY <2>2 DEF ServiceIInv, ItemInv
  <2>3. CASE receipts'[r] = NoRow /\ receipts[r].state # "none" /\ receipts[r].created + ReceiptRetention <= now
    BY <1>1, <2>1, <2>3, Numbers DEF ServiceIInv, ItemInv, NoRow
  <2>. QED  BY <2>1, <2>2, <2>3 DEF Swept
<1>4. NoDuplicate'
  BY DEF ServiceIInv, NoDuplicate
<1>5. \A g \in Handlers : handlers'[g].pc \in Active =>
        /\ handlers[g].pc \in Active
        /\ handlers'[g].request = handlers[g].request /\ handlers'[g].content = handlers[g].content
        /\ receipts'[handlers[g].request] = receipts[handlers[g].request]
        /\ ItemsOfClaim(handlers[g].request)' = ItemsOfClaim(handlers[g].request)
  BY ActiveRow, SweptRow DEF Moved
<1>6. ActiveInv'
  <2> SUFFICES ASSUME NEW h \in Handlers, handlers'[h].pc \in Active,
                      NEW r, r = handlers[h].request
               PROVE  /\ handlers'[h].request = r
                      /\ receipts'[r].state \in {"pending", "delivered"}
                      /\ receipts'[r].created = now' /\ receipts'[r].content = handlers'[h].content
                      /\ \A g \in Handlers \ {h} : handlers'[g].pc \in Active => handlers'[g].request # r
                      /\ \A w \in late' : w.request # r
                      /\ handlers'[h].pc \in {"ready", "failing"} => ItemsOfClaim(r)' = {}
                      /\ handlers'[h].pc = "post" =>
                           IF handlers'[h].landed = 0 THEN ItemsOfClaim(r)' = {}
                           ELSE handlers'[h].landed \in ItemsOfClaim(r)'
                      /\ handlers'[h].pc \in {"contact", "deliver"} => handlers'[h].url \in ItemsOfClaim(r)'
    BY DEF ActiveInv, Active, ItemsOfClaim
  <2>1. /\ handlers[h].pc \in Active /\ handlers'[h].request = r /\ handlers'[h].content = handlers[h].content
        /\ receipts'[r] = receipts[r] /\ ItemsOfClaim(r)' = ItemsOfClaim(r)
    BY <1>5, SweptRow, ActiveRow
  <2>2. /\ receipts'[r].state \in {"pending", "delivered"}
        /\ receipts'[r].created = now' /\ receipts'[r].content = handlers'[h].content
    BY <2>1, ActiveRow
  <2>3. \A g \in Handlers \ {h} : handlers'[g].pc \in Active => handlers'[g].request # r
    BY <1>5, <2>1 DEF ServiceIInv, ActiveInv
  <2>4. \A w \in late' : w.request # r
    BY <1>5, <2>1 DEF ServiceIInv, ActiveInv, LeftBehind, Active
  <2>5. /\ handlers'[h].pc \in {"ready", "failing"} => ItemsOfClaim(r) = {}
        /\ handlers'[h].pc = "post" =>
             IF handlers'[h].landed = 0 THEN ItemsOfClaim(r) = {}
             ELSE handlers'[h].landed \in ItemsOfClaim(r)
        /\ handlers'[h].pc \in {"contact", "deliver"} => handlers'[h].url \in ItemsOfClaim(r)
    BY <2>1 DEF ServiceIInv, ActiveInv, Moved
  <2>. QED  BY <2>1, <2>2, <2>3, <2>4, <2>5
<1>7. \A w \in late' :
        /\ w.request \in Requests /\ receipts[w.request].state = "pending"
        /\ receipts[w.request].created = now
        /\ receipts[w.request].content = w.content /\ ItemsOfClaim(w.request) = {}
  <2> SUFFICES ASSUME NEW w \in late'
               PROVE  /\ w.request \in Requests /\ receipts[w.request].state = "pending"
                      /\ receipts[w.request].created = now
                      /\ receipts[w.request].content = w.content /\ ItemsOfClaim(w.request) = {}
    OBVIOUS
  <2>1. CASE w \in late
    BY <2>1 DEF ServiceIInv, LateInv, ServiceShapes
  <2>2. CASE \E g \in Handlers :
               /\ handlers[g].pc = "post" /\ handlers[g].landed = 0 /\ handlers'[g].pc \notin Active
               /\ w = [request |-> handlers[g].request, content |-> handlers[g].content]
    <3>1. PICK g \in Handlers :
               /\ handlers[g].pc = "post" /\ handlers[g].landed = 0 /\ handlers'[g].pc \notin Active
               /\ w = [request |-> handlers[g].request, content |-> handlers[g].content]
      BY <2>2
    <3>2. handlers[g].pc \in Active
      BY <3>1 DEF Active
    <3>3. ItemsOfClaim(w.request) = {}
      BY <3>1, <3>2 DEF ServiceIInv, ActiveInv
    <3>. QED  BY <3>1, <3>2, <3>3, ActiveRow DEF ServiceIInv, DeliveredNamesItem
  <2>. QED  BY <2>1, <2>2 DEF LeftBehind
<1>8. LateInv'
  <2>1. \A w, v \in late' : v.request = w.request => v = w
    <3> SUFFICES ASSUME NEW w \in late', NEW v \in late', v.request = w.request PROVE v = w
      OBVIOUS
    <3>1. CASE w \in late /\ v \in late
      BY <3>1 DEF ServiceIInv, LateInv
    <3>2. CASE w \notin late /\ v \notin late
      BY <3>2 DEF LeftBehind, ServiceIInv, ActiveInv, Active
    <3>3. CASE (w \in late) # (v \in late)
      BY <3>3 DEF LeftBehind, ServiceIInv, ActiveInv, Active
    <3>. QED  BY <3>1, <3>2, <3>3
  <2>. QED  BY <1>7, <2>1, SweptRow DEF LateInv
<1>9. FreeHasNoItem'
  <2> SUFFICES ASSUME NEW r \in Requests, receipts'[r].state \in {"failed", "absent"}
               PROVE  /\ ItemsOfClaim(r)' = {}
                      /\ \A w \in late' : w.request # r
                      /\ \A h \in Handlers : ~(handlers'[h].request = r /\ handlers'[h].pc = "post")
    BY DEF FreeHasNoItem
  <2>1. receipts'[r] = receipts[r] /\ ItemsOfClaim(r)' = ItemsOfClaim(r)
    BY SweptRow
  <2>2. \A h \in Handlers : ~(handlers'[h].request = r /\ handlers'[h].pc = "post")
    BY <1>5, <2>1, ActiveRow DEF Active
  <2>. QED  BY <1>7, <2>1, <2>2 DEF ServiceIInv, FreeHasNoItem
<1>10. ContactKept'
  <2> SUFFICES ASSUME NEW r \in Requests, receipts'[r].state = "delivered",
                      ~receipts'[r].audit, receipts'[r].content \in Emails
               PROVE  contacts'[r] >= receipts'[r].expires
    BY DEF ContactKept
  <2>1. receipts'[r] = receipts[r] /\ contacts[r] \in Nat /\ contacts'[r] \in Nat
    BY SweptRow DEF ServiceIInv, ServiceShapes
  <2>2. contacts[r] >= receipts[r].expires
    BY <2>1 DEF ServiceIInv, ContactKept
  <2>3. \/ contacts'[r] >= contacts[r] \/ contacts'[r] >= now + ReceiptRetention
        \/ contacts[r] <= now /\ receipts'[r].expires > now
    OBVIOUS
  <2>4. receipts[r].expires <= now + ReceiptRetention
    BY <1>1, <2>1, SweptRow, Numbers DEF ServiceIInv, RowInv
  <2>. QED  BY <1>1, <2>1, <2>2, <2>3, <2>4, SweptRow, Numbers
<1>. QED  BY <1>2, <1>3, <1>4, <1>6, <1>8, <1>9, <1>10

\* The ownership of requests, when no report is taken up.
LEMMA OwnKept ==
    ASSUME ServiceIInv, UNCHANGED <<draft, foreign>>,
           \A r \in Requests : receipts'[r].state # "none" =>
              receipts[r].state # "none" /\ receipts'[r].content = receipts[r].content,
           \A g \in Handlers : handlers'[g].pc = "sent" => handlers'[g] = handlers[g]
    PROVE  OwnInv'
<1>1. \A g \in Handlers : handlers[g].pc = "sent" => handlers[g].request \in Requests
  BY DEF ServiceIInv, HandlerInv
<1>. QED  BY <1>1 DEF ServiceIInv, OwnInv

\* A pending receipt gets its final state, from its handler, its scan or the operator.
LEMMA SettledKeeps ==
    ASSUME ServiceIInv, UNCHANGED <<now, items, late, contacts>>,
           NEW r \in Requests, NEW s \in {"delivered", "failed", "absent"},
           NEW url \in Nat, NEW audit \in BOOLEAN,
           IsPending(r), Transition(r, s, url, audit),
           \A g \in Handlers : handlers'[g] = handlers[g] \/ handlers'[g].pc \notin Active,
           s = "delivered" => /\ url \in ItemsOfClaim(r)
                              /\ ~audit /\ receipts[r].content \in Emails => contacts[r] >= receipts[r].expires,
           s # "delivered" => /\ ItemsOfClaim(r) = {} /\ \A w \in late : w.request # r
                              /\ \A g \in Handlers : handlers'[g].pc \in Active => handlers[g].request # r
    PROVE  /\ RowInv' /\ ItemInv' /\ NoDuplicate' /\ ActiveInv' /\ LateInv'
           /\ FreeHasNoItem' /\ ContactKept'
           /\ receipts' \in [Requests -> Row]
           /\ \A q \in Requests \ {r} : receipts'[q] = receipts[q]
           /\ receipts'[r].state = s /\ receipts'[r].content = receipts[r].content
           /\ receipts'[r].created = receipts[r].created /\ receipts'[r].expires = receipts[r].expires
           /\ \A q \in Requests : ItemsOfClaim(q)' = ItemsOfClaim(q)
           /\ \A q \in Requests : receipts'[q].state = "delivered" =>
                /\ receipts'[q].url \in ItemsOfClaim(q)'
                /\ items'[receipts'[q].url].content = receipts'[q].content
<1>. DEFINE new == [receipts[r] EXCEPT !.state = s, !.url = url, !.audit = audit]
<1>1. receipts \in [Requests -> Row] /\ receipts[r] \in Row /\ receipts[r].state = "pending"
  BY DEF ServiceIInv, ServiceShapes, IsPending
<1>2. receipts' = [receipts EXCEPT ![r] = new]
  BY <1>1 DEF Transition
<1>3. /\ new \in Row /\ new.state = s /\ new.url = url /\ new.audit = audit
      /\ new.content = receipts[r].content
      /\ new.created = receipts[r].created /\ new.expires = receipts[r].expires
  BY <1>1 DEF Row
<1>. HIDE DEF new
<1>4. /\ receipts' \in [Requests -> Row] /\ receipts'[r] = new
      /\ \A q \in Requests \ {r} : receipts'[q] = receipts[q]
  BY <1>1, <1>2, <1>3
<1>5. \A q \in Requests : /\ receipts'[q].created = receipts[q].created
                          /\ receipts'[q].expires = receipts[q].expires
                          /\ receipts'[q].content = receipts[q].content
                          /\ (receipts'[q].state = "none") = (receipts[q].state = "none")
  BY <1>1, <1>3, <1>4
<1>6. \A q \in Requests : ItemsOfClaim(q)' = ItemsOfClaim(q)
  BY <1>5 DEF ItemsOfClaim
<1>7. \A n \in DOMAIN items : items[n].request \in Requests
  BY ItemShape DEF ServiceIInv
<1>8. RowInv'
  BY <1>1, <1>3, <1>4, <1>5 DEF ServiceIInv, RowInv
<1>9. ItemInv' /\ NoDuplicate'
  BY <1>5, <1>7 DEF ServiceIInv, ItemInv, NoDuplicate
<1>10. ActiveInv'
  <2> SUFFICES ASSUME NEW h \in Handlers, handlers'[h].pc \in Active,
                      NEW q, q = handlers[h].request
               PROVE  /\ handlers'[h].request = q
                      /\ receipts'[q].state \in {"pending", "delivered"}
                      /\ receipts'[q].created = now' /\ receipts'[q].content = handlers'[h].content
                      /\ \A g \in Handlers \ {h} : handlers'[g].pc \in Active => handlers'[g].request # q
                      /\ \A w \in late' : w.request # q
                      /\ handlers'[h].pc \in {"ready", "failing"} => ItemsOfClaim(q)' = {}
                      /\ handlers'[h].pc = "post" =>
                           IF handlers'[h].landed = 0 THEN ItemsOfClaim(q)' = {}
                           ELSE handlers'[h].landed \in ItemsOfClaim(q)'
                      /\ handlers'[h].pc \in {"contact", "deliver"} => handlers'[h].url \in ItemsOfClaim(q)'
    BY DEF ActiveInv, Active, ItemsOfClaim
  <2>1. handlers'[h] = handlers[h] /\ handlers[h].pc \in Active /\ q \in Requests
    BY ActiveRow
  <2>2. receipts'[q].state \in {"pending", "delivered"}
    BY <1>3, <1>4, <2>1, ActiveRow
  <2>. QED  BY <1>5, <1>6, <2>1, <2>2 DEF ServiceIInv, ActiveInv
<1>11. LateInv'
  <2> SUFFICES ASSUME NEW w \in late
               PROVE  /\ receipts'[w.request].state = "pending" /\ receipts'[w.request].created = now
                      /\ receipts'[w.request].content = w.content /\ ItemsOfClaim(w.request)' = {}
                      /\ \A v \in late : v.request = w.request => v = w
    BY DEF LateInv
  <2>1. /\ w.request \in Requests /\ ItemsOfClaim(w.request) = {}
        /\ receipts[w.request].state = "pending" /\ receipts[w.request].created = now
        /\ receipts[w.request].content = w.content
        /\ \A v \in late : v.request = w.request => v = w
    BY DEF ServiceIInv, LateInv, ServiceShapes
  <2>2. w.request # r
    BY <2>1
  <2>. QED  BY <1>4, <1>6, <2>1, <2>2
<1>12. FreeHasNoItem'
  <2> SUFFICES ASSUME NEW q \in Requests, receipts'[q].state \in {"failed", "absent"}
               PROVE  /\ ItemsOfClaim(q)' = {}
                      /\ \A w \in late : w.request # q
                      /\ \A h \in Handlers : ~(handlers'[h].request = q /\ handlers'[h].pc = "post")
    BY DEF FreeHasNoItem
  <2>1. CASE q = r
    BY <1>3, <1>4, <1>6, <2>1 DEF Active
  <2>2. CASE q # r
    BY <1>4, <1>6, <2>2 DEF ServiceIInv, FreeHasNoItem, Active
  <2>. QED  BY <2>1, <2>2
<1>13. ContactKept'
  BY <1>3, <1>4 DEF ServiceIInv, ContactKept
<1>14. \A q \in Requests : receipts'[q].state = "delivered" =>
                /\ receipts'[q].url \in ItemsOfClaim(q)'
                /\ items'[receipts'[q].url].content = receipts'[q].content
  <2> SUFFICES ASSUME NEW q \in Requests, receipts'[q].state = "delivered"
               PROVE  /\ receipts'[q].url \in ItemsOfClaim(q)
                      /\ items[receipts'[q].url].content = receipts'[q].content
    BY <1>6
  <2>1. CASE q = r
    BY <1>1, <1>3, <1>4, <2>1, ClaimOne
  <2>2. CASE q # r
    BY <1>4, <2>2 DEF ServiceIInv, DeliveredNamesItem
  <2>. QED  BY <2>1, <2>2
<1>. QED  BY <1>3, <1>4, <1>6, <1>8, <1>9, <1>10, <1>11, <1>12, <1>13, <1>14


\* A step that leaves the store and the items alone.
LEMMA StillKeeps ==
    ASSUME ServiceIInv, UNCHANGED <<now, store, items>>, \A g \in Handlers : Moved(g), LeftBehind
    PROVE  /\ RowInv' /\ ItemInv' /\ NoDuplicate' /\ ActiveInv' /\ LateInv'
           /\ FreeHasNoItem' /\ ContactKept'
           /\ \A r \in Requests : ItemsOfClaim(r)' = ItemsOfClaim(r)
           /\ receipts' = receipts /\ contacts' = contacts
<1>1. receipts' = receipts /\ contacts' = contacts
  BY DEF store
<1>2. Swept /\ \A r \in Requests : contacts'[r] = contacts[r] /\ contacts[r] \in Nat
  BY <1>1 DEF ServiceIInv, ServiceShapes, Swept
<1>3. contacts' \in [Requests -> Nat] /\ \A r \in Requests : contacts'[r] >= contacts[r]
  BY <1>1, <1>2 DEF ServiceIInv, ServiceShapes
<1>4. \A r \in Requests : ItemsOfClaim(r)' = ItemsOfClaim(r)
  BY <1>1 DEF ItemsOfClaim
<1>. QED  BY <1>1, <1>2, <1>3, <1>4, CalmKeeps

\* Of the handlers, only h is different.
OnlyHandler(h) ==
    /\ handlers' \in [Handlers -> Handling]
    /\ \A g \in Handlers \ {h} : handlers'[g] = handlers[g]
    /\ handlers'[h].request = handlers[h].request /\ handlers'[h].content = handlers[h].content

\* A handler moves on within its claim, and nothing but the readiness cache changes with it.
LEMMA MoveKeeps ==
    ASSUME ServiceIInv, NEW h \in Handlers, OnlyHandler(h), handlers[h].pc \in Active,
           handlers'[h].pc \in {"post", "contact", "failing"}, handlers'[h].reply = handlers[h].reply,
           Moved(h), UNCHANGED <<now, store, scans, github, client>>,
           readiness' \in {"unknown", "ready", "unready"}, checking' \in Handlers \union {Nobody, Probe},
           categories' \in BOOLEAN, ReadyIsRouted', LockInv'
    PROVE  ServiceIInv'
<1>1. UNCHANGED <<items, late, draft, foreign>> /\ LeftBehind /\ \A g \in Handlers : Moved(g)
  BY DEF github, client, OnlyHandler, LeftBehind, Moved
<1>2. /\ RowInv' /\ ItemInv' /\ NoDuplicate' /\ ActiveInv' /\ LateInv'
      /\ FreeHasNoItem' /\ ContactKept'
      /\ \A r \in Requests : ItemsOfClaim(r)' = ItemsOfClaim(r)
      /\ receipts' = receipts /\ contacts' = contacts
  BY <1>1, StillKeeps
<1>3. /\ handlers[h].request \in Requests /\ handlers[h].content \in Contents
      /\ handlers[h].pc # "done" /\ handlers'[h].pc \notin {"sent", "ready", "waiting", "deliver", "done"}
  BY ActiveRow DEF Active
<1>4. ServiceShapes'
  BY <1>1, <1>2 DEF ServiceIInv, ServiceShapes, OnlyHandler
<1>5. HandlerInv'
  BY <1>3 DEF ServiceIInv, HandlerInv, OnlyHandler
<1>6. ScanInv' /\ WaitInv'
  BY <1>2, <1>3 DEF ServiceIInv, ScanInv, WaitInv, OnlyHandler
<1>7. DeliveredNamesItem' /\ ConflictIsForeign'
  BY <1>1, <1>2, <1>3 DEF ServiceIInv, HandlerInv, DeliveredNamesItem, ConflictIsForeign, OnlyHandler
<1>8. ContactInv'
  BY <1>2, <1>3 DEF ServiceIInv, ContactInv, OnlyHandler
<1>9. OwnInv'
  BY <1>1, <1>2, <1>3, OwnKept DEF OnlyHandler
<1>. QED  BY <1>2, <1>4, <1>5, <1>6, <1>7, <1>8, <1>9 DEF ServiceIInv

\* A handler ends without a delivery; a write of its own is left behind.
LEMMA EndKeeps ==
    ASSUME ServiceIInv, NEW h \in Handlers, OnlyHandler(h), handlers'[h].pc = "done",
           handlers'[h].reply \in {"invalid", "review"},
           UNCHANGED <<now, store, scans, items, client>>,
           late' \subseteq [request : Requests, content : Contents], LeftBehind,
           readiness' \in {"unknown", "ready", "unready"}, checking' \in Handlers \union {Nobody, Probe},
           categories' \in BOOLEAN, ReadyIsRouted', LockInv'
    PROVE  ServiceIInv'
<1>1. UNCHANGED <<draft, foreign>> /\ \A g \in Handlers : Moved(g)
  BY DEF client, OnlyHandler, Moved, Active
<1>2. /\ RowInv' /\ ItemInv' /\ NoDuplicate' /\ ActiveInv' /\ LateInv'
      /\ FreeHasNoItem' /\ ContactKept'
      /\ \A r \in Requests : ItemsOfClaim(r)' = ItemsOfClaim(r)
      /\ receipts' = receipts /\ contacts' = contacts
  BY <1>1, StillKeeps
<1>3. ServiceShapes'
  BY <1>1, <1>2 DEF ServiceIInv, ServiceShapes, OnlyHandler
<1>4. HandlerInv'
  BY DEF ServiceIInv, HandlerInv, OnlyHandler
<1>5. ScanInv' /\ WaitInv'
  BY <1>2 DEF ServiceIInv, ScanInv, WaitInv, OnlyHandler
<1>6. DeliveredNamesItem' /\ ConflictIsForeign'
  BY <1>1, <1>2 DEF ServiceIInv, HandlerInv, DeliveredNamesItem, ConflictIsForeign, OnlyHandler
<1>7. ContactInv'
  BY <1>2 DEF ServiceIInv, ContactInv, OnlyHandler
<1>8. OwnInv'
  BY <1>1, <1>2, OwnKept DEF OnlyHandler
<1>. QED  BY <1>2, <1>3, <1>4, <1>5, <1>6, <1>7, <1>8 DEF ServiceIInv

-----------------------------------------------------------------------------
(* The steps of a handler.                                                 *)

LEMMA SourceChangedKeeps ==
    ASSUME ServiceIInv, NEW h \in Handlers, SourceChanged(h)
    PROVE  ServiceIInv'
<1>1. handlers[h].pc = "sent" /\ UNCHANGED <<now, store, cache, scans, github, client>>
  BY DEF SourceChanged
<1>2. OnlyHandler(h) /\ handlers'[h].pc = "done" /\ handlers'[h].reply = "invalid"
  BY RepliedShape DEF ServiceIInv, SourceChanged, OnlyHandler
<1>3. UNCHANGED <<readiness, checking, categories, items, late>>
  BY <1>1 DEF cache, github
<1>4. LeftBehind /\ ReadyIsRouted' /\ LockInv'
  BY <1>1, <1>2, <1>3 DEF ServiceIInv, LeftBehind, ReadyIsRouted, LockInv, OnlyHandler
<1>5. /\ readiness' \in {"unknown", "ready", "unready"} /\ checking' \in Handlers \union {Nobody, Probe}
      /\ categories' \in BOOLEAN /\ late' \subseteq [request : Requests, content : Contents]
  BY <1>3 DEF ServiceIInv, ServiceShapes
<1>. QED  BY <1>1, <1>2, <1>3, <1>4, <1>5, EndKeeps

LEMMA CachedReadyKeeps ==
    ASSUME ServiceIInv, NEW h \in Handlers, CachedReady(h)
    PROVE  ServiceIInv'
<1>1. /\ handlers[h].pc = "ready" /\ checking = Nobody
      /\ UNCHANGED <<now, store, scans, github, client>>
  BY DEF CachedReady, Ask
<1>2. /\ OnlyHandler(h) /\ handlers'[h].pc \in {"post", "failing"}
      /\ handlers'[h].reply = handlers[h].reply /\ handlers'[h].landed = handlers[h].landed
  BY GoesShape DEF ServiceIInv, CachedReady, OnlyHandler
<1>3. ItemsOfClaim(handlers[h].request) = {} /\ handlers[h].landed = 0 /\ handlers[h].pc \in Active
  BY <1>1 DEF ServiceIInv, ActiveInv, HandlerInv, Active
<1>4. Moved(h)
  BY <1>2, <1>3 DEF Moved, OnlyHandler, Active
<1>5. \/ UNCHANGED <<readiness, checking, categories>>
      \/ readiness' = "unknown" /\ categories' = FALSE /\ checking' = checking
  BY DEF CachedReady, Invalidate, cache
<1>6. /\ readiness' \in {"unknown", "ready", "unready"} /\ checking' \in Handlers \union {Nobody, Probe}
      /\ categories' \in BOOLEAN /\ ReadyIsRouted'
  BY <1>5 DEF ServiceIInv, ServiceShapes, ReadyIsRouted
<1>7. LockInv'
  BY <1>1, <1>5, NamesAssumption DEF LockInv
<1>. QED  BY <1>1, <1>2, <1>3, <1>4, <1>6, <1>7, MoveKeeps

LEMMA CachedUnreadyKeeps ==
    ASSUME ServiceIInv, NEW h \in Handlers, CachedUnready(h)
    PROVE  ServiceIInv'
<1>1. /\ handlers[h].pc = "ready" /\ checking = Nobody
      /\ UNCHANGED <<now, store, scans, github, client, readiness, checking, categories>>
  BY DEF CachedUnready, Ask, cache
<1>2. OnlyHandler(h) /\ handlers'[h].pc = "failing" /\ handlers'[h].reply = handlers[h].reply
  BY GoesShape DEF ServiceIInv, CachedUnready, OnlyHandler
<1>3. ItemsOfClaim(handlers[h].request) = {} /\ handlers[h].pc \in Active
  BY <1>1 DEF ServiceIInv, ActiveInv, Active
<1>4. Moved(h)
  BY <1>2, <1>3 DEF Moved, OnlyHandler, Active
<1>5. /\ readiness' \in {"unknown", "ready", "unready"} /\ checking' \in Handlers \union {Nobody, Probe}
      /\ categories' \in BOOLEAN /\ ReadyIsRouted'
  BY <1>1 DEF ServiceIInv, ServiceShapes, ReadyIsRouted
<1>6. LockInv'
  BY <1>1, NamesAssumption DEF LockInv
<1>. QED  BY <1>1, <1>2, <1>3, <1>4, <1>5, <1>6, MoveKeeps

LEMMA EndCheckKeeps ==
    ASSUME ServiceIInv, NEW h \in Handlers, NEW ok \in BOOLEAN, EndCheck(h, ok)
    PROVE  ServiceIInv'
<1>1. /\ handlers[h].pc = "ready" /\ checking' = Nobody /\ categories' = ok
      /\ readiness' = (IF ok THEN "ready" ELSE "unready")
      /\ UNCHANGED <<now, store, scans, github, client>>
  BY DEF ServiceIInv, LockInv, EndCheck, ResolveDiscussionCategories
<1>2. /\ OnlyHandler(h) /\ handlers'[h].pc \in {"post", "failing"}
      /\ handlers'[h].reply = handlers[h].reply /\ handlers'[h].landed = handlers[h].landed
  BY NamesAssumption, GoesShape DEF ServiceIInv, EndCheck, OnlyHandler
<1>3. ItemsOfClaim(handlers[h].request) = {} /\ handlers[h].landed = 0 /\ handlers[h].pc \in Active
  BY <1>1 DEF ServiceIInv, ActiveInv, HandlerInv, Active
<1>4. Moved(h)
  BY <1>2, <1>3 DEF Moved, OnlyHandler, Active
<1>5. /\ readiness' \in {"unknown", "ready", "unready"} /\ checking' \in Handlers \union {Nobody, Probe}
      /\ categories' \in BOOLEAN /\ ReadyIsRouted' /\ LockInv'
  BY <1>1, NamesAssumption DEF ReadyIsRouted, LockInv
<1>. QED  BY <1>1, <1>2, <1>3, <1>4, <1>5, MoveKeeps

LEMMA CreatedKeeps ==
    ASSUME ServiceIInv, NEW h \in Handlers, Created(h)
    PROVE  ServiceIInv'
<1>. DEFINE new == [handlers[h] EXCEPT !.pc = "contact", !.url = handlers[h].landed]
<1>1. /\ handlers[h].pc = "post" /\ handlers[h].landed # 0
      /\ UNCHANGED <<now, store, scans, github, client, readiness, checking, categories>>
  BY DEF Created, cache
<1>2. handlers \in [Handlers -> Handling] /\ handlers[h] \in Handling
  BY DEF ServiceIInv, ServiceShapes
<1>3. handlers' = [handlers EXCEPT ![h] = new]
  BY <1>2 DEF Created
<1>4. /\ new \in Handling /\ new.pc = "contact" /\ new.url = handlers[h].landed
      /\ new.request = handlers[h].request /\ new.content = handlers[h].content
      /\ new.reply = handlers[h].reply
  BY <1>2 DEF Handling
<1>. HIDE DEF new
<1>5. /\ OnlyHandler(h) /\ handlers'[h].pc = "contact" /\ handlers'[h].url = handlers[h].landed
      /\ handlers'[h].reply = handlers[h].reply
  BY <1>2, <1>3, <1>4 DEF OnlyHandler
<1>6. handlers[h].landed \in ItemsOfClaim(handlers[h].request) /\ handlers[h].pc \in Active
  BY <1>1 DEF ServiceIInv, ActiveInv, Active
<1>7. Moved(h)
  BY <1>5, <1>6 DEF Moved, OnlyHandler, Active
<1>8. /\ readiness' \in {"unknown", "ready", "unready"} /\ checking' \in Handlers \union {Nobody, Probe}
      /\ categories' \in BOOLEAN /\ ReadyIsRouted'
  BY <1>1 DEF ServiceIInv, ServiceShapes, ReadyIsRouted
<1>9. LockInv'
  BY <1>1, <1>5 DEF ServiceIInv, LockInv, OnlyHandler
<1>. QED  BY <1>1, <1>5, <1>6, <1>7, <1>8, <1>9, MoveKeeps

LEMMA RejectedKeeps ==
    ASSUME ServiceIInv, NEW h \in Handlers, Rejected(h)
    PROVE  ServiceIInv'
<1>1. /\ handlers[h].pc = "post" /\ handlers[h].landed = 0
      /\ UNCHANGED <<now, store, scans, github, client, checking>>
      /\ readiness' = "unknown" /\ categories' = FALSE
  BY DEF Rejected, Invalidate
<1>2. OnlyHandler(h) /\ handlers'[h].pc = "failing" /\ handlers'[h].reply = handlers[h].reply
  BY GoesShape DEF ServiceIInv, Rejected, OnlyHandler
<1>3. ItemsOfClaim(handlers[h].request) = {} /\ handlers[h].pc \in Active
  BY <1>1 DEF ServiceIInv, ActiveInv, Active
<1>4. Moved(h)
  BY <1>2, <1>3 DEF Moved, OnlyHandler, Active
<1>5. /\ readiness' \in {"unknown", "ready", "unready"} /\ checking' \in Handlers \union {Nobody, Probe}
      /\ categories' \in BOOLEAN /\ ReadyIsRouted'
  BY <1>1 DEF ServiceIInv, ServiceShapes, ReadyIsRouted
<1>6. LockInv'
  BY <1>1, <1>2 DEF ServiceIInv, LockInv, OnlyHandler
<1>. QED  BY <1>1, <1>2, <1>3, <1>4, <1>5, <1>6, MoveKeeps

LEMMA UncertainKeeps ==
    ASSUME ServiceIInv, NEW h \in Handlers, Uncertain(h)
    PROVE  ServiceIInv'
<1>1. /\ handlers[h].pc = "post" /\ late' = late \union GivenUp({h})
      /\ UNCHANGED <<now, store, scans, items, client, checking>>
      /\ readiness' = "unknown" /\ categories' = FALSE
  BY DEF Uncertain, Invalidate
<1>2. OnlyHandler(h) /\ handlers'[h].pc = "done" /\ handlers'[h].reply = "review"
  BY RepliedShape DEF ServiceIInv, Uncertain, OnlyHandler
<1>3. handlers[h].request \in Requests /\ handlers[h].content \in Contents
  BY <1>1, ActiveRow DEF Active
<1>7. \A w \in GivenUp({h}) : /\ handlers[h].landed = 0
                              /\ w = [request |-> handlers[h].request, content |-> handlers[h].content]
  BY DEF GivenUp
<1>4. late' \subseteq [request : Requests, content : Contents] /\ LeftBehind
  <2>1. late \subseteq [request : Requests, content : Contents]
    BY DEF ServiceIInv, ServiceShapes
  <2>2. LeftBehind
    BY <1>1, <1>2, <1>7 DEF LeftBehind, Active
  <2>. QED  BY <1>1, <1>3, <1>7, <2>1, <2>2
<1>5. /\ readiness' \in {"unknown", "ready", "unready"} /\ checking' \in Handlers \union {Nobody, Probe}
      /\ categories' \in BOOLEAN /\ ReadyIsRouted'
  BY <1>1 DEF ServiceIInv, ServiceShapes, ReadyIsRouted
<1>6. LockInv'
  BY <1>1, <1>2 DEF ServiceIInv, LockInv, OnlyHandler
<1>. QED  BY <1>1, <1>2, <1>4, <1>5, <1>6, EndKeeps

\* The contact of a report is stored, and outlives the receipt of this moment.
LEMMA StoreContactShape ==
    ASSUME ServiceIInv, NEW r \in Requests, NEW content \in Contents, StoreContact(r, content),
           UNCHANGED <<now, items>>
    PROVE  /\ Swept /\ contacts' \in [Requests -> Nat]
           /\ \A q \in Requests :
                 \/ contacts'[q] >= contacts[q] \/ contacts'[q] >= now + ReceiptRetention
                 \/ contacts[q] <= now /\ (receipts'[q].state # "none" => receipts'[q].expires > now)
           /\ content \in Emails => contacts'[r] >= now + ReceiptRetention
<1>1. /\ receipts \in [Requests -> Row] /\ contacts \in [Requests -> Nat] /\ now \in Nat
      /\ now + ContactRetention \in Nat /\ now + ContactRetention >= now + ReceiptRetention
  BY Numbers, RetentionAssumption DEF ServiceIInv, ServiceShapes
<1>2. CASE content \in Emails
  <2>1. receipts' = LiveReceipts /\ contacts' = [LiveContacts EXCEPT ![r] = now + ContactRetention]
    BY <1>2 DEF StoreContact
  <2>2. Swept /\ contacts' \in [Requests -> Nat] /\ contacts'[r] = now + ContactRetention
    BY <1>1, <2>1, LiveShape DEF Swept
  <2>3. ASSUME NEW q \in Requests
        PROVE  \/ contacts'[q] >= contacts[q] \/ contacts'[q] >= now + ReceiptRetention
               \/ contacts[q] <= now /\ (receipts'[q].state # "none" => receipts'[q].expires > now)
    <3>1. \/ contacts'[q] = now + ContactRetention
          \/ contacts'[q] = contacts[q]
          \/ contacts[q] <= now
      BY <2>1, LiveShape
    <3>2. receipts'[q].state # "none" => receipts'[q].expires > now
      BY <2>1, LiveShape
    <3>3. contacts[q] \in Nat /\ contacts'[q] \in Nat
      BY <1>1, <2>2
    <3>. QED  BY <1>1, <3>1, <3>2, <3>3, Numbers
  <2>. QED  BY <1>1, <2>2, <2>3
<1>3. CASE content \notin Emails
  <2>1. receipts' = receipts /\ contacts' = contacts
    BY <1>3 DEF StoreContact, store
  <2>2. \A q \in Requests : contacts'[q] >= contacts[q]
    BY <1>1, <2>1
  <2>. QED  BY <1>1, <1>3, <2>1, <2>2 DEF Swept
<1>. QED  BY <1>2, <1>3

LEMMA KeepContactKeeps ==
    ASSUME ServiceIInv, NEW h \in Handlers, KeepContact(h)
    PROVE  ServiceIInv'
<1>. DEFINE r == handlers[h].request
<1>1. /\ handlers[h].pc = "contact" /\ StoreContact(r, handlers[h].content)
      /\ UNCHANGED <<now, scans, items, late, draft, foreign, readiness, checking, categories>>
  BY DEF KeepContact, cache, github, client
<1>2. /\ OnlyHandler(h) /\ handlers'[h].pc = "deliver" /\ handlers'[h].reply = handlers[h].reply
      /\ handlers'[h].url = handlers[h].url
  BY GoesShape DEF ServiceIInv, KeepContact, OnlyHandler
<1>3. /\ r \in Requests /\ handlers[h].content \in Contents /\ handlers[h].pc \in Active
      /\ handlers[h].url \in ItemsOfClaim(r) /\ now \in Nat
  BY <1>1, ActiveRow DEF ServiceIInv, ActiveInv, Active
<1>4. LeftBehind /\ \A g \in Handlers : Moved(g)
  BY <1>1, <1>2, <1>3 DEF LeftBehind, Moved, OnlyHandler, Active
<1>5. /\ Swept /\ contacts' \in [Requests -> Nat]
      /\ \A q \in Requests :
            \/ contacts'[q] >= contacts[q] \/ contacts'[q] >= now + ReceiptRetention
            \/ contacts[q] <= now /\ (receipts'[q].state # "none" => receipts'[q].expires > now)
      /\ handlers[h].content \in Emails => contacts'[r] >= now + ReceiptRetention
  BY <1>1, <1>3, StoreContactShape
<1>6. /\ RowInv' /\ ItemInv' /\ NoDuplicate' /\ ActiveInv' /\ LateInv'
      /\ FreeHasNoItem' /\ ContactKept'
  BY <1>1, <1>4, <1>5, CalmKeeps
<1>7. ServiceShapes'
  BY <1>1, <1>2, <1>5 DEF ServiceIInv, ServiceShapes, OnlyHandler, Swept
<1>8. HandlerInv'
  BY <1>2, <1>3 DEF ServiceIInv, HandlerInv, OnlyHandler, Active
<1>9. \A q \in Requests : scans[q].pc # "none" =>
        receipts'[q] = receipts[q] /\ ItemsOfClaim(q)' = ItemsOfClaim(q)
  BY <1>1, <1>5, SweptRow DEF ServiceIInv, ScanInv
<1>10. ScanInv' /\ WaitInv'
  BY <1>1, <1>2, <1>9 DEF ServiceIInv, ScanInv, WaitInv, OnlyHandler
<1>11. DeliveredNamesItem' /\ ConflictIsForeign'
  <2>1. \A q \in Requests : receipts'[q].state = "delivered" =>
          receipts'[q] = receipts[q] /\ ItemsOfClaim(q)' = ItemsOfClaim(q)
    BY <1>1, <1>5, SweptRow
  <2>. QED  BY <1>1, <1>2, <1>3, <2>1 DEF ServiceIInv, HandlerInv, DeliveredNamesItem, ConflictIsForeign, OnlyHandler, Active
<1>12. ContactInv'
  <2>1. ASSUME NEW q \in Requests, contacts[q] >= now + ReceiptRetention PROVE contacts'[q] >= now + ReceiptRetention
    <3>1. contacts[q] \in Nat /\ contacts'[q] \in Nat /\ ~(contacts[q] <= now)
      BY <1>3, <1>5, <2>1, Numbers DEF ServiceIInv, ServiceShapes
    <3>. QED  BY <1>3, <1>5, <2>1, <3>1, Numbers
  <2>2. ASSUME NEW q \in Requests, scans[q].pc = "deliver", contacts[q] >= receipts[q].expires
        PROVE  contacts'[q] >= receipts'[q].expires
    <3>1. receipts'[q] = receipts[q] /\ receipts[q].expires > now /\ receipts[q].expires \in Nat
      BY <1>1, <1>5, <1>9, <2>2, SweptRow DEF ServiceIInv, ScanInv
    <3>2. contacts[q] \in Nat /\ contacts'[q] \in Nat
      BY <1>5 DEF ServiceIInv, ServiceShapes
    <3>3. receipts[q].expires <= now + ReceiptRetention
      BY <1>1, <1>3, <1>5, <2>2, SweptRow, Numbers DEF ServiceIInv, ScanInv, RowInv
    <3>. QED  BY <1>3, <1>5, <2>2, <3>1, <3>2, <3>3, Numbers
  <2>3. \A g \in Handlers : handlers'[g].pc = "deliver" /\ handlers'[g].content \in Emails =>
          contacts'[handlers'[g].request] >= now' + ReceiptRetention
    BY <1>1, <1>2, <1>3, <1>5, <2>1, ActiveRow DEF ServiceIInv, ContactInv, OnlyHandler, Active
  <2>. QED  BY <1>1, <2>2, <2>3 DEF ServiceIInv, ContactInv
<1>13. OwnInv'
  <2>1. \A q \in Requests : receipts'[q].state # "none" =>
              receipts[q].state # "none" /\ receipts'[q].content = receipts[q].content
    BY <1>1, <1>5, SweptRow
  <2>. QED  BY <1>1, <1>2, <2>1, OwnKept DEF OnlyHandler
<1>14. ReadyIsRouted' /\ LockInv'
  BY <1>1, <1>2 DEF ServiceIInv, ReadyIsRouted, LockInv, OnlyHandler
<1>. QED  BY <1>6, <1>7, <1>8, <1>10, <1>11, <1>12, <1>13, <1>14 DEF ServiceIInv

\* A handler reports how its own delivery ended, if nobody else settled the receipt.
LEMMA SettleKeeps ==
    ASSUME ServiceIInv, NEW h \in Handlers,
           MarkDelivered(h) \/ MarkFailed(h)
    PROVE  ServiceIInv'
<1>. DEFINE r == handlers[h].request
<1>1. /\ handlers[h].pc \in {"deliver", "failing"} /\ handlers[h].pc \in Active
      /\ UNCHANGED <<now, contacts, scans, items, late, draft, foreign, readiness, checking, categories>>
  BY DEF MarkDelivered, MarkFailed, Settle, cache, github, client, Active
<1>2. /\ r \in Requests /\ handlers[h].content \in Contents /\ now \in Nat
      /\ receipts[r].created = now /\ receipts[r].content = handlers[h].content
      /\ receipts[r].expires = now + ReceiptRetention
      /\ handlers[h].url \in Nat
  BY <1>1, ActiveRow DEF ServiceIInv, ServiceShapes, Handling
<1>3. /\ handlers[h].pc = "deliver" => handlers[h].url \in ItemsOfClaim(r)
      /\ handlers[h].pc = "failing" => ItemsOfClaim(r) = {}
      /\ \A w \in late : w.request # r
      /\ \A g \in Handlers \ {h} : handlers[g].pc \in Active => handlers[g].request # r
  BY <1>1 DEF ServiceIInv, ActiveInv
<1>4. /\ OnlyHandler(h) /\ handlers'[h].pc = "done"
      /\ handlers'[h].reply \in {"delivered", "failed", "error"}
      /\ handlers'[h].reply = "delivered" => handlers[h].pc = "deliver" /\ handlers'[h].url = handlers[h].url
  BY <1>2, RepliedShape DEF ServiceIInv, MarkDelivered, MarkFailed, Settle, OnlyHandler
<1>5. \A g \in Handlers : handlers'[g] = handlers[g] \/ handlers'[g].pc \notin Active
  BY <1>4 DEF OnlyHandler, Active
<1>6. /\ RowInv' /\ ItemInv' /\ NoDuplicate' /\ ActiveInv' /\ LateInv'
      /\ FreeHasNoItem' /\ ContactKept'
      /\ receipts' \in [Requests -> Row]
      /\ \A q \in Requests :
           /\ receipts'[q].content = receipts[q].content /\ receipts'[q].created = receipts[q].created
           /\ receipts'[q].expires = receipts[q].expires
           /\ (receipts'[q].state = "none") = (receipts[q].state = "none")
           /\ \/ receipts'[q].state = receipts[q].state
              \/ receipts'[q].state \in {"delivered", "failed"} /\ receipts[q].created = now
           /\ ItemsOfClaim(q)' = ItemsOfClaim(q)
           /\ receipts'[q].state = "delivered" =>
                /\ receipts'[q].url \in ItemsOfClaim(q)'
                /\ items'[receipts'[q].url].content = receipts'[q].content
  <2>1. CASE IsPending(r)
    <3> DEFINE s == IF handlers[h].pc = "deliver" THEN "delivered" ELSE "failed"
    <3>1. Transition(r, s, handlers[h].url, FALSE) /\ s \in {"delivered", "failed", "absent"} \ {"absent"}
      BY <1>1, <2>1 DEF MarkDelivered, MarkFailed, Settle
    <3>2. s = "delivered" => /\ handlers[h].url \in ItemsOfClaim(r)
                             /\ receipts[r].content \in Emails => contacts[r] >= receipts[r].expires
      BY <1>2, <1>3 DEF ServiceIInv, ContactInv
    <3>3. s # "delivered" => /\ ItemsOfClaim(r) = {} /\ \A w \in late : w.request # r
                             /\ \A g \in Handlers : handlers'[g].pc \in Active => handlers[g].request # r
      BY <1>1, <1>3, <1>4 DEF OnlyHandler, Active
    <3>4. FALSE \in BOOLEAN /\ handlers[h].url \in Nat /\ receipts[r].state = "pending"
      BY <1>2, <2>1 DEF IsPending
    <3> HIDE DEF s
    <3>5. /\ RowInv' /\ ItemInv' /\ NoDuplicate' /\ ActiveInv' /\ LateInv'
          /\ FreeHasNoItem' /\ ContactKept'
          /\ receipts' \in [Requests -> Row]
          /\ \A q \in Requests \ {r} : receipts'[q] = receipts[q]
          /\ receipts'[r].state = s /\ receipts'[r].content = receipts[r].content
          /\ receipts'[r].created = receipts[r].created /\ receipts'[r].expires = receipts[r].expires
          /\ \A q \in Requests : ItemsOfClaim(q)' = ItemsOfClaim(q)
          /\ \A q \in Requests : receipts'[q].state = "delivered" =>
               /\ receipts'[q].url \in ItemsOfClaim(q)'
               /\ items'[receipts'[q].url].content = receipts'[q].content
      BY <1>1, <1>2, <1>5, <2>1, <3>1, <3>2, <3>3, <3>4, SettledKeeps
    <3>. QED  BY <1>2, <3>1, <3>4, <3>5
  <2>2. CASE ~IsPending(r)
    <3>1. receipts' = receipts /\ UNCHANGED store
      BY <1>1, <2>2 DEF MarkDelivered, MarkFailed, Settle, store
    <3>2. LeftBehind /\ \A g \in Handlers : Moved(g)
      BY <1>1, <1>5 DEF LeftBehind, Moved
    <3>. QED  BY <1>1, <3>1, <3>2, StillKeeps DEF ServiceIInv, ServiceShapes, DeliveredNamesItem
  <2>. QED  BY <2>1, <2>2
<1>7. ServiceShapes'
  BY <1>1, <1>4, <1>6 DEF ServiceIInv, ServiceShapes, OnlyHandler
<1>8. HandlerInv'
  BY <1>2, <1>4 DEF ServiceIInv, HandlerInv, OnlyHandler
<1>9. ScanInv' /\ WaitInv'
  BY <1>1, <1>4, <1>6 DEF ServiceIInv, ScanInv, WaitInv, OnlyHandler
<1>10. DeliveredNamesItem'
  <2>1. handlers'[h].reply = "delivered" =>
          /\ handlers'[h].url \in DOMAIN items
          /\ items[handlers'[h].url].request = handlers'[h].request
          /\ items[handlers'[h].url].content = handlers'[h].content
    BY <1>2, <1>3, <1>4, <1>1, ActiveRow, ClaimOne DEF OnlyHandler
  <2>. QED  BY <1>1, <1>4, <1>6, <2>1 DEF ServiceIInv, DeliveredNamesItem, OnlyHandler
<1>11. ConflictIsForeign'
  BY <1>1, <1>4 DEF ServiceIInv, ConflictIsForeign, OnlyHandler
<1>12. ContactInv'
  BY <1>1, <1>4, <1>6 DEF ServiceIInv, ContactInv, OnlyHandler
<1>13. OwnInv'
  BY <1>1, <1>4, <1>6, OwnKept DEF OnlyHandler
<1>14. ReadyIsRouted' /\ LockInv'
  BY <1>1, <1>4 DEF ServiceIInv, ReadyIsRouted, LockInv, OnlyHandler
<1>. QED  BY <1>6, <1>7, <1>8, <1>9, <1>10, <1>11, <1>12, <1>13, <1>14 DEF ServiceIInv

\* GitHub creates the item of a claim that has none.
LEMMA LandedKeeps ==
    ASSUME ServiceIInv, NEW r \in Requests, receipts[r].state # "none", receipts[r].created = now,
           ItemsOfClaim(r) = {}, items' = Append(items, Item(r, receipts[r].content)),
           UNCHANGED <<now, store>>
    PROVE  /\ RowInv' /\ ItemInv' /\ NoDuplicate' /\ ContactKept'
           /\ receipts' = receipts /\ contacts' = contacts
           /\ items' \in Seq(Element) /\ Len(items) + 1 \in Nat \ {0}
           /\ ItemsOfClaim(r)' = {Len(items) + 1}
           /\ \A q \in Requests \ {r} : ItemsOfClaim(q)' = ItemsOfClaim(q)
           /\ \A n \in DOMAIN items : items'[n] = items[n]
           /\ DOMAIN items \subseteq DOMAIN items'
           /\ \A q \in Requests : receipts[q].state = "delivered" => q # r
           /\ \A q \in Requests : ItemsOfClaim(q) \subseteq DOMAIN items
<1>1. receipts' = receipts /\ contacts' = contacts
  BY DEF store
<1>2. /\ now \in Nat /\ receipts[r].content \in Contents
      /\ Item(r, receipts[r].content) \in Element
      /\ Item(r, receipts[r].content).request = r /\ Item(r, receipts[r].content).at = now
      /\ Item(r, receipts[r].content).content = receipts[r].content
  BY Numbers DEF ServiceIInv, ServiceShapes, RowInv, Item, Element
<1>3. /\ items' \in Seq(Element) /\ Len(items) + 1 \in Nat /\ Len(items) + 1 # 0
      /\ DOMAIN items' = DOMAIN items \union {Len(items) + 1}
      /\ Len(items) + 1 \notin DOMAIN items
      /\ \A n \in DOMAIN items : items'[n] = items[n] /\ n < Len(items) + 1
      /\ items'[Len(items) + 1] = Item(r, receipts[r].content)
  BY <1>2, AppendShape DEF ServiceIInv
<1>4. \A n \in DOMAIN items : n \in Nat /\ items[n].request \in Requests /\ items[n].at \in Nat
  BY ItemShape DEF ServiceIInv
<1>5. RowInv' /\ ContactKept'
  BY <1>1 DEF ServiceIInv, RowInv, ContactKept
<1>6. ItemInv'
  <2> SUFFICES ASSUME NEW n \in DOMAIN items'
               PROVE  LET row == receipts[items'[n].request]
                      IN  /\ items'[n].at <= now
                          /\ row.state = "none" => items'[n].at + ReceiptRetention <= now
                          /\ row.state # "none" =>
                               \/ items'[n].at + ReceiptRetention <= row.created
                               \/ items'[n].at = row.created /\ items'[n].content = row.content
    BY <1>1 DEF ItemInv
  <2>1. CASE n \in DOMAIN items
    BY <1>3, <2>1 DEF ServiceIInv, ItemInv
  <2>2. CASE n = Len(items) + 1
    BY <1>2, <1>3, <2>2
  <2>. QED  BY <1>3, <2>1, <2>2
<1>7. \A n \in DOMAIN items : items[n].request = r => items[n].at + ReceiptRetention <= now
  BY ClaimOne
<1>8. NoDuplicate'
  <2> SUFFICES ASSUME NEW n \in DOMAIN items', NEW m \in DOMAIN items',
                      n < m, items'[n].request = items'[m].request
               PROVE  items'[m].at - items'[n].at >= ReceiptRetention
    BY DEF NoDuplicate
  <2>1. n \in DOMAIN items
    BY <1>3, <1>4
  <2>2. CASE m \in DOMAIN items
    BY <1>3, <2>1, <2>2 DEF ServiceIInv, NoDuplicate
  <2>3. CASE m = Len(items) + 1
    BY <1>2, <1>3, <1>4, <1>7, <2>1, <2>3, Numbers
  <2>. QED  BY <1>3, <2>2, <2>3
<1>9. ItemsOfClaim(r)' = {Len(items) + 1}
  BY <1>1, <1>2, <1>3 DEF ItemsOfClaim
<1>10. \A q \in Requests \ {r} : ItemsOfClaim(q)' = ItemsOfClaim(q)
  BY <1>1, <1>2, <1>3 DEF ItemsOfClaim
<1>11. \A q \in Requests : receipts[q].state = "delivered" => q # r
  BY DEF ServiceIInv, DeliveredNamesItem
<1>12. \A q \in Requests : ItemsOfClaim(q) \subseteq DOMAIN items
  BY DEF ItemsOfClaim
<1>. QED  BY <1>1, <1>3, <1>5, <1>6, <1>8, <1>9, <1>10, <1>11, <1>12

LEMMA LandKeeps ==
    ASSUME ServiceIInv, NEW h \in Handlers, Land(h)
    PROVE  ServiceIInv'
<1>. DEFINE new == [handlers[h] EXCEPT !.landed = Len(items) + 1]
<1>0. PICK r \in Requests : r = handlers[h].request
  BY ActiveRow DEF Land, Active
<1>1. /\ handlers[h].pc = "post" /\ handlers[h].landed = 0 /\ handlers[h].pc \in Active
      /\ UNCHANGED <<now, store, scans, late, draft, foreign, readiness, checking, categories>>
  BY DEF Land, cache, client, Active
<1>2. /\ r \in Requests /\ receipts[r].state # "none" /\ receipts[r].created = now
      /\ receipts[r].content = handlers[h].content /\ ItemsOfClaim(r) = {}
      /\ \A w \in late : w.request # r
      /\ \A g \in Handlers \ {h} : handlers[g].pc \in Active => handlers[g].request # r
  BY <1>1, <1>0, ActiveRow DEF ServiceIInv, ActiveInv
<1>3. items' = Append(items, Item(r, receipts[r].content)) /\ UNCHANGED <<now, store>>
  BY <1>1, <1>2, <1>0 DEF Land
<1>4. /\ RowInv' /\ ItemInv' /\ NoDuplicate' /\ ContactKept'
      /\ receipts' = receipts /\ contacts' = contacts
      /\ items' \in Seq(Element) /\ Len(items) + 1 \in Nat \ {0}
      /\ ItemsOfClaim(r)' = {Len(items) + 1}
      /\ \A q \in Requests \ {r} : ItemsOfClaim(q)' = ItemsOfClaim(q)
      /\ \A n \in DOMAIN items : items'[n] = items[n]
      /\ DOMAIN items \subseteq DOMAIN items'
      /\ \A q \in Requests : receipts[q].state = "delivered" => q # r
      /\ \A q \in Requests : ItemsOfClaim(q) \subseteq DOMAIN items
  BY <1>1, <1>2, <1>3, LandedKeeps
<1>5. handlers \in [Handlers -> Handling] /\ handlers[h] \in Handling
  BY DEF ServiceIInv, ServiceShapes
<1>6. handlers' = [handlers EXCEPT ![h] = new]
  BY <1>5 DEF Land
<1>7. /\ new \in Handling /\ new.pc = "post" /\ new.landed = Len(items) + 1
      /\ new.request = r /\ new.content = handlers[h].content
      /\ new.reply = handlers[h].reply /\ new.url = handlers[h].url
  BY <1>1, <1>4, <1>5, <1>0 DEF Handling
<1>. HIDE DEF new
<1>8. /\ OnlyHandler(h) /\ handlers'[h].pc = "post" /\ handlers'[h].landed = Len(items) + 1
      /\ handlers'[h].reply = handlers[h].reply /\ handlers'[h].url = handlers[h].url
  BY <1>5, <1>6, <1>7, <1>0 DEF OnlyHandler
<1>9. ServiceShapes'
  BY <1>1, <1>4, <1>8 DEF ServiceIInv, ServiceShapes, OnlyHandler, Element
<1>10. HandlerInv'
  BY <1>1, <1>8 DEF ServiceIInv, HandlerInv, OnlyHandler
<1>11. ActiveInv'
  <2> SUFFICES ASSUME NEW g \in Handlers, handlers'[g].pc \in Active,
                      NEW q, q = handlers[g].request
               PROVE  /\ handlers'[g].request = q
                      /\ receipts'[q].state \in {"pending", "delivered"}
                      /\ receipts'[q].created = now' /\ receipts'[q].content = handlers'[g].content
                      /\ \A f \in Handlers \ {g} : handlers'[f].pc \in Active => handlers'[f].request # q
                      /\ \A w \in late' : w.request # q
                      /\ handlers'[g].pc \in {"ready", "failing"} => ItemsOfClaim(q)' = {}
                      /\ handlers'[g].pc = "post" =>
                           IF handlers'[g].landed = 0 THEN ItemsOfClaim(q)' = {}
                           ELSE handlers'[g].landed \in ItemsOfClaim(q)'
                      /\ handlers'[g].pc \in {"contact", "deliver"} => handlers'[g].url \in ItemsOfClaim(q)'
    BY DEF ActiveInv, Active, ItemsOfClaim
  <2>1. /\ handlers[g].pc \in Active /\ q \in Requests /\ handlers'[g].request = q
        /\ handlers'[g].content = handlers[g].content
        /\ receipts'[q].state \in {"pending", "delivered"}
        /\ receipts'[q].created = now' /\ receipts'[q].content = handlers'[g].content
    BY <1>1, <1>4, <1>8, ActiveRow DEF OnlyHandler
  <2>2. \A f \in Handlers \ {g} : handlers'[f].pc \in Active => handlers'[f].request # q
    BY <1>1, <1>8, <2>1 DEF ServiceIInv, ActiveInv, OnlyHandler
  <2>3. \A w \in late' : w.request # q
    BY <1>1, <2>1 DEF ServiceIInv, ActiveInv
  <2>4. CASE g = h
    BY <1>4, <1>8, <2>1, <2>2, <2>3, <2>4, <1>0
  <2>5. CASE g # h
    <3>1. handlers'[g] = handlers[g] /\ q # r /\ ItemsOfClaim(q)' = ItemsOfClaim(q)
      BY <1>2, <1>4, <1>8, <1>0, <2>1, <2>5 DEF OnlyHandler
    <3>. QED  BY <2>1, <2>2, <2>3, <3>1 DEF ServiceIInv, ActiveInv
  <2>. QED  BY <2>4, <2>5
<1>12. LateInv' /\ FreeHasNoItem'
  <2>1. LateInv'
    <3>1. \A w \in late : w.request \in Requests \ {r} /\ ItemsOfClaim(w.request)' = ItemsOfClaim(w.request)
      BY <1>1, <1>2, <1>4 DEF ServiceIInv, ServiceShapes
    <3>. QED  BY <1>1, <1>4, <3>1 DEF ServiceIInv, LateInv
  <2>2. FreeHasNoItem'
    <3>1. receipts[r].state \in {"pending", "delivered"}
      BY <1>1, ActiveRow, <1>0
    <3>. QED  BY <1>1, <1>4, <1>8, <3>1, <1>0 DEF ServiceIInv, FreeHasNoItem, OnlyHandler
  <2>. QED  BY <2>1, <2>2
<1>13. ScanInv' /\ WaitInv'
  BY <1>1, <1>2, <1>4, <1>8 DEF ServiceIInv, ScanInv, WaitInv, OnlyHandler
<1>14. DeliveredNamesItem' /\ ConflictIsForeign'
  <2>1. \A q \in Requests : receipts'[q].state = "delivered" =>
          /\ receipts[q].url \in DOMAIN items /\ ItemsOfClaim(q)' = ItemsOfClaim(q)
    BY <1>4 DEF ServiceIInv, DeliveredNamesItem
  <2>. QED  BY <1>1, <1>4, <1>8, <2>1 DEF ServiceIInv, HandlerInv, DeliveredNamesItem, ConflictIsForeign, OnlyHandler
<1>15. ContactInv'
  BY <1>1, <1>4, <1>8 DEF ServiceIInv, ContactInv, OnlyHandler
<1>16. OwnInv'
  BY <1>1, <1>4, <1>8, OwnKept DEF OnlyHandler
<1>17. ReadyIsRouted' /\ LockInv'
  BY <1>1, <1>8 DEF ServiceIInv, ReadyIsRouted, LockInv, OnlyHandler
<1>. QED  BY <1>4, <1>9, <1>10, <1>11, <1>12, <1>13, <1>14, <1>15, <1>16, <1>17 DEF ServiceIInv

LEMMA LandLateKeeps ==
    ASSUME ServiceIInv, NEW w \in late, LandLate(w)
    PROVE  ServiceIInv'
<1>1. /\ late' = late \ {w} /\ handlers' = handlers
      /\ UNCHANGED <<now, store, receipts, contacts, scans, draft, foreign, readiness, checking, categories>>
  BY DEF LandLate, cache, client, store
<1>2. /\ w.request \in Requests /\ receipts[w.request].state = "pending"
      /\ receipts[w.request].created = now /\ receipts[w.request].content = w.content
      /\ ItemsOfClaim(w.request) = {}
      /\ \A v \in late' : v.request # w.request
  BY <1>1 DEF ServiceIInv, LateInv, ServiceShapes
<1>3. HandlerInv' /\ ContactInv' /\ ReadyIsRouted' /\ LockInv' /\ WaitInv' /\ ConflictIsForeign'
  BY <1>1 DEF ServiceIInv, HandlerInv, ContactInv, ReadyIsRouted, LockInv, WaitInv, ConflictIsForeign
<1>4. OwnInv'
  BY <1>1, OwnKept
<1>5. CASE items' = items
  <2>1. LeftBehind /\ \A g \in Handlers : Moved(g)
    BY <1>1 DEF LeftBehind, Moved
  <2>2. /\ RowInv' /\ ItemInv' /\ NoDuplicate' /\ ActiveInv' /\ LateInv'
        /\ FreeHasNoItem' /\ ContactKept'
        /\ \A r \in Requests : ItemsOfClaim(r)' = ItemsOfClaim(r)
    BY <1>1, <1>5, <2>1, StillKeeps
  <2>3. ServiceShapes' /\ ScanInv' /\ DeliveredNamesItem'
    BY <1>1, <1>5, <2>2 DEF ServiceIInv, ServiceShapes, ScanInv, DeliveredNamesItem
  <2>. QED  BY <1>3, <1>4, <2>2, <2>3 DEF ServiceIInv
<1>6. CASE items' = Append(items, Item(w.request, w.content))
  <2>1. /\ RowInv' /\ ItemInv' /\ NoDuplicate' /\ ContactKept'
        /\ receipts' = receipts /\ contacts' = contacts
        /\ items' \in Seq(Element) /\ Len(items) + 1 \in Nat \ {0}
        /\ ItemsOfClaim(w.request)' = {Len(items) + 1}
        /\ \A q \in Requests \ {w.request} : ItemsOfClaim(q)' = ItemsOfClaim(q)
        /\ \A n \in DOMAIN items : items'[n] = items[n]
        /\ DOMAIN items \subseteq DOMAIN items'
        /\ \A q \in Requests : receipts[q].state = "delivered" => q # w.request
        /\ \A q \in Requests : ItemsOfClaim(q) \subseteq DOMAIN items
    BY <1>1, <1>2, <1>6, LandedKeeps
  <2>2. ServiceShapes'
    BY <1>1, <2>1 DEF ServiceIInv, ServiceShapes, Element
  <2>3. ActiveInv'
    <3> SUFFICES ASSUME NEW h \in Handlers, handlers[h].pc \in Active,
                        NEW q, q = handlers[h].request
                 PROVE  /\ receipts[q].state \in {"pending", "delivered"}
                        /\ receipts[q].created = now /\ receipts[q].content = handlers[h].content
                        /\ \A g \in Handlers \ {h} : handlers[g].pc \in Active => handlers[g].request # q
                        /\ \A v \in late' : v.request # q
                        /\ handlers[h].pc \in {"ready", "failing"} => ItemsOfClaim(q)' = {}
                        /\ handlers[h].pc = "post" =>
                             IF handlers[h].landed = 0 THEN ItemsOfClaim(q)' = {}
                             ELSE handlers[h].landed \in ItemsOfClaim(q)'
                        /\ handlers[h].pc \in {"contact", "deliver"} => handlers[h].url \in ItemsOfClaim(q)'
      BY <1>1 DEF ActiveInv, Active, ItemsOfClaim
    <3>1. q \in Requests /\ q # w.request
      BY ActiveRow DEF ServiceIInv, ActiveInv
    <3>. QED  BY <1>1, <2>1, <3>1 DEF ServiceIInv, ActiveInv
  <2>4. LateInv' /\ FreeHasNoItem'
    <3>1. LateInv'
      BY <1>1, <1>2, <2>1 DEF ServiceIInv, LateInv, ServiceShapes
    <3>. QED  BY <1>1, <1>2, <2>1, <3>1 DEF ServiceIInv, FreeHasNoItem
  <2>5. ScanInv'
    BY <1>1, <1>2, <2>1 DEF ServiceIInv, ScanInv
  <2>6. DeliveredNamesItem'
    <3>1. \A q \in Requests : receipts'[q].state = "delivered" =>
            /\ receipts[q].url \in DOMAIN items /\ ItemsOfClaim(q)' = ItemsOfClaim(q)
      BY <2>1 DEF ServiceIInv, DeliveredNamesItem
    <3>. QED  BY <1>1, <2>1, <3>1 DEF ServiceIInv, DeliveredNamesItem
  <2>. QED  BY <1>3, <1>4, <2>1, <2>2, <2>3, <2>4, <2>5, <2>6 DEF ServiceIInv
<1>. QED  BY <1>5, <1>6 DEF LandLate

-----------------------------------------------------------------------------
(* Admission.                                                              *)

\* A transaction that deletes what is past its time, and takes up no report.
Sweeps == receipts' = LiveReceipts /\ contacts' = LiveContacts /\ UNCHANGED <<now, items>>

LEMMA SweepShape ==
    ASSUME ServiceIInv, Sweeps
    PROVE  /\ Swept /\ contacts' \in [Requests -> Nat]
           /\ \A r \in Requests :
                 \/ contacts'[r] >= contacts[r] \/ contacts'[r] >= now + ReceiptRetention
                 \/ contacts[r] <= now /\ (receipts'[r].state # "none" => receipts'[r].expires > now)
           /\ \A r \in Requests : receipts'[r].state # "none" => receipts'[r].expires > now
           /\ \A q \in Requests : (scans[q].pc # "none" \/ receipts'[q].state # "none") =>
                receipts'[q] = receipts[q] /\ ItemsOfClaim(q)' = ItemsOfClaim(q)
           /\ \A q \in Requests : receipts'[q].state # "none" =>
                receipts[q].state # "none" /\ receipts'[q].content = receipts[q].content
           /\ \A q \in Requests :
                contacts[q] >= now + ReceiptRetention \/ contacts[q] > now => contacts'[q] = contacts[q]
<1>1. /\ contacts \in [Requests -> Nat] /\ contacts' \in [Requests -> Nat]
      /\ receipts' \in [Requests -> Row] /\ now \in Nat
  BY LiveShape, Numbers DEF ServiceIInv, ServiceShapes, Sweeps
<1>2. \A r \in Requests : contacts'[r] = contacts[r] \/ contacts[r] <= now
  BY LiveShape DEF Sweeps
<1>3. Swept /\ \A r \in Requests : receipts'[r].state # "none" => receipts'[r].expires > now
  BY LiveShape DEF Swept, Sweeps
<1>4. \A q \in Requests : (scans[q].pc # "none" \/ receipts'[q].state # "none") =>
        receipts'[q] = receipts[q] /\ ItemsOfClaim(q)' = ItemsOfClaim(q)
  BY <1>3, SweptRow DEF ServiceIInv, ScanInv, Sweeps
<1>5. \A q \in Requests :
        contacts[q] >= now + ReceiptRetention \/ contacts[q] > now => contacts'[q] = contacts[q]
  BY <1>1, <1>2, Numbers
<1>6. \A r \in Requests :
         \/ contacts'[r] >= contacts[r] \/ contacts'[r] >= now + ReceiptRetention
         \/ contacts[r] <= now /\ (receipts'[r].state # "none" => receipts'[r].expires > now)
  BY <1>1, <1>2, <1>3
<1>. QED  BY <1>1, <1>3, <1>4, <1>5, <1>6

\* The contacts after it, when nobody comes to the delivery.
LEMMA SweepContacts ==
    ASSUME ServiceIInv, Sweeps,
           \A g \in Handlers : handlers'[g].pc = "deliver" => handlers'[g] = handlers[g],
           \A q \in Requests : scans'[q].pc = "deliver" => scans'[q] = scans[q]
    PROVE  ContactInv'
<1>1. now \in Nat /\ now' = now /\ \A q \in Requests : contacts[q] \in Nat /\ receipts[q].expires \in Nat
  BY Numbers DEF ServiceIInv, ServiceShapes, Row, Sweeps
<1>2. ASSUME NEW g \in Handlers, handlers'[g].pc = "deliver", handlers'[g].content \in Emails
      PROVE  contacts'[handlers'[g].request] >= now' + ReceiptRetention
  <2>1. handlers'[g] = handlers[g] /\ handlers[g].request \in Requests
    BY <1>2 DEF ServiceIInv, HandlerInv
  <2>2. contacts[handlers[g].request] >= now + ReceiptRetention
    BY <1>2, <2>1 DEF ServiceIInv, ContactInv
  <2>. QED  BY <1>1, <2>1, <2>2, SweepShape
<1>3. ASSUME NEW q \in Requests, scans'[q].pc = "deliver", scans'[q].content \in Emails
      PROVE  contacts'[q] >= receipts'[q].expires
  <2>1. /\ scans'[q] = scans[q] /\ receipts'[q] = receipts[q] /\ receipts[q].expires > now
        /\ contacts[q] >= receipts[q].expires
    BY <1>3, SweepShape DEF ServiceIInv, ScanInv, ContactInv
  <2>. QED  BY <1>1, <2>1, SweepShape
<1>. QED  BY <1>2, <1>3 DEF ContactInv

\* A handler that is answered, or joins a scan, while what is past its time goes.
LEMMA AnsweredKeeps ==
    ASSUME ServiceIInv, NEW h \in Handlers, OnlyHandler(h),
           handlers[h].pc = "sent", handlers'[h].pc \in {"done", "waiting"},
           handlers'[h].pc = "waiting" => handlers'[h].reply = "none",
           handlers'[h].reply \in {"none", "conflict", "throttled", "delivered"},
           Sweeps, UNCHANGED <<late, draft, foreign, readiness, checking, categories>>,
           scans' \in [Requests -> Scan], WaitInv', ConflictIsForeign',
           handlers'[h].reply = "delivered" =>
             /\ LiveReceipts[handlers[h].request].state = "delivered"
             /\ LiveReceipts[handlers[h].request].url = handlers'[h].url
             /\ LiveReceipts[handlers[h].request].content = handlers[h].content,
           \A q \in Requests :
              \/ scans'[q] = scans[q]
              \/ /\ q = handlers[h].request /\ scans'[q].pc = "list"
                 /\ LiveReceipts[q].state = "pending" /\ LiveReceipts[q].created = scans'[q].created
                 /\ LiveReceipts[q].content = scans'[q].content
    PROVE  ServiceIInv'
<1>1. handlers[h].request \in Requests /\ handlers[h].content \in Contents
  BY DEF ServiceIInv, HandlerInv
<1>2. UNCHANGED <<now, items>> /\ receipts' = LiveReceipts
  BY DEF Sweeps
<1>3. LeftBehind /\ \A g \in Handlers : Moved(g)
  BY DEF LeftBehind, Moved, OnlyHandler, Active
<1>4. /\ RowInv' /\ ItemInv' /\ NoDuplicate' /\ ActiveInv' /\ LateInv'
      /\ FreeHasNoItem' /\ ContactKept'
  BY <1>2, <1>3, SweepShape, CalmKeeps
<1>5. ServiceShapes'
  BY <1>2, SweepShape DEF ServiceIInv, ServiceShapes, OnlyHandler, Swept
<1>6. HandlerInv'
  BY <1>1 DEF ServiceIInv, HandlerInv, OnlyHandler
<1>7. \A q \in Requests : (scans[q].pc # "none" \/ receipts'[q].state # "none") =>
        receipts'[q] = receipts[q] /\ ItemsOfClaim(q)' = ItemsOfClaim(q)
  BY SweepShape
<1>8. ScanInv'
  <2> SUFFICES ASSUME NEW q \in Requests
               PROVE  IF scans'[q].pc = "none" THEN scans'[q] = NoScan
                      ELSE /\ receipts'[q].state \in {"pending", "delivered", "failed"}
                           /\ receipts'[q].state = "failed" => receipts'[q].created = now
                           /\ receipts'[q].expires > now
                           /\ receipts'[q].created = scans'[q].created /\ receipts'[q].content = scans'[q].content
                           /\ scans'[q].pc \in {"contact", "deliver"} => scans'[q].url \in ItemsOfClaim(q)'
    BY <1>2 DEF ScanInv
  <2>1. CASE scans'[q] = scans[q]
    BY <1>2, <1>7, <2>1 DEF ServiceIInv, ScanInv
  <2>2. CASE scans'[q] # scans[q]
    BY <1>2, <2>2, SweepShape
  <2>. QED  BY <2>1, <2>2
<1>9. DeliveredNamesItem'
  <2>1. \A q \in Requests : receipts'[q].state = "delivered" =>
          receipts'[q] = receipts[q] /\ ItemsOfClaim(q)' = ItemsOfClaim(q)
    BY <1>7
  <2>2. handlers'[h].reply = "delivered" =>
          /\ handlers'[h].url \in DOMAIN items
          /\ items[handlers'[h].url].request = handlers'[h].request
          /\ items[handlers'[h].url].content = handlers'[h].content
    BY <1>1, <1>2, <2>1, ClaimOne DEF ServiceIInv, DeliveredNamesItem, OnlyHandler
  <2>. QED  BY <1>2, <2>1, <2>2 DEF ServiceIInv, DeliveredNamesItem, OnlyHandler
<1>10. ContactInv'
  <2>1. \A g \in Handlers : handlers'[g].pc = "deliver" => handlers'[g] = handlers[g]
    BY DEF OnlyHandler
  <2>2. \A q \in Requests : scans'[q].pc = "deliver" => scans'[q] = scans[q]
    OBVIOUS
  <2>. QED  BY <2>1, <2>2, SweepContacts
<1>11. OwnInv'
  BY SweepShape, OwnKept DEF OnlyHandler
<1>12. ReadyIsRouted' /\ LockInv'
  BY DEF ServiceIInv, ReadyIsRouted, LockInv, OnlyHandler
<1>. QED  BY <1>4, <1>5, <1>6, <1>8, <1>9, <1>10, <1>11, <1>12 DEF ServiceIInv


\* A row that a transaction keeps.
LEMMA LiveRow ==
    ASSUME ServiceIInv, NEW q \in Requests
    PROVE  /\ LiveReceipts[q] = NoRow \/ LiveReceipts[q] = receipts[q]
           /\ LiveReceipts[q].state # "none" =>
                LiveReceipts[q] = receipts[q] /\ receipts[q].state # "none" /\ receipts[q].expires > now
           /\ receipts[q].state # "none" /\ receipts[q].created = now => LiveReceipts[q] = receipts[q]
           /\ receipts[q].state # "none" /\ receipts[q].expires > now => LiveReceipts[q] = receipts[q]
           /\ LiveReceipts[q] # receipts[q] =>
                LiveReceipts[q] = NoRow /\ receipts[q].state # "none" /\ receipts[q].created + ReceiptRetention <= now
           /\ receipts[q].created \in Nat /\ receipts[q].expires \in Nat /\ now \in Nat
           /\ receipts[q].state # "none" => receipts[q].created <= now
<1>1. now \in Nat /\ receipts[q] \in Row
  BY Numbers DEF ServiceIInv, ServiceShapes
<1>2. receipts[q].created \in Nat /\ receipts[q].expires \in Nat
  BY <1>1 DEF Row
<1>3. receipts[q].state # "none" => /\ receipts[q].created <= now
                                    /\ receipts[q].expires = receipts[q].created + ReceiptRetention
  BY DEF ServiceIInv, RowInv
<1>4. \/ LiveReceipts[q] = receipts[q] /\ (receipts[q].state # "none" => receipts[q].expires > now)
      \/ /\ LiveReceipts[q] = NoRow /\ receipts[q].state # "none"
         /\ receipts[q].created + ReceiptRetention <= now
  BY LiveShape
<1>5. NoRow.state = "none"
  BY DEF NoRow
<1>. QED  BY <1>1, <1>2, <1>3, <1>4, <1>5, Numbers

\* The old items of a request that may be claimed now are older than the receipts are kept.
LEMMA FreshClaim ==
    ASSUME ServiceIInv, NEW r \in Requests, LiveReceipts[r].state \in {"none", "failed", "absent"}
    PROVE  /\ \A n \in DOMAIN items : items[n].request = r => items[n].at + ReceiptRetention <= now
           /\ \A g \in Handlers : handlers[g].pc \in Active => handlers[g].request # r
           /\ \A w \in late : w.request # r
           /\ scans[r].pc # "none" =>
                /\ receipts[r] = LiveReceipts[r] /\ receipts[r].state = "failed"
                /\ receipts[r].created = now /\ scans[r].pc = "list"
                /\ scans[r].created = now /\ scans[r].content = receipts[r].content
<1>1. /\ now \in Nat /\ receipts[r].created \in Nat
      /\ \A n \in DOMAIN items : items[n].at \in Nat
  BY LiveRow, ItemShape DEF ServiceIInv
<1>2. ASSUME NEW n \in DOMAIN items, items[n].request = r
      PROVE  items[n].at + ReceiptRetention <= now
  <2>1. CASE receipts[r].state = "none"
    BY <1>2, <2>1 DEF ServiceIInv, ItemInv
  <2>2. CASE receipts[r].state # "none" /\ LiveReceipts[r] # receipts[r]
    <3>1. receipts[r].created + ReceiptRetention <= now /\ items[n].at <= receipts[r].created
      BY <1>1, <1>2, <2>2, LiveRow, Numbers DEF ServiceIInv, ItemInv
    <3>. QED  BY <1>1, <3>1, Numbers
  <2>3. CASE receipts[r].state # "none" /\ LiveReceipts[r] = receipts[r]
    <3>1. ItemsOfClaim(r) = {} /\ receipts[r].created <= now
      BY <2>3, LiveRow DEF ServiceIInv, FreeHasNoItem
    <3>2. items[n].at + ReceiptRetention <= receipts[r].created
      BY <1>2, <2>3, <3>1, ClaimOne
    <3>. QED  BY <1>1, <3>1, <3>2, Numbers
  <2>. QED  BY <2>1, <2>2, <2>3
<1>3. ASSUME NEW g \in Handlers, handlers[g].pc \in Active PROVE handlers[g].request # r
  BY <1>3, ActiveRow, LiveRow
<1>4. ASSUME NEW w \in late PROVE w.request # r
  BY <1>4, LiveRow DEF ServiceIInv, LateInv, ServiceShapes
<1>5. scans[r].pc # "none" =>
                /\ receipts[r] = LiveReceipts[r] /\ receipts[r].state = "failed"
                /\ receipts[r].created = now /\ scans[r].pc = "list"
                /\ scans[r].created = now /\ scans[r].content = receipts[r].content
  <2> SUFFICES ASSUME scans[r].pc # "none"
               PROVE  /\ receipts[r] = LiveReceipts[r] /\ receipts[r].state = "failed"
                      /\ receipts[r].created = now /\ scans[r].pc = "list"
                      /\ scans[r].created = now /\ scans[r].content = receipts[r].content
    OBVIOUS
  <2>1. /\ receipts[r].state \in {"pending", "delivered", "failed"}
        /\ receipts[r].state = "failed" => receipts[r].created = now
        /\ receipts[r].expires > now
        /\ receipts[r].created = scans[r].created /\ receipts[r].content = scans[r].content
        /\ scans[r].pc \in {"contact", "deliver"} => scans[r].url \in ItemsOfClaim(r)
    BY DEF ServiceIInv, ScanInv
  <2>2. receipts[r] = LiveReceipts[r] /\ receipts[r].state = "failed"
    BY <2>1, LiveRow
  <2>3. ItemsOfClaim(r) = {} /\ scans[r].pc \in {"list", "contact", "deliver"}
    BY <2>2 DEF ServiceIInv, FreeHasNoItem, ServiceShapes, Scan
  <2>. QED  BY <2>1, <2>2, <2>3
<1>. QED  BY <1>2, <1>3, <1>4, <1>5

\* A report is taken up: its request gets a pending receipt of this moment.
LEMMA TakenUpKeeps ==
    ASSUME ServiceIInv, NEW h \in Handlers, OnlyHandler(h), NEW r, r = handlers[h].request,
           handlers[h].pc = "sent", handlers'[h].pc = "ready",
           handlers'[h].reply = handlers[h].reply, handlers'[h].landed = handlers[h].landed,
           LiveReceipts[r].state \in {"none", "failed", "absent"},
           LiveReceipts[r].state # "none" => LiveReceipts[r].content = handlers[h].content,
           receipts' = [LiveReceipts EXCEPT ![r] = Pending(handlers[h].content)],
           contacts' = LiveContacts,
           UNCHANGED <<now, items, late, scans, draft, foreign, readiness, checking, categories>>
    PROVE  ServiceIInv'
<1>. DEFINE new == Pending(handlers[h].content)
<1>1. r \in Requests /\ handlers[h].content \in Contents /\ now \in Nat /\ handlers[h].landed = 0
      /\ handlers[h].reply = "none"
  BY Numbers DEF ServiceIInv, HandlerInv, ServiceShapes
<1>2. /\ new \in Row /\ new.state = "pending" /\ new.content = handlers[h].content
      /\ new.created = now /\ new.expires = now + ReceiptRetention
  BY <1>1, Numbers DEF Pending, Row
<1>. HIDE DEF new
<1>3. /\ receipts' \in [Requests -> Row] /\ receipts'[r] = new
      /\ \A q \in Requests \ {r} : receipts'[q] = LiveReceipts[q]
  BY <1>1, <1>2, LiveShape DEF new
<1>4. /\ \A n \in DOMAIN items : items[n].request = r => items[n].at + ReceiptRetention <= now
      /\ \A g \in Handlers : handlers[g].pc \in Active => handlers[g].request # r
      /\ \A w \in late : w.request # r
      /\ scans[r].pc # "none" =>
                /\ receipts[r] = LiveReceipts[r] /\ receipts[r].state = "failed"
                /\ receipts[r].created = now /\ scans[r].pc = "list"
                /\ scans[r].created = now /\ scans[r].content = receipts[r].content
  BY <1>1, FreshClaim
<1>5. \A n \in DOMAIN items : items[n].at \in Nat /\ items[n].request \in Requests
  BY ItemShape DEF ServiceIInv
<1>6. ItemsOfClaim(r)' = {}
  BY <1>1, <1>2, <1>3, <1>4, <1>5, Numbers DEF ItemsOfClaim
<1>7. ASSUME NEW q \in Requests \ {r}
      PROVE  /\ receipts'[q].state # "none" \/ scans[q].pc # "none" =>
                  receipts'[q] = receipts[q] /\ ItemsOfClaim(q)' = ItemsOfClaim(q)
             /\ receipts[q].state # "none" /\ receipts[q].created = now =>
                  receipts'[q] = receipts[q] /\ ItemsOfClaim(q)' = ItemsOfClaim(q)
             /\ receipts'[q].state # "none" =>
                  receipts[q].state # "none" /\ receipts[q].expires > now
  <2>1. receipts'[q] = LiveReceipts[q]
    BY <1>3
  <2>2. scans[q].pc # "none" => receipts[q].state # "none" /\ receipts[q].expires > now
    BY DEF ServiceIInv, ScanInv
  <2>3. receipts'[q] = receipts[q] => ItemsOfClaim(q)' = ItemsOfClaim(q)
    BY DEF ItemsOfClaim
  <2>. QED  BY <2>1, <2>2, <2>3, LiveRow
<1>8. ServiceShapes'
  <2>1. contacts' \in [Requests -> Nat]
    BY LiveShape
  <2>. QED  BY <1>3, <2>1 DEF ServiceIInv, ServiceShapes, OnlyHandler
<1>9. HandlerInv'
  BY <1>1 DEF ServiceIInv, HandlerInv, OnlyHandler
<1>10. RowInv'
  <2> SUFFICES ASSUME NEW q \in Requests
               PROVE  IF receipts'[q].state = "none" THEN receipts'[q] = NoRow
                      ELSE /\ receipts'[q].content \in Contents /\ receipts'[q].created <= now
                           /\ receipts'[q].expires = receipts'[q].created + ReceiptRetention
    BY DEF RowInv
  <2>1. CASE q = r
    BY <1>1, <1>2, <1>3, <2>1
  <2>2. CASE q # r
    BY <1>3, <2>2, LiveRow DEF ServiceIInv, RowInv, NoRow
  <2>. QED  BY <2>1, <2>2
<1>11. ItemInv'
  <2> SUFFICES ASSUME NEW n \in DOMAIN items, NEW q \in Requests, q = items[n].request
               PROVE  /\ items[n].at <= now
                      /\ receipts'[q].state = "none" => items[n].at + ReceiptRetention <= now
                      /\ receipts'[q].state # "none" =>
                           \/ items[n].at + ReceiptRetention <= receipts'[q].created
                           \/ items[n].at = receipts'[q].created /\ items[n].content = receipts'[q].content
    BY <1>5 DEF ItemInv
  <2>1. /\ items[n].at <= now
        /\ receipts[q].state = "none" => items[n].at + ReceiptRetention <= now
        /\ receipts[q].state # "none" =>
             \/ items[n].at + ReceiptRetention <= receipts[q].created
             \/ items[n].at = receipts[q].created /\ items[n].content = receipts[q].content
    BY DEF ServiceIInv, ItemInv
  <2>2. CASE q = r
    <3>1. items[n].at + ReceiptRetention <= now /\ receipts'[q].state # "none" /\ receipts'[q].created = now
      BY <1>2, <1>3, <1>4, <2>2
    <3>. QED  BY <2>1, <3>1
  <2>3. CASE q # r /\ receipts'[q] = receipts[q]
    BY <2>1, <2>3
  <2>4. CASE q # r /\ receipts'[q] # receipts[q]
    <3>1. /\ receipts'[q].state = "none" /\ receipts[q].state # "none"
          /\ receipts[q].created + ReceiptRetention <= now /\ receipts[q].created \in Nat
      BY <1>3, <2>4, LiveRow DEF NoRow
    <3>. QED  BY <1>1, <1>5, <2>1, <3>1, Numbers
  <2>. QED  BY <2>2, <2>3, <2>4
<1>12. NoDuplicate' /\ ReadyIsRouted' /\ LockInv' /\ WaitInv' /\ ConflictIsForeign'
  BY <1>1 DEF ServiceIInv, NoDuplicate, ReadyIsRouted, LockInv, WaitInv, ConflictIsForeign, OnlyHandler
<1>13. ActiveInv'
  <2> SUFFICES ASSUME NEW g \in Handlers, handlers'[g].pc \in Active,
                      NEW q, q = handlers[g].request
               PROVE  /\ handlers'[g].request = q
                      /\ receipts'[q].state \in {"pending", "delivered"}
                      /\ receipts'[q].created = now /\ receipts'[q].content = handlers'[g].content
                      /\ \A f \in Handlers \ {g} : handlers'[f].pc \in Active => handlers'[f].request # q
                      /\ \A w \in late : w.request # q
                      /\ handlers'[g].pc \in {"ready", "failing"} => ItemsOfClaim(q)' = {}
                      /\ handlers'[g].pc = "post" =>
                           IF handlers'[g].landed = 0 THEN ItemsOfClaim(q)' = {}
                           ELSE handlers'[g].landed \in ItemsOfClaim(q)'
                      /\ handlers'[g].pc \in {"contact", "deliver"} => handlers'[g].url \in ItemsOfClaim(q)'
    BY DEF ActiveInv, Active, ItemsOfClaim
  <2>1. CASE g = h
    BY <1>2, <1>3, <1>4, <1>6, <2>1 DEF OnlyHandler, Active
  <2>2. CASE g # h
    <3>1. handlers'[g] = handlers[g] /\ handlers[g].pc \in Active /\ q \in Requests /\ q # r
      BY <1>4, <2>2, ActiveRow DEF OnlyHandler
    <3>2. receipts'[q] = receipts[q] /\ ItemsOfClaim(q)' = ItemsOfClaim(q)
      BY <1>7, <3>1, ActiveRow
    <3>3. \A f \in Handlers \ {g} : handlers'[f].pc \in Active => handlers'[f].request # q
      BY <3>1 DEF ServiceIInv, ActiveInv, OnlyHandler
    <3>4. /\ receipts[q].state \in {"pending", "delivered"}
          /\ receipts[q].created = now /\ receipts[q].content = handlers[g].content
          /\ \A w \in late : w.request # q
      BY <3>1 DEF ServiceIInv, ActiveInv
    <3>5. /\ handlers[g].pc \in {"ready", "failing"} => ItemsOfClaim(q) = {}
          /\ handlers[g].pc = "post" =>
               IF handlers[g].landed = 0 THEN ItemsOfClaim(q) = {}
               ELSE handlers[g].landed \in ItemsOfClaim(q)
          /\ handlers[g].pc \in {"contact", "deliver"} => handlers[g].url \in ItemsOfClaim(q)
      BY <3>1 DEF ServiceIInv, ActiveInv
    <3>. QED  BY <3>1, <3>2, <3>3, <3>4, <3>5
  <2>. QED  BY <2>1, <2>2
<1>14. \A w \in late : /\ w.request \in Requests \ {r}
                       /\ receipts'[w.request] = receipts[w.request]
                       /\ ItemsOfClaim(w.request)' = ItemsOfClaim(w.request)
  BY <1>4, <1>7 DEF ServiceIInv, LateInv, ServiceShapes
<1>15. LateInv'
  BY <1>14 DEF ServiceIInv, LateInv
<1>16. ScanInv'
  <2> SUFFICES ASSUME NEW q \in Requests
               PROVE  IF scans[q].pc = "none" THEN scans[q] = NoScan
                      ELSE /\ receipts'[q].state \in {"pending", "delivered", "failed"}
                           /\ receipts'[q].state = "failed" => receipts'[q].created = now
                           /\ receipts'[q].expires > now
                           /\ receipts'[q].created = scans[q].created /\ receipts'[q].content = scans[q].content
                           /\ scans[q].pc \in {"contact", "deliver"} => scans[q].url \in ItemsOfClaim(q)'
    BY DEF ScanInv
  <2>1. CASE q = r
    BY <1>1, <1>2, <1>3, <1>4, <2>1, Numbers DEF ServiceIInv, ScanInv
  <2>2. CASE q # r
    BY <1>7, <2>2 DEF ServiceIInv, ScanInv
  <2>. QED  BY <2>1, <2>2
<1>17. FreeHasNoItem'
  <2> SUFFICES ASSUME NEW q \in Requests, receipts'[q].state \in {"failed", "absent"}
               PROVE  /\ ItemsOfClaim(q)' = {}
                      /\ \A w \in late : w.request # q
                      /\ \A g \in Handlers : ~(handlers'[g].request = q /\ handlers'[g].pc = "post")
    BY DEF FreeHasNoItem
  <2>1. q # r /\ receipts'[q] = receipts[q] /\ ItemsOfClaim(q)' = ItemsOfClaim(q)
    BY <1>2, <1>3, <1>7
  <2>. QED  BY <2>1 DEF ServiceIInv, FreeHasNoItem, OnlyHandler
<1>18. DeliveredNamesItem'
  <2>1. \A q \in Requests : receipts'[q].state = "delivered" =>
          q # r /\ receipts'[q] = receipts[q] /\ ItemsOfClaim(q)' = ItemsOfClaim(q)
    BY <1>2, <1>3, <1>7
  <2>. QED  BY <1>1, <2>1 DEF ServiceIInv, DeliveredNamesItem, OnlyHandler
<1>19. \A q \in Requests : /\ contacts[q] \in Nat /\ contacts'[q] \in Nat
                           /\ contacts'[q] = contacts[q] \/ contacts[q] <= now
  BY LiveShape DEF ServiceIInv, ServiceShapes
<1>20. ContactKept'
  <2> SUFFICES ASSUME NEW q \in Requests, receipts'[q].state = "delivered",
                      ~receipts'[q].audit, receipts'[q].content \in Emails
               PROVE  contacts'[q] >= receipts'[q].expires
    BY DEF ContactKept
  <2>1. receipts'[q] = receipts[q] /\ receipts[q].expires > now
    BY <1>2, <1>3, <1>7
  <2>2. contacts[q] >= receipts[q].expires /\ receipts[q].expires \in Nat
    BY <2>1, LiveRow DEF ServiceIInv, ContactKept
  <2>. QED  BY <1>1, <1>19, <2>1, <2>2
<1>21. ContactInv'
  <2>1. ASSUME NEW g \in Handlers, handlers'[g].pc = "deliver", handlers'[g].content \in Emails
        PROVE  contacts'[handlers'[g].request] >= now + ReceiptRetention
    <3>1. handlers'[g] = handlers[g] /\ handlers[g].request \in Requests
      BY <2>1 DEF ServiceIInv, HandlerInv, OnlyHandler
    <3>2. contacts[handlers[g].request] >= now + ReceiptRetention
      BY <2>1, <3>1 DEF ServiceIInv, ContactInv
    <3>3. \A q \in Requests : contacts[q] >= now + ReceiptRetention => contacts'[q] = contacts[q]
      BY <1>1, <1>19, Numbers
    <3>. QED  BY <3>1, <3>2, <3>3
  <2>2. ASSUME NEW q \in Requests, scans[q].pc = "deliver", scans[q].content \in Emails
        PROVE  contacts'[q] >= receipts'[q].expires
    <3>1. q # r /\ receipts'[q] = receipts[q] /\ receipts[q].expires > now
      BY <1>4, <1>7, <2>2 DEF ServiceIInv, ScanInv
    <3>2. contacts[q] >= receipts[q].expires /\ receipts[q].expires \in Nat
      BY <2>2, LiveRow DEF ServiceIInv, ContactInv
    <3>. QED  BY <1>1, <1>19, <3>1, <3>2
  <2>. QED  BY <2>1, <2>2 DEF ContactInv
<1>22. OwnInv'
  <2>1. ASSUME NEW q \in Requests \ foreign, receipts'[q].state # "none"
        PROVE  q <= draft.request /\ (q = draft.request => receipts'[q].content = draft.content)
    BY <1>2, <1>3, <1>7, <2>1 DEF ServiceIInv, OwnInv
  <2>2. ASSUME NEW g \in Handlers, handlers'[g].pc = "sent", handlers'[g].request \notin foreign,
               NEW q \in Requests, q = handlers'[g].request
        PROVE  /\ q = draft.request => handlers'[g].content = draft.content
               /\ receipts'[q].state # "none" => receipts'[q].content = handlers'[g].content
               /\ \A f \in Handlers : handlers'[f].pc = "sent" /\ handlers'[f].request = q
                                         => handlers'[f].content = handlers'[g].content
    <3>1. g # h /\ handlers'[g] = handlers[g]
      BY <2>2 DEF OnlyHandler
    <3>2. \A f \in Handlers : handlers[f].pc = "sent" /\ handlers[f].request = q
                                         => handlers[f].content = handlers[g].content
      BY <2>2, <3>1 DEF ServiceIInv, OwnInv
    <3>3. q = r => receipts'[q].content = handlers'[g].content
      BY <1>2, <1>3, <3>1, <3>2
    <3>4. q # r /\ receipts'[q].state # "none" => receipts'[q] = receipts[q]
      BY <1>7
    <3>. QED  BY <2>2, <3>1, <3>2, <3>3, <3>4 DEF ServiceIInv, OwnInv, OnlyHandler
  <2>3. \A g \in Handlers : handlers'[g].pc = "sent" =>
          handlers'[g].request <= draft.request /\ handlers'[g].request \in Requests
    BY DEF ServiceIInv, OwnInv, HandlerInv, OnlyHandler
  <2>4. \A q \in foreign : q <= draft.request
    BY DEF ServiceIInv, OwnInv
  <2>. QED  BY <2>1, <2>2, <2>3, <2>4 DEF OwnInv
<1>. QED  BY <1>8, <1>9, <1>10, <1>11, <1>12, <1>13, <1>15, <1>16, <1>17, <1>18, <1>20, <1>21, <1>22 DEF ServiceIInv

LEMMA AdmitKeeps ==
    ASSUME ServiceIInv, NEW h \in Handlers, AdmitFeedbackDelivery(h)
    PROVE  ServiceIInv'
<1>1. PICK r \in Requests : r = handlers[h].request
  BY DEF ServiceIInv, HandlerInv, AdmitFeedbackDelivery
<1>2. PICK row : row = LiveReceipts[r]
  OBVIOUS
<1>3. /\ handlers[h].pc = "sent" /\ contacts' = LiveContacts
      /\ UNCHANGED <<now, items, late, draft, foreign, readiness, checking, categories>>
  BY DEF AdmitFeedbackDelivery, cache, github, client
<1>4. /\ handlers[h].content \in Contents /\ handlers[h].landed = 0 /\ handlers[h].reply = "none"
  BY <1>3 DEF ServiceIInv, HandlerInv
<1>5. /\ row \in Row
      /\ row.state # "none" => row = receipts[r] /\ receipts[r].state # "none"
  BY <1>2, LiveRow, LiveShape
<1>6. /\ row.url \in Nat /\ row.created \in Nat /\ row.content \in Contents \union {"none"}
      /\ row.state \in {"none", "pending", "delivered", "failed", "absent"}
  BY <1>5 DEF Row
<1>7. CASE /\ receipts' = [LiveReceipts EXCEPT ![r] = Pending(handlers[h].content)]
           /\ Goes(h, "ready") /\ UNCHANGED scans
           /\ row.state \in {"none", "failed", "absent"}
           /\ row.state # "none" => row.content = handlers[h].content
  <2>1. /\ OnlyHandler(h) /\ handlers'[h].pc = "ready"
        /\ handlers'[h].reply = handlers[h].reply /\ handlers'[h].landed = handlers[h].landed
    BY <1>7, GoesShape DEF ServiceIInv, OnlyHandler
  <2>. QED  BY <1>1, <1>2, <1>3, <1>7, <2>1, TakenUpKeeps
<1>8. CASE receipts' = LiveReceipts /\ UNCHANGED scans /\ Replied(h, "conflict", 0)
           /\ row.state # "none" /\ row.content # handlers[h].content
  <2>1. /\ OnlyHandler(h) /\ handlers'[h].pc = "done" /\ handlers'[h].reply = "conflict"
    BY <1>8, RepliedShape DEF ServiceIInv, OnlyHandler
  <2>2. r \in foreign
    BY <1>1, <1>3, <1>5, <1>8 DEF ServiceIInv, OwnInv
  <2>3. ConflictIsForeign'
    BY <1>1, <1>3, <2>1, <2>2 DEF ServiceIInv, ConflictIsForeign, OnlyHandler
  <2>4. WaitInv' /\ scans' \in [Requests -> Scan]
    BY <1>8, <2>1 DEF ServiceIInv, WaitInv, OnlyHandler, ServiceShapes
  <2>5. Sweeps
    BY <1>3, <1>8 DEF Sweeps
  <2>. QED  BY <1>3, <1>8, <2>1, <2>3, <2>4, <2>5, AnsweredKeeps
<1>9. CASE receipts' = LiveReceipts /\ UNCHANGED scans /\ Replied(h, "throttled", 0)
  <2>1. /\ OnlyHandler(h) /\ handlers'[h].pc = "done" /\ handlers'[h].reply = "throttled"
    BY <1>9, RepliedShape DEF ServiceIInv, OnlyHandler
  <2>3. ConflictIsForeign'
    BY <1>3, <2>1 DEF ServiceIInv, ConflictIsForeign, OnlyHandler
  <2>4. WaitInv' /\ scans' \in [Requests -> Scan]
    BY <1>9, <2>1 DEF ServiceIInv, WaitInv, OnlyHandler, ServiceShapes
  <2>5. Sweeps
    BY <1>3, <1>9 DEF Sweeps
  <2>. QED  BY <1>3, <1>9, <2>1, <2>3, <2>4, <2>5, AnsweredKeeps
<1>10. CASE receipts' = LiveReceipts /\ UNCHANGED scans /\ Replied(h, "delivered", row.url)
            /\ row.state = "delivered" /\ row.content = handlers[h].content
  <2>1. /\ OnlyHandler(h) /\ handlers'[h].pc = "done" /\ handlers'[h].reply = "delivered"
        /\ handlers'[h].url = row.url
    BY <1>6, <1>10, RepliedShape DEF ServiceIInv, OnlyHandler
  <2>3. ConflictIsForeign'
    BY <1>3, <2>1 DEF ServiceIInv, ConflictIsForeign, OnlyHandler
  <2>4. WaitInv' /\ scans' \in [Requests -> Scan]
    BY <1>10, <2>1 DEF ServiceIInv, WaitInv, OnlyHandler, ServiceShapes
  <2>5. Sweeps
    BY <1>3, <1>10 DEF Sweeps
  <2>. QED  BY <1>1, <1>2, <1>3, <1>10, <2>1, <2>3, <2>4, <2>5, AnsweredKeeps
<1>11. CASE receipts' = LiveReceipts /\ Join(h, row)
            /\ row.state = "pending" /\ row.content = handlers[h].content
  <2>. DEFINE new == [pc |-> "list", content |-> row.content, created |-> row.created, url |-> 0]
  <2>1. /\ OnlyHandler(h) /\ handlers'[h].pc = "waiting"
        /\ handlers'[h].reply = handlers[h].reply
    BY <1>11, GoesShape DEF ServiceIInv, OnlyHandler, Join
  <2>2. /\ new \in Scan /\ new.pc = "list" /\ new.content = row.content /\ new.created = row.created
    BY <1>6 DEF Scan
  <2>3. \/ scans[r] # NoScan /\ scans' = scans
        \/ scans[r] = NoScan /\ scans' = [scans EXCEPT ![r] = new]
    BY <1>1, <1>11 DEF Join
  <2> HIDE DEF new
  <2>4. /\ scans' \in [Requests -> Scan] /\ \A q \in Requests \ {r} : scans'[q] = scans[q]
        /\ \/ scans[r] # NoScan /\ scans'[r] = scans[r]
           \/ scans[r] = NoScan /\ scans'[r] = new
    BY <2>2, <2>3 DEF ServiceIInv, ServiceShapes
  <2>5. scans[r] # NoScan => scans[r].pc # "none" /\ scans[r].content = receipts[r].content
    BY DEF ServiceIInv, ScanInv
  <2>6. scans'[r].pc # "none" /\ scans'[r].content = handlers[h].content
    BY <1>5, <1>11, <2>2, <2>4, <2>5
  <2>7. WaitInv'
    <3> SUFFICES ASSUME NEW g \in Handlers, handlers'[g].pc = "waiting"
                 PROVE  /\ scans'[handlers'[g].request].pc # "none"
                        /\ scans'[handlers'[g].request].content = handlers'[g].content
      BY DEF WaitInv
    <3>1. CASE g = h
      BY <1>1, <2>1, <2>6, <3>1 DEF OnlyHandler
    <3>2. CASE g # h
      <4>1. handlers'[g] = handlers[g] /\ handlers[g].request \in Requests
        BY <2>1, <3>2 DEF OnlyHandler, ServiceIInv, HandlerInv
      <4>2. scans[handlers[g].request].pc # "none" /\ scans[handlers[g].request].content = handlers[g].content
        BY <4>1 DEF ServiceIInv, WaitInv
      <4>3. scans[r].pc # "none" => scans'[r] = scans[r]
        BY <2>4 DEF NoScan
      <4>. QED  BY <2>4, <4>1, <4>2, <4>3
    <3>. QED  BY <3>1, <3>2
  <2>8. ConflictIsForeign'
    BY <1>3, <1>4, <2>1 DEF ServiceIInv, ConflictIsForeign, OnlyHandler
  <2>9. Sweeps
    BY <1>3, <1>11 DEF Sweeps
  <2>10. \A q \in Requests :
            \/ scans'[q] = scans[q]
            \/ /\ q = handlers[h].request /\ scans'[q].pc = "list"
               /\ LiveReceipts[q].state = "pending" /\ LiveReceipts[q].created = scans'[q].created
               /\ LiveReceipts[q].content = scans'[q].content
    BY <1>1, <1>2, <1>11, <2>2, <2>4
  <2>. QED  BY <1>3, <1>4, <2>1, <2>4, <2>7, <2>8, <2>9, <2>10, AnsweredKeeps
<1>. QED  BY <1>1, <1>2, <1>6, <1>7, <1>8, <1>9, <1>10, <1>11 DEF AdmitFeedbackDelivery, Charged

-----------------------------------------------------------------------------
(* The steps that move no delivery on.                                     *)

\* A transaction that deletes what is past its time, and handlers that start or end.
LEMMA SweepKeeps ==
    ASSUME ServiceIInv, Sweeps, handlers' \in [Handlers -> Handling], HandlerInv',
           \A g \in Handlers :
              \/ handlers'[g] = handlers[g]
              \/ /\ handlers'[g].pc \in {"idle", "sent", "done"}
                 /\ handlers'[g].reply \notin {"delivered", "conflict"},
           late' \subseteq [request : Requests, content : Contents], LeftBehind,
           \/ scans' = scans
           \/ /\ scans' = [r \in Requests |-> NoScan]
              /\ \A g \in Handlers : handlers'[g].pc # "waiting",
           readiness' \in {"unknown", "ready", "unready"}, checking' \in Handlers \union {Nobody, Probe},
           categories' \in BOOLEAN, draft' = draft, foreign \subseteq foreign', foreign' \subseteq Requests,
           ReadyIsRouted', LockInv', OwnInv'
    PROVE  ServiceIInv'
<1>1. UNCHANGED <<now, items>> /\ \A g \in Handlers : Moved(g)
  BY DEF Sweeps, Moved, Active
<1>2. /\ RowInv' /\ ItemInv' /\ NoDuplicate' /\ ActiveInv' /\ LateInv'
      /\ FreeHasNoItem' /\ ContactKept'
  BY <1>1, SweepShape, CalmKeeps
<1>3. scans' \in [Requests -> Scan] /\ \A q \in Requests : scans'[q] = scans[q] \/ scans'[q] = NoScan
  BY DEF ServiceIInv, ServiceShapes, Scan, NoScan
<1>4. ServiceShapes'
  BY <1>1, <1>3, SweepShape DEF ServiceIInv, ServiceShapes, Swept
<1>5. \A q \in Requests : (scans[q].pc # "none" \/ receipts'[q].state # "none") =>
                receipts'[q] = receipts[q] /\ ItemsOfClaim(q)' = ItemsOfClaim(q)
  BY SweepShape
<1>6. ScanInv'
  BY <1>1, <1>3, <1>5 DEF ServiceIInv, ScanInv, NoScan
<1>7. WaitInv' /\ ConflictIsForeign'
  BY DEF ServiceIInv, WaitInv, ConflictIsForeign
<1>8. DeliveredNamesItem'
  BY <1>1, <1>5 DEF ServiceIInv, DeliveredNamesItem
<1>9. ContactInv'
  <2>1. \A g \in Handlers : handlers'[g].pc = "deliver" => handlers'[g] = handlers[g]
    OBVIOUS
  <2>2. \A q \in Requests : scans'[q].pc = "deliver" => scans'[q] = scans[q]
    BY <1>3 DEF NoScan
  <2>. QED  BY <2>1, <2>2, SweepContacts
<1>. QED  BY <1>2, <1>4, <1>6, <1>7, <1>8, <1>9 DEF ServiceIInv

\* A challenge starts a delivery, or is refused.
LEMMA ChallengeKeeps ==
    ASSUME ServiceIInv, NEW h \in Handlers, NEW source \in Sources, NEW content \in Contents,
           Challenge(h, source, content),
           UNCHANGED <<now, readiness, checking, categories, scans, items, late, draft>>,
           \/ content = draft.content /\ foreign' = foreign
           \/ foreign = {} /\ foreign' = {draft.request}
    PROVE  ServiceIInv'
<1>. DEFINE no == [pc |-> "done", request |-> 0, content |-> "none", source |-> "none",
                   reply |-> "throttled", url |-> 0, landed |-> 0]
            go == [pc |-> "sent", request |-> draft.request, content |-> content,
                   source |-> source, reply |-> "none", url |-> 0, landed |-> 0]
<1>1. handlers \in [Handlers -> Handling] /\ draft.request \in Requests /\ handlers[h].pc \in {"idle", "done"}
  BY DEF ServiceIInv, ServiceShapes, Challenge
<1>2. /\ no \in Handling /\ no.pc = "done" /\ no.reply = "throttled"
      /\ go \in Handling /\ go.pc = "sent" /\ go.reply = "none" /\ go.landed = 0
      /\ go.request = draft.request /\ go.content = content
  <2>1. draft.request \in 0..MaxRequests
    BY <1>1, Numbers
  <2>2. 0 \in 0..MaxRequests /\ 0 \in Nat
    BY Numbers
  <2>. QED  BY <2>1, <2>2 DEF Handling
<1>3. handlers' = [handlers EXCEPT ![h] = no] \/ handlers' = [handlers EXCEPT ![h] = go]
  BY DEF Challenge, Resting
<1>. HIDE DEF no, go
<1>4. /\ handlers' \in [Handlers -> Handling] /\ \A g \in Handlers \ {h} : handlers'[g] = handlers[g]
      /\ handlers'[h] = no \/ handlers'[h] = go
  BY <1>1, <1>2, <1>3
<1>5. Sweeps
  BY DEF Challenge, Sweeps
<1>6. HandlerInv'
  BY <1>1, <1>2, <1>4 DEF ServiceIInv, HandlerInv
<1>7. LockInv' /\ ReadyIsRouted' /\ LeftBehind
  BY <1>1, <1>4 DEF ServiceIInv, LockInv, ReadyIsRouted, LeftBehind
<1>8. foreign \subseteq foreign' /\ foreign' \subseteq Requests
  BY <1>1 DEF ServiceIInv, ServiceShapes
<1>9. OwnInv'
  <2>. draft.request \in Nat /\ draft.request <= draft.request
    <3>1. \A q \in Requests : q \in Nat /\ q <= q
      BY Numbers
    <3>. QED  BY <1>1, <3>1
  <2>1. ASSUME NEW q \in Requests \ foreign', receipts'[q].state # "none"
        PROVE  q <= draft.request /\ (q = draft.request => receipts'[q].content = draft.content)
    BY <1>5, <1>8, <2>1, SweepShape DEF ServiceIInv, OwnInv
  <2>2. \A q \in foreign' : q <= draft.request
    BY <1>1, Numbers DEF ServiceIInv, OwnInv
  <2>3. \A g \in Handlers : handlers'[g].pc = "sent" =>
          handlers'[g].request <= draft.request /\ handlers'[g].request \in Requests
    BY <1>1, <1>2, <1>4, Numbers DEF ServiceIInv, OwnInv, HandlerInv
  <2>4. \A g \in Handlers : handlers'[g].pc = "sent" /\ handlers'[g].request \notin foreign' =>
          (handlers'[g].request = draft.request => handlers'[g].content = draft.content)
    BY <1>2, <1>4, <1>8 DEF ServiceIInv, OwnInv
  <2>5. ASSUME NEW g \in Handlers, handlers'[g].pc = "sent", handlers'[g].request \notin foreign',
               NEW q \in Requests, q = handlers'[g].request
        PROVE  /\ receipts'[q].state # "none" => receipts'[q].content = handlers'[g].content
               /\ \A f \in Handlers : handlers'[f].pc = "sent" /\ handlers'[f].request = q
                                         => handlers'[f].content = handlers'[g].content
    <3>1. CASE q = draft.request
      BY <2>1, <2>4, <2>5, <3>1
    <3>2. CASE q # draft.request
      <4>1. handlers'[g] = handlers[g] /\ q \notin foreign
        BY <1>2, <1>4, <1>8, <2>5, <3>2
      <4>2. \A f \in Handlers : handlers'[f].pc = "sent" /\ handlers'[f].request = q => handlers'[f] = handlers[f]
        BY <1>2, <1>4, <3>2
      <4>3. receipts'[q].state # "none" => receipts[q].state # "none" /\ receipts'[q].content = receipts[q].content
        BY <1>5, SweepShape
      <4>. QED  BY <2>5, <4>1, <4>2, <4>3 DEF ServiceIInv, OwnInv
    <3>. QED  BY <3>1, <3>2
  <2>. QED  BY <2>1, <2>2, <2>3, <2>4, <2>5 DEF OwnInv
<1>10. /\ readiness' \in {"unknown", "ready", "unready"} /\ checking' \in Handlers \union {Nobody, Probe}
       /\ categories' \in BOOLEAN /\ late' \subseteq [request : Requests, content : Contents]
  BY DEF ServiceIInv, ServiceShapes
<1>. QED  BY <1>2, <1>4, <1>5, <1>6, <1>7, <1>8, <1>9, <1>10, SweepKeeps

LEMMA SendKeeps ==
    ASSUME ServiceIInv, NEW h \in Handlers, NEW s \in Sources,
           Send(h, s) \/ \E c \in Contents : ForeignSend(h, s, c)
    PROVE  ServiceIInv'
<1>1. UNCHANGED <<now, readiness, checking, categories, scans, items, late, draft>>
  BY DEF Send, ForeignSend, cache, github
<1>2. CASE Send(h, s)
  <2>1. PICK c \in Contents : c = draft.content
    BY DEF ServiceIInv, ServiceShapes
  <2>2. Challenge(h, s, c) /\ foreign' = foreign
    BY <1>2, <2>1 DEF Send, Challenge
  <2>. QED  BY <1>1, <2>1, <2>2, ChallengeKeeps
<1>3. ASSUME NEW c \in Contents, ForeignSend(h, s, c) PROVE ServiceIInv'
  <2>1. Challenge(h, s, c) /\ foreign = {} /\ foreign' = {draft.request}
    BY <1>3 DEF ForeignSend
  <2>. QED  BY <1>1, <2>1, ChallengeKeeps
<1>. QED  BY <1>2, <1>3

LEMMA ExpireKeeps ==
    ASSUME ServiceIInv, Expire
    PROVE  ServiceIInv'
<1>1. UNCHANGED <<now, items, late, handlers, scans, draft, foreign, readiness, checking, categories>>
  BY DEF Expire, cache, github, client
<1>2. Sweeps /\ LeftBehind /\ HandlerInv' /\ LockInv' /\ ReadyIsRouted'
  BY <1>1 DEF Expire, Sweeps, LeftBehind, ServiceIInv, HandlerInv, LockInv, ReadyIsRouted
<1>3. OwnInv'
  BY <1>1, <1>2, SweepShape, OwnKept
<1>4. ServiceShapes
  BY DEF ServiceIInv
<1>. QED  BY <1>1, <1>2, <1>3, <1>4, SweepKeeps DEF ServiceShapes

LEMMA RestartKeeps ==
    ASSUME ServiceIInv, Restart
    PROVE  ServiceIInv'
<1>1. /\ UNCHANGED <<now, items, draft, foreign>> /\ late' = late \union GivenUp(Handlers)
      /\ scans' = [r \in Requests |-> NoScan]
      /\ readiness' = "unknown" /\ checking' = Nobody /\ categories' = FALSE /\ Sweeps
  BY DEF Restart, client, Sweeps
<1>2. Resting \in Handling /\ Resting.pc = "idle" /\ Resting.reply = "none"
  BY Numbers DEF Resting, Handling
<1>3. /\ handlers' \in [Handlers -> Handling]
      /\ \A g \in Handlers : \/ handlers'[g] = handlers[g] /\ handlers[g].pc = "done"
                             \/ handlers'[g] = Resting /\ handlers[g].pc # "done"
  BY <1>2 DEF ServiceIInv, ServiceShapes, Restart
<1>4. HandlerInv' /\ LockInv' /\ ReadyIsRouted'
  BY <1>1, <1>2, <1>3, NamesAssumption DEF ServiceIInv, HandlerInv, LockInv, ReadyIsRouted
<1>5. \A w \in GivenUp(Handlers) : \E g \in Handlers :
           /\ handlers[g].pc = "post" /\ handlers[g].landed = 0
           /\ w = [request |-> handlers[g].request, content |-> handlers[g].content]
  BY DEF GivenUp
<1>6. LeftBehind
  BY <1>1, <1>2, <1>3, <1>5 DEF LeftBehind, Active
<1>7. late' \subseteq [request : Requests, content : Contents]
  <2>1. late \subseteq [request : Requests, content : Contents]
    BY DEF ServiceIInv, ServiceShapes
  <2>2. \A g \in Handlers : handlers[g].pc = "post" => handlers[g].request \in Requests /\ handlers[g].content \in Contents
    BY DEF ServiceIInv, HandlerInv
  <2>. QED  BY <1>1, <1>5, <2>1, <2>2
<1>8. OwnInv'
  BY <1>1, <1>2, <1>3, SweepShape, OwnKept
<1>9. foreign' \subseteq Requests
  BY <1>1 DEF ServiceIInv, ServiceShapes
<1>. QED  BY <1>1, <1>2, <1>3, <1>4, <1>6, <1>7, <1>8, <1>9, SweepKeeps

\* A step of the client or of the readiness cache.
LEMMA QuietKeeps ==
    ASSUME ServiceIInv, UNCHANGED <<now, store, handlers, scans, github, foreign>>,
           readiness' \in {"unknown", "ready", "unready"}, checking' \in Handlers \union {Nobody, Probe},
           categories' \in BOOLEAN, draft' \in [request : Requests, content : Contents],
           ReadyIsRouted', LockInv', OwnInv'
    PROVE  ServiceIInv'
<1>1. UNCHANGED <<now, receipts, contacts, handlers, scans, items, late, foreign>> /\ LeftBehind
      /\ \A g \in Handlers : Moved(g)
  BY DEF store, github, LeftBehind, Moved
<1>2. /\ RowInv' /\ ItemInv' /\ NoDuplicate' /\ ActiveInv' /\ LateInv'
      /\ FreeHasNoItem' /\ ContactKept'
      /\ \A r \in Requests : ItemsOfClaim(r)' = ItemsOfClaim(r)
  BY <1>1, StillKeeps
<1>3. ServiceShapes' /\ HandlerInv' /\ ScanInv' /\ WaitInv' /\ DeliveredNamesItem' /\ ContactInv' /\ ConflictIsForeign'
  <2>1. ServiceShapes'
    BY <1>1 DEF ServiceIInv, ServiceShapes
  <2>2. HandlerInv' /\ WaitInv' /\ ContactInv' /\ ConflictIsForeign'
    BY <1>1 DEF ServiceIInv, HandlerInv, WaitInv, ContactInv, ConflictIsForeign
  <2>3. ScanInv' /\ DeliveredNamesItem'
    BY <1>1, <1>2 DEF ServiceIInv, ScanInv, DeliveredNamesItem
  <2>. QED  BY <2>1, <2>2, <2>3
<1>. QED  BY <1>2, <1>3 DEF ServiceIInv

LEMMA CacheKeeps ==
    ASSUME ServiceIInv,
           \/ \E h \in Handlers : StartCheck(h)
           \/ StartCheck(Probe) \/ ProbeEnds \/ CacheExpires \/ UNCHANGED serviceVars
    PROVE  ServiceIInv'
<1>1. UNCHANGED <<now, store, receipts, contacts, handlers, scans, github, draft, foreign>>
  BY NamesAssumption DEF StartCheck, ProbeEnds, EndCheck, CacheExpires, client, serviceVars, store
<1>2. OwnInv'
  BY <1>1, OwnKept
<1>3. draft' \in [request : Requests, content : Contents]
  BY <1>1 DEF ServiceIInv, ServiceShapes
<1>4. /\ readiness' \in {"unknown", "ready", "unready"} /\ checking' \in Handlers \union {Nobody, Probe}
      /\ categories' \in BOOLEAN /\ ReadyIsRouted'
  <2>1. CASE (\E h \in Handlers : StartCheck(h)) \/ StartCheck(Probe)
    BY <2>1 DEF ServiceIInv, ServiceShapes, ReadyIsRouted, StartCheck
  <2>2. CASE ProbeEnds
    BY <2>2 DEF ReadyIsRouted, ProbeEnds, EndCheck, ResolveDiscussionCategories
  <2>3. CASE CacheExpires \/ UNCHANGED serviceVars
    BY <2>3 DEF ServiceIInv, ServiceShapes, ReadyIsRouted, CacheExpires, serviceVars, cache
  <2>. QED  BY <2>1, <2>2, <2>3
<1>5. LockInv'
  <2>1. CASE \E h \in Handlers : StartCheck(h)
    BY <1>1, <2>1, NamesAssumption DEF StartCheck, LockInv
  <2>2. CASE StartCheck(Probe) \/ ProbeEnds
    BY <2>2, NamesAssumption DEF StartCheck, ProbeEnds, EndCheck, LockInv
  <2>3. CASE CacheExpires \/ UNCHANGED serviceVars
    BY <1>1, <2>3 DEF ServiceIInv, CacheExpires, LockInv, serviceVars, cache
  <2>. QED  BY <2>1, <2>2, <2>3
<1>. QED  BY <1>1, <1>2, <1>3, <1>4, <1>5, QuietKeeps

LEMMA EditKeeps ==
    ASSUME ServiceIInv, NEW c \in Contents, Edit(c)
    PROVE  ServiceIInv'
<1>1. /\ UNCHANGED <<now, store, receipts, contacts, handlers, scans, github, foreign>>
      /\ UNCHANGED <<readiness, checking, categories>>
      /\ draft' = [request |-> draft.request + 1, content |-> c] /\ draft.request < MaxRequests
  BY DEF Edit, store, cache
<1>2. draft.request \in Nat /\ draft.request + 1 \in Requests /\ foreign \subseteq Requests
  <2>1. draft.request \in 1..MaxRequests /\ foreign \subseteq Requests /\ MaxRequests \in Nat
    BY Numbers DEF ServiceIInv, ServiceShapes, Requests
  <2>. QED  BY <1>1, <2>1 DEF Requests
<1>3. draft' \in [request : Requests, content : Contents] /\ draft'.request = draft.request + 1
  BY <1>1, <1>2
<1>4. OwnInv'
  <2>1. \A q \in Requests : q <= draft.request => q <= draft.request + 1 /\ q # draft.request + 1
    BY <1>2, Numbers
  <2>2. \A g \in Handlers : handlers[g].pc = "sent" => handlers[g].request \in Requests
    BY DEF ServiceIInv, HandlerInv
  <2>. QED  BY <1>1, <1>2, <1>3, <2>1, <2>2 DEF ServiceIInv, OwnInv
<1>5. /\ readiness' \in {"unknown", "ready", "unready"} /\ checking' \in Handlers \union {Nobody, Probe}
      /\ categories' \in BOOLEAN /\ ReadyIsRouted' /\ LockInv'
  BY <1>1 DEF ServiceIInv, ServiceShapes, ReadyIsRouted, LockInv
<1>. QED  BY <1>1, <1>3, <1>4, <1>5, QuietKeeps

\* The clock goes on only while nothing is under way.
LEMMA TickKeeps ==
    ASSUME ServiceIInv, Tick
    PROVE  ServiceIInv'
<1>1. /\ late = {} /\ \A h \in Handlers : handlers[h].pc \in {"idle", "done"}
      /\ \A r \in Requests : scans[r] = NoScan
      /\ now' = now + 1 /\ now \in 0..MaxTime /\ now < MaxTime
      /\ UNCHANGED <<receipts, contacts, handlers, scans, items, late, draft, foreign>>
      /\ UNCHANGED <<readiness, checking, categories>>
  BY DEF ServiceIInv, ServiceShapes, Tick, store, cache, github, client
<1>2. now \in Nat /\ now' \in 0..MaxTime
  BY <1>1, Numbers
<1>3. \A r \in Requests : ItemsOfClaim(r)' = ItemsOfClaim(r)
  BY <1>1 DEF ItemsOfClaim
<1>4. ServiceShapes'
  BY <1>1, <1>2 DEF ServiceIInv, ServiceShapes
<1>5. RowInv'
  <2>1. \A r \in Requests : receipts[r].created \in Nat
    BY LiveRow
  <2>. QED  BY <1>1, <1>2, <2>1 DEF ServiceIInv, RowInv
<1>6. ItemInv'
  <2>1. \A n \in DOMAIN items : items[n].at \in Nat
    BY ItemShape DEF ServiceIInv
  <2>. QED  BY <1>1, <1>2, <2>1, Numbers DEF ServiceIInv, ItemInv
<1>7. ActiveInv' /\ LateInv' /\ ScanInv' /\ WaitInv' /\ ContactInv'
  BY <1>1 DEF ActiveInv, Active, LateInv, ScanInv, WaitInv, ContactInv, NoScan
<1>8. NoDuplicate' /\ HandlerInv' /\ OwnInv' /\ ConflictIsForeign' /\ ReadyIsRouted' /\ LockInv'
  BY <1>1 DEF ServiceIInv, NoDuplicate, HandlerInv, OwnInv, ConflictIsForeign, ReadyIsRouted, LockInv
<1>9. FreeHasNoItem' /\ DeliveredNamesItem' /\ ContactKept'
  BY <1>1, <1>3 DEF ServiceIInv, FreeHasNoItem, DeliveredNamesItem, ContactKept
<1>. QED  BY <1>4, <1>5, <1>6, <1>7, <1>8, <1>9 DEF ServiceIInv

-----------------------------------------------------------------------------
(* The reconciliation.                                                     *)

\* A scan that ends answers exactly the handlers that wait for it.
LEMMA EndScanShape ==
    ASSUME ServiceIInv, NEW r \in Requests, NEW reply \in {"review", "delivered", "error"}, NEW url \in Nat,
           EndScan(r, reply, url)
    PROVE  /\ handlers' \in [Handlers -> Handling] /\ scans' \in [Requests -> Scan]
           /\ scans'[r] = NoScan /\ \A q \in Requests \ {r} : scans'[q] = scans[q]
           /\ \A g \in Handlers :
                \/ handlers'[g] = handlers[g] /\ ~(handlers[g].pc = "waiting" /\ handlers[g].request = r)
                \/ /\ handlers[g].pc = "waiting" /\ handlers[g].request = r
                   /\ handlers'[g].pc = "done" /\ handlers'[g].request = r
                   /\ handlers'[g].content = handlers[g].content
                   /\ handlers'[g].reply = reply /\ handlers'[g].url = url
<1>1. handlers \in [Handlers -> Handling] /\ scans \in [Requests -> Scan] /\ NoScan \in Scan
  BY DEF ServiceIInv, ServiceShapes, NoScan, Scan
<1>2. ASSUME NEW g \in Handlers
      PROVE  /\ handlers'[g] \in Handling
             /\ \/ handlers'[g] = handlers[g] /\ ~(handlers[g].pc = "waiting" /\ handlers[g].request = r)
                \/ /\ handlers[g].pc = "waiting" /\ handlers[g].request = r
                   /\ handlers'[g].pc = "done" /\ handlers'[g].request = r
                   /\ handlers'[g].content = handlers[g].content
                   /\ handlers'[g].reply = reply /\ handlers'[g].url = url
  <2>. DEFINE new == [handlers[g] EXCEPT !.pc = "done", !.reply = reply, !.url = url]
  <2>1. handlers[g] \in Handling
    BY <1>1
  <2>2. /\ new \in Handling /\ new.pc = "done" /\ new.reply = reply /\ new.url = url
        /\ new.request = handlers[g].request /\ new.content = handlers[g].content
    BY <2>1 DEF Handling
  <2>3. handlers'[g] = IF handlers[g].pc = "waiting" /\ handlers[g].request = r THEN new ELSE handlers[g]
    BY DEF EndScan
  <2>. HIDE DEF new
  <2>. QED  BY <2>1, <2>2, <2>3
<1>3. handlers' = [g \in Handlers |-> handlers'[g]]
  BY DEF EndScan
<1>. QED  BY <1>1, <1>2, <1>3 DEF EndScan

\* What a scan has found for its claim.
LEMMA ScanRow ==
    ASSUME ServiceIInv, NEW r \in Requests, scans[r].pc # "none"
    PROVE  /\ receipts[r].state \in {"pending", "delivered", "failed"}
           /\ receipts[r].created = scans[r].created /\ receipts[r].content = scans[r].content
           /\ scans[r].content \in Contents /\ scans[r] \in Scan
           /\ receipts[r].expires > now /\ receipts[r].expires \in Nat
           /\ now \in Nat /\ receipts[r].expires <= now + ReceiptRetention
           /\ scans[r].pc \in {"contact", "deliver"} => scans[r].url \in ItemsOfClaim(r) /\ scans[r].url \in Nat
<1>1. /\ receipts[r].state \in {"pending", "delivered", "failed"}
      /\ receipts[r].created = scans[r].created /\ receipts[r].content = scans[r].content
      /\ receipts[r].expires > now
      /\ scans[r].pc \in {"contact", "deliver"} => scans[r].url \in ItemsOfClaim(r)
  BY DEF ServiceIInv, ScanInv
<1>2. scans[r] \in Scan /\ scans[r].url \in Nat
  BY DEF ServiceIInv, ServiceShapes, Scan
<1>3. /\ receipts[r].content \in Contents /\ receipts[r].created <= now
      /\ receipts[r].expires = receipts[r].created + ReceiptRetention
  BY <1>1 DEF ServiceIInv, RowInv
<1>. QED  BY <1>1, <1>2, <1>3, LiveRow, Numbers

\* A scan ends, and its receipt may just have been settled.
LEMMA ScanOverKeeps ==
    ASSUME ServiceIInv, NEW r \in Requests, NEW reply \in {"review", "delivered", "error"}, NEW url \in Nat,
           EndScan(r, reply, url),
           UNCHANGED <<now, contacts, items, late, draft, foreign, readiness, checking, categories>>,
           RowInv', ItemInv', NoDuplicate', ActiveInv', LateInv', FreeHasNoItem', ContactKept',
           receipts' \in [Requests -> Row],
           \A q \in Requests \ {r} : receipts'[q] = receipts[q],
           receipts'[r].state # "none" => receipts[r].state # "none",
           receipts'[r].content = receipts[r].content,
           \A q \in Requests : ItemsOfClaim(q)' = ItemsOfClaim(q),
           \A q \in Requests : receipts'[q].state = "delivered" =>
                /\ receipts'[q].url \in ItemsOfClaim(q)'
                /\ items'[receipts'[q].url].content = receipts'[q].content,
           reply = "delivered" => url \in ItemsOfClaim(r) /\ scans[r].pc # "none"
    PROVE  ServiceIInv'
<1>1. /\ handlers' \in [Handlers -> Handling] /\ scans' \in [Requests -> Scan]
      /\ scans'[r] = NoScan /\ \A q \in Requests \ {r} : scans'[q] = scans[q]
      /\ \A g \in Handlers :
                \/ handlers'[g] = handlers[g] /\ ~(handlers[g].pc = "waiting" /\ handlers[g].request = r)
                \/ /\ handlers[g].pc = "waiting" /\ handlers[g].request = r
                   /\ handlers'[g].pc = "done" /\ handlers'[g].request = r
                   /\ handlers'[g].content = handlers[g].content
                   /\ handlers'[g].reply = reply /\ handlers'[g].url = url
  BY EndScanShape
<1>2. ServiceShapes'
  BY <1>1 DEF ServiceIInv, ServiceShapes
<1>3. HandlerInv'
  BY <1>1 DEF ServiceIInv, HandlerInv
<1>4. ScanInv'
  BY <1>1 DEF ServiceIInv, ScanInv, NoScan
<1>5. WaitInv'
  <2> SUFFICES ASSUME NEW g \in Handlers, handlers'[g].pc = "waiting"
               PROVE  /\ scans'[handlers'[g].request].pc # "none"
                      /\ scans'[handlers'[g].request].content = handlers'[g].content
    BY DEF WaitInv
  <2>1. handlers'[g] = handlers[g] /\ handlers[g].request \in Requests \ {r}
    BY <1>1 DEF ServiceIInv, HandlerInv
  <2>. QED  BY <1>1, <2>1 DEF ServiceIInv, WaitInv
<1>6. DeliveredNamesItem'
  <2> SUFFICES ASSUME NEW g \in Handlers, handlers'[g].reply = "delivered"
               PROVE  /\ handlers'[g].url \in DOMAIN items
                      /\ items[handlers'[g].url].request = handlers'[g].request
                      /\ items[handlers'[g].url].content = handlers'[g].content
    BY DEF DeliveredNamesItem
  <2>1. CASE handlers'[g] = handlers[g]
    BY <2>1 DEF ServiceIInv, DeliveredNamesItem
  <2>2. CASE handlers'[g] # handlers[g]
    <3>1. /\ handlers[g].pc = "waiting" /\ handlers[g].request = r /\ reply = "delivered"
          /\ handlers'[g].request = r /\ handlers'[g].content = handlers[g].content /\ handlers'[g].url = url
      BY <1>1, <2>2
    <3>2. scans[r].pc # "none" /\ url \in ItemsOfClaim(r) /\ scans[r].content = handlers[g].content
      BY <3>1 DEF ServiceIInv, WaitInv
    <3>3. receipts[r].state # "none" /\ receipts[r].content = handlers[g].content
      BY <3>2, ScanRow
    <3>. QED  BY <3>1, <3>2, <3>3, ClaimOne
  <2>. QED  BY <2>1, <2>2
<1>7. ConflictIsForeign'
  BY <1>1 DEF ServiceIInv, ConflictIsForeign
<1>8. ContactInv'
  <2>1. \A q \in Requests \ {r} : receipts'[q].expires = receipts[q].expires
    OBVIOUS
  <2>. QED  BY <1>1, <2>1 DEF ServiceIInv, ContactInv, NoScan
<1>9. OwnInv'
  <2>1. \A q \in Requests : receipts'[q].state # "none" =>
              receipts[q].state # "none" /\ receipts'[q].content = receipts[q].content
    OBVIOUS
  <2>. QED  BY <1>1, <2>1, OwnKept
<1>10. ReadyIsRouted' /\ LockInv'
  BY <1>1 DEF ServiceIInv, ReadyIsRouted, LockInv
<1>. QED  BY <1>2, <1>3, <1>4, <1>5, <1>6, <1>7, <1>8, <1>9, <1>10 DEF ServiceIInv

\* A scan that ends and leaves the store as it is.
LEMMA ScanQuitsKeeps ==
    ASSUME ServiceIInv, NEW r \in Requests, NEW reply \in {"review", "error"}, EndScan(r, reply, 0),
           UNCHANGED <<now, store, items, late, draft, foreign, readiness, checking, categories>>
    PROVE  ServiceIInv'
<1>1. LeftBehind /\ \A g \in Handlers : Moved(g)
  BY EndScanShape DEF LeftBehind, Moved, Active
<1>2. /\ RowInv' /\ ItemInv' /\ NoDuplicate' /\ ActiveInv' /\ LateInv'
      /\ FreeHasNoItem' /\ ContactKept'
      /\ \A q \in Requests : ItemsOfClaim(q)' = ItemsOfClaim(q)
      /\ receipts' = receipts /\ contacts' = contacts
  BY <1>1, StillKeeps
<1>3. /\ receipts' \in [Requests -> Row]
      /\ \A q \in Requests : receipts'[q].state = "delivered" =>
                /\ receipts'[q].url \in ItemsOfClaim(q)'
                /\ items'[receipts'[q].url].content = receipts'[q].content
  BY <1>2 DEF ServiceIInv, ServiceShapes, DeliveredNamesItem
<1>. QED  BY <1>2, <1>3, ScanOverKeeps

LEMMA PageKeeps ==
    ASSUME ServiceIInv, NEW r \in Requests, IssuePageFails(r) \/ DiscussionPageFails(r)
    PROVE  ServiceIInv'
<1>1. /\ EndScan(r, "review", 0)
      /\ UNCHANGED <<now, store, items, late, draft, foreign, readiness, checking, categories>>
  BY DEF IssuePageFails, DiscussionPageFails, PageFails, cache, github, client
<1>. QED  BY <1>1, ScanQuitsKeeps

\* The scan moves on: it has found the item, or has stored the contact.
LEMMA ScanMovesKeeps ==
    ASSUME ServiceIInv, NEW r \in Requests, NEW p \in {"contact", "deliver"}, NEW url \in Nat,
           scans' = [scans EXCEPT ![r].pc = p, ![r].url = url],
           scans[r].pc # "none", url \in ItemsOfClaim(r), p = "deliver" => scans[r].pc = "contact",
           UNCHANGED <<now, handlers, items, late, draft, foreign, readiness, checking, categories>>,
           Swept, contacts' \in [Requests -> Nat],
           \A q \in Requests :
              \/ contacts'[q] >= contacts[q] \/ contacts'[q] >= now + ReceiptRetention
              \/ contacts[q] <= now /\ (receipts'[q].state # "none" => receipts'[q].expires > now),
           p = "deliver" /\ scans[r].content \in Emails => contacts'[r] >= now + ReceiptRetention
    PROVE  ServiceIInv'
<1>. DEFINE new == [scans[r] EXCEPT !.pc = p, !.url = url]
<1>1. scans \in [Requests -> Scan] /\ scans[r] \in Scan /\ scans' = [scans EXCEPT ![r] = new]
  BY DEF ServiceIInv, ServiceShapes
<1>2. /\ new \in Scan /\ new.pc = p /\ new.url = url
      /\ new.content = scans[r].content /\ new.created = scans[r].created
  BY <1>1 DEF Scan
<1>. HIDE DEF new
<1>3. /\ scans' \in [Requests -> Scan] /\ scans'[r] = new
      /\ \A q \in Requests \ {r} : scans'[q] = scans[q]
  BY <1>1, <1>2
<1>4. LeftBehind /\ \A g \in Handlers : Moved(g)
  BY DEF LeftBehind, Moved
<1>5. /\ RowInv' /\ ItemInv' /\ NoDuplicate' /\ ActiveInv' /\ LateInv'
      /\ FreeHasNoItem' /\ ContactKept'
  BY <1>4, CalmKeeps
<1>6. \A q \in Requests : (scans[q].pc # "none" \/ receipts'[q].state # "none") =>
        receipts'[q] = receipts[q] /\ ItemsOfClaim(q)' = ItemsOfClaim(q)
  BY SweptRow DEF ServiceIInv, ScanInv
<1>7. ServiceShapes' /\ HandlerInv' /\ ConflictIsForeign' /\ ReadyIsRouted' /\ LockInv'
  <2>1. ServiceShapes'
    BY <1>3 DEF ServiceIInv, ServiceShapes, Swept
  <2>2. HandlerInv' /\ ConflictIsForeign' /\ ReadyIsRouted' /\ LockInv'
    BY DEF ServiceIInv, HandlerInv, ConflictIsForeign, ReadyIsRouted, LockInv
  <2>. QED  BY <2>1, <2>2
<1>8. ScanInv'
  <2> SUFFICES ASSUME NEW q \in Requests
               PROVE  IF scans'[q].pc = "none" THEN scans'[q] = NoScan
                      ELSE /\ receipts'[q].state \in {"pending", "delivered", "failed"}
                           /\ receipts'[q].state = "failed" => receipts'[q].created = now
                           /\ receipts'[q].expires > now
                           /\ receipts'[q].created = scans'[q].created /\ receipts'[q].content = scans'[q].content
                           /\ scans'[q].pc \in {"contact", "deliver"} => scans'[q].url \in ItemsOfClaim(q)'
    BY DEF ScanInv
  <2>1. CASE q = r
    BY <1>2, <1>3, <1>6, <2>1 DEF ServiceIInv, ScanInv
  <2>2. CASE q # r
    BY <1>3, <1>6, <2>2 DEF ServiceIInv, ScanInv
  <2>. QED  BY <2>1, <2>2
<1>9. WaitInv'
  <2>1. \A q \in Requests : scans[q].pc # "none" => scans'[q].pc # "none" /\ scans'[q].content = scans[q].content
    BY <1>2, <1>3
  <2>2. \A g \in Handlers : handlers[g].pc = "waiting" => handlers[g].request \in Requests
    BY DEF ServiceIInv, HandlerInv
  <2>. QED  BY <2>1, <2>2 DEF ServiceIInv, WaitInv
<1>10. DeliveredNamesItem'
  BY <1>6 DEF ServiceIInv, DeliveredNamesItem
<1>11. ContactInv'
  <2>1. now \in Nat /\ \A q \in Requests : contacts[q] \in Nat /\ contacts'[q] \in Nat
    BY Numbers DEF ServiceIInv, ServiceShapes
  <2>2. ASSUME NEW q \in Requests, contacts[q] >= now + ReceiptRetention PROVE contacts'[q] >= now + ReceiptRetention
    <3>1. ~(contacts[q] <= now)
      BY <2>1, <2>2, Numbers
    <3>. QED  BY <2>1, <2>2, <3>1, Numbers
  <2>3. ASSUME NEW q \in Requests, scans'[q].pc = "deliver", scans'[q].content \in Emails
        PROVE  contacts'[q] >= receipts'[q].expires
    <3>1. /\ scans[q].pc # "none" /\ scans[q].content \in Emails /\ receipts'[q] = receipts[q]
      BY <1>2, <1>3, <1>6, <2>3
    <3>2. receipts[q].expires > now /\ receipts[q].expires \in Nat /\ receipts[q].expires <= now + ReceiptRetention
      BY <3>1, ScanRow
    <3>3. CASE q = r
      BY <1>2, <1>3, <2>1, <2>3, <3>1, <3>2, <3>3, Numbers
    <3>4. CASE q # r
      <4>1. contacts[q] >= receipts[q].expires
        BY <1>3, <2>3, <3>4 DEF ServiceIInv, ContactInv
      <4>. QED  BY <2>1, <3>1, <3>2, <4>1, Numbers
    <3>. QED  BY <3>3, <3>4
  <2>4. \A g \in Handlers : handlers[g].pc = "deliver" => handlers[g].request \in Requests
    BY DEF ServiceIInv, HandlerInv
  <2>. QED  BY <2>2, <2>3, <2>4 DEF ServiceIInv, ContactInv
<1>12. OwnInv'
  <2>1. \A q \in Requests : receipts'[q].state # "none" =>
              receipts[q].state # "none" /\ receipts'[q].content = receipts[q].content
    BY <1>6
  <2>. QED  BY <2>1, OwnKept
<1>. QED  BY <1>5, <1>7, <1>8, <1>9, <1>10, <1>11, <1>12 DEF ServiceIInv

\* A match is an item of the claim: those before the cutoff belong to a receipt of old.
LEMMA MatchesOfClaim ==
    ASSUME ServiceIInv, NEW r \in Requests, scans[r].pc # "none"
    PROVE  Matches(r) = ItemsOfClaim(r)
<1>1. /\ receipts[r].state # "none"
      /\ receipts[r].created = scans[r].created /\ receipts[r].content = scans[r].content
      /\ receipts[r].created \in Nat
  BY ScanRow, LiveRow
<1>2. \A n \in DOMAIN items : items[n].at \in Nat
  BY ItemShape DEF ServiceIInv
<1>3. /\ \A n \in ItemsOfClaim(r) : /\ n \in DOMAIN items /\ items[n].request = r
                                    /\ items[n].at = receipts[r].created
                                    /\ items[n].content = receipts[r].content
      /\ \A n \in DOMAIN items : items[n].request = r /\ n \notin ItemsOfClaim(r) =>
                                   items[n].at + ReceiptRetention <= receipts[r].created
  BY <1>1, ClaimOne
<1>4. ASSUME NEW n \in ItemsOfClaim(r) PROVE n \in Matches(r)
  BY <1>1, <1>2, <1>3, Numbers DEF Matches
<1>5. ASSUME NEW n \in Matches(r) PROVE n \in ItemsOfClaim(r)
  <2>1. n \in DOMAIN items /\ items[n].request = r /\ items[n].at >= receipts[r].created - CutoffMargin
    BY <1>1 DEF Matches
  <2>. QED  BY <1>1, <1>2, <1>3, <2>1, Numbers, RetentionAssumption
<1>. QED  BY <1>4, <1>5

LEMMA ReconcileKeeps ==
    ASSUME ServiceIInv, NEW r \in Requests, ReconcilePending(r)
    PROVE  ServiceIInv'
<1>1. /\ scans[r].pc = "list"
      /\ UNCHANGED <<now, store, receipts, contacts, items, late, draft, foreign, readiness, checking, categories>>
  BY DEF ReconcilePending, cache, github, client, store
<1>2. CASE EndScan(r, "review", 0)
  BY <1>1, <1>2, ScanQuitsKeeps
<1>3. CASE /\ Cardinality(Matches(r)) = 1 /\ UNCHANGED handlers
           /\ scans' = [scans EXCEPT ![r].pc = "contact", ![r].url = CHOOSE n \in Matches(r) : TRUE]
  <2>1. Matches(r) # {}
    BY <1>3, FS_EmptySet
  <2>2. PICK url : url = (CHOOSE n \in Matches(r) : TRUE)
    OBVIOUS
  <2>3. url \in ItemsOfClaim(r)
    BY <1>1, <2>1, <2>2, MatchesOfClaim
  <2>4. url \in Nat
    BY <2>3, ItemShape DEF ServiceIInv, ItemsOfClaim
  <2>5. /\ Swept /\ contacts' \in [Requests -> Nat]
        /\ \A q \in Requests : contacts'[q] >= contacts[q]
    BY <1>1 DEF ServiceIInv, ServiceShapes, Swept
  <2>. QED  BY <1>1, <1>3, <2>2, <2>3, <2>4, <2>5, ScanMovesKeeps
<1>. QED  BY <1>2, <1>3 DEF ReconcilePending

LEMMA ScanContactKeeps ==
    ASSUME ServiceIInv, NEW r \in Requests, ScanContact(r)
    PROVE  ServiceIInv'
<1>1. /\ scans[r].pc = "contact" /\ StoreContact(r, scans[r].content)
      /\ scans' = [scans EXCEPT ![r].pc = "deliver"]
      /\ UNCHANGED <<now, handlers, items, late, draft, foreign, readiness, checking, categories>>
  BY DEF ScanContact, cache, github, client
<1>2. PICK c \in Contents : c = scans[r].content
  BY <1>1, ScanRow
<1>3. PICK url \in Nat : url = scans[r].url
  BY <1>1, ScanRow
<1>4. url \in ItemsOfClaim(r) /\ scans[r] \in Scan
  BY <1>1, <1>3, ScanRow
<1>5. StoreContact(r, c)
  BY <1>1, <1>2 DEF StoreContact
<1>6. scans' = [scans EXCEPT ![r].pc = "deliver", ![r].url = url]
  <2>1. scans \in [Requests -> Scan]
    BY DEF ServiceIInv, ServiceShapes
  <2>. DEFINE new == [scans[r] EXCEPT !.pc = "deliver"]
              same == [scans[r] EXCEPT !.pc = "deliver", !.url = url]
  <2>2. new = same
    BY <1>3, <1>4 DEF Scan
  <2>3. scans' = [scans EXCEPT ![r] = new]
    BY <1>1, <2>1
  <2>. QED  BY <2>1, <2>2, <2>3
<1>. QED  BY <1>1, <1>2, <1>4, <1>5, <1>6, StoreContactShape, ScanMovesKeeps

LEMMA ScanDeliveredKeeps ==
    ASSUME ServiceIInv, NEW r \in Requests, ScanDelivered(r)
    PROVE  ServiceIInv'
<1>1. /\ scans[r].pc = "deliver"
      /\ UNCHANGED <<now, contacts, items, late, draft, foreign, readiness, checking, categories>>
      /\ events' = events
  BY DEF ScanDelivered, cache, github, client
<1>2. PICK url \in Nat : url = scans[r].url
  BY <1>1, ScanRow
<1>3. /\ url \in ItemsOfClaim(r) /\ receipts[r].content = scans[r].content
      /\ scans[r].content \in Emails => contacts[r] >= receipts[r].expires
  BY <1>1, <1>2, ScanRow DEF ServiceIInv, ContactInv
<1>4. CASE ~IsPending(r)
  <2>1. EndScan(r, "error", 0) /\ UNCHANGED store
    BY <1>1, <1>4 DEF ScanDelivered, store
  <2>. QED  BY <1>1, <2>1, ScanQuitsKeeps
<1>5. CASE IsPending(r)
  <2>1. Transition(r, "delivered", url, FALSE) /\ EndScan(r, "delivered", url)
    BY <1>2, <1>5 DEF ScanDelivered, Transition, EndScan
  <2>2. \A g \in Handlers : handlers'[g] = handlers[g] \/ handlers'[g].pc \notin Active
    BY <2>1, EndScanShape DEF Active
  <2>3. /\ RowInv' /\ ItemInv' /\ NoDuplicate' /\ ActiveInv' /\ LateInv'
        /\ FreeHasNoItem' /\ ContactKept'
        /\ receipts' \in [Requests -> Row]
        /\ \A q \in Requests \ {r} : receipts'[q] = receipts[q]
        /\ receipts'[r].state = "delivered" /\ receipts'[r].content = receipts[r].content
        /\ \A q \in Requests : ItemsOfClaim(q)' = ItemsOfClaim(q)
        /\ \A q \in Requests : receipts'[q].state = "delivered" =>
             /\ receipts'[q].url \in ItemsOfClaim(q)'
             /\ items'[receipts'[q].url].content = receipts'[q].content
    BY <1>1, <1>3, <1>5, <2>1, <2>2, SettledKeeps
  <2>4. receipts[r].state # "none" /\ scans[r].pc # "none"
    BY <1>1, <1>5 DEF IsPending
  <2>. QED  BY <1>1, <1>3, <2>1, <2>3, <2>4, ScanOverKeeps
<1>. QED  BY <1>4, <1>5

-----------------------------------------------------------------------------
(* The operator.                                                           *)

LEMMA OperatorKeeps ==
    ASSUME ServiceIInv, NEW r \in Requests, ResolveDestination(r) \/ MarkAbsent(r)
    PROVE  ServiceIInv'
<1>1. /\ UNCHANGED <<now, contacts, handlers, scans, items, late, draft, foreign>>
      /\ UNCHANGED <<readiness, checking, categories>> /\ IsPending(r)
  BY DEF ResolveDestination, MarkAbsent, cache, github, client
<1>2. PICK s \in {"delivered", "absent"}, url \in Nat :
        /\ Transition(r, s, url, TRUE)
        /\ s = "delivered" => url \in ItemsOfClaim(r)
        /\ s = "absent" => ItemsOfClaim(r) = {} /\ ~Working(r)
  <2>1. CASE ResolveDestination(r)
    <3>1. PICK n \in DOMAIN items : /\ items[n].request = r /\ items[n].at >= receipts[r].created
                                    /\ Transition(r, "delivered", n, TRUE)
      BY <2>1 DEF ResolveDestination
    <3>. QED  BY <3>1, ItemShape DEF ServiceIInv, ItemsOfClaim
  <2>2. CASE MarkAbsent(r)
    <3>1. Transition(r, "absent", 0, TRUE) /\ ~Working(r)
      BY <2>2 DEF MarkAbsent
    <3>2. ItemsOfClaim(r) = {}
      <4>1. \A n \in DOMAIN items : items[n].at \in Nat /\ receipts[r].created \in Nat
        BY ItemShape, LiveRow DEF ServiceIInv
      <4>2. \A n \in DOMAIN items : items[n].request # r \/ items[n].at < receipts[r].created
        BY <2>2 DEF MarkAbsent
      <4>. QED  BY <4>1, <4>2 DEF ItemsOfClaim
    <3>. QED  BY <3>1, <3>2
  <2>. QED  BY <2>1, <2>2
<1>3. s = "absent" => /\ scans[r].pc = "none" /\ \A w \in late : w.request # r
                      /\ \A g \in Handlers : handlers[g].pc \in Active => handlers[g].request # r
  BY <1>2 DEF Working, Active, NoScan
<1>4. /\ RowInv' /\ ItemInv' /\ NoDuplicate' /\ ActiveInv' /\ LateInv'
      /\ FreeHasNoItem' /\ ContactKept'
      /\ receipts' \in [Requests -> Row]
      /\ \A q \in Requests \ {r} : receipts'[q] = receipts[q]
      /\ receipts'[r].state = s /\ receipts'[r].content = receipts[r].content
      /\ receipts'[r].created = receipts[r].created /\ receipts'[r].expires = receipts[r].expires
      /\ \A q \in Requests : ItemsOfClaim(q)' = ItemsOfClaim(q)
      /\ \A q \in Requests : receipts'[q].state = "delivered" =>
           /\ receipts'[q].url \in ItemsOfClaim(q)'
           /\ items'[receipts'[q].url].content = receipts'[q].content
  BY <1>1, <1>2, <1>3, SettledKeeps
<1>5. ServiceShapes' /\ HandlerInv' /\ WaitInv' /\ ConflictIsForeign' /\ ReadyIsRouted' /\ LockInv'
  <2>1. ServiceShapes'
    BY <1>1, <1>4 DEF ServiceIInv, ServiceShapes
  <2>2. HandlerInv' /\ WaitInv' /\ ConflictIsForeign' /\ ReadyIsRouted' /\ LockInv'
    BY <1>1 DEF ServiceIInv, HandlerInv, WaitInv, ConflictIsForeign, ReadyIsRouted, LockInv
  <2>. QED  BY <2>1, <2>2
<1>6. ScanInv' /\ ContactInv'
  BY <1>1, <1>3, <1>4 DEF ServiceIInv, ScanInv, ContactInv
<1>7. DeliveredNamesItem'
  BY <1>1, <1>4 DEF ServiceIInv, DeliveredNamesItem
<1>8. OwnInv'
  <2>1. \A q \in Requests : receipts'[q].state # "none" =>
              receipts[q].state # "none" /\ receipts'[q].content = receipts[q].content
    BY <1>1, <1>4 DEF IsPending
  <2>. QED  BY <1>1, <2>1, OwnKept
<1>. QED  BY <1>4, <1>5, <1>6, <1>7, <1>8 DEF ServiceIInv

-----------------------------------------------------------------------------
(* The invariant and what follows from it.                                 *)

LEMMA InitHolds == ServiceInit => ServiceIInv
<1> SUFFICES ASSUME ServiceInit PROVE ServiceIInv
  OBVIOUS
<1>1. NoRow \in Row /\ NoRow.state = "none" /\ Resting \in Handling /\ NoScan \in Scan /\ NoScan.pc = "none"
  BY Numbers DEF NoRow, Row, Resting, Handling, NoScan, Scan
<1>2. \A h \in Handlers : handlers[h].pc = "idle" /\ handlers[h].reply = "none"
  BY DEF ServiceInit, Resting
<1>3. \A r \in Requests : receipts[r] = NoRow /\ contacts[r] = 0 /\ scans[r] = NoScan
  BY DEF ServiceInit
<1>4. DOMAIN items = {} /\ late = {} /\ foreign = {}
  BY DEF ServiceInit
<1>5. ServiceShapes
  <2>1. 1 \in Requests /\ 0 \in 0..MaxTime
    BY Numbers DEF Requests
  <2>2. receipts \in [Requests -> Row] /\ handlers \in [Handlers -> Handling] /\ scans \in [Requests -> Scan]
    BY <1>1 DEF ServiceInit
  <2>3. contacts \in [Requests -> Nat] /\ draft \in [request : Requests, content : Contents]
    BY <2>1 DEF ServiceInit
  <2>4. items \in Seq([request : Requests, content : Contents, at : Nat])
    BY DEF ServiceInit
  <2>. QED  BY <2>1, <2>2, <2>3, <2>4 DEF ServiceInit, ServiceShapes
<1>6. HandlerInv /\ WaitInv /\ ActiveInv /\ ConflictIsForeign /\ LockInv /\ ReadyIsRouted
  BY <1>2, NamesAssumption DEF ServiceInit, HandlerInv, WaitInv, ActiveInv, Active, ConflictIsForeign, LockInv, ReadyIsRouted
<1>7. RowInv /\ ItemInv /\ NoDuplicate /\ LateInv /\ ScanInv /\ FreeHasNoItem /\ ContactKept
  BY <1>1, <1>3, <1>4 DEF RowInv, ItemInv, NoDuplicate, LateInv, ScanInv, FreeHasNoItem, ContactKept
<1>8. DeliveredNamesItem /\ ContactInv /\ OwnInv
  BY <1>1, <1>2, <1>3, <1>4 DEF DeliveredNamesItem, ContactInv, OwnInv
<1>. QED  BY <1>5, <1>6, <1>7, <1>8 DEF ServiceIInv

LEMMA NextKeeps == ServiceIInv /\ [ServiceNext]_serviceVars => ServiceIInv'
<1> SUFFICES ASSUME ServiceIInv, [ServiceNext]_serviceVars PROVE ServiceIInv'
  OBVIOUS
<1>1. ASSUME NEW h \in Handlers, HandlerStep(h) \/ Land(h) PROVE ServiceIInv'
  <2>1. CASE SourceChanged(h) \/ AdmitFeedbackDelivery(h)
    BY <2>1, SourceChangedKeeps, AdmitKeeps
  <2>2. CASE CachedReady(h) \/ CachedUnready(h) \/ StartCheck(h) \/ \E ok \in BOOLEAN : EndCheck(h, ok)
    BY <2>2, CachedReadyKeeps, CachedUnreadyKeeps, CacheKeeps, EndCheckKeeps
  <2>3. CASE Created(h) \/ Rejected(h) \/ Uncertain(h)
    BY <2>3, CreatedKeeps, RejectedKeeps, UncertainKeeps
  <2>4. CASE KeepContact(h) \/ MarkDelivered(h) \/ MarkFailed(h) \/ Land(h)
    BY <2>4, KeepContactKeeps, SettleKeeps, LandKeeps
  <2>. QED  BY <1>1, <2>1, <2>2, <2>3, <2>4 DEF HandlerStep
<1>2. ASSUME NEW h \in Handlers, NEW s \in Sources, Send(h, s) \/ \E c \in Contents : ForeignSend(h, s, c)
      PROVE  ServiceIInv'
  BY <1>2, SendKeeps
<1>3. ASSUME NEW r \in Requests, ScanStep(r) \/ ResolveDestination(r) \/ MarkAbsent(r) PROVE ServiceIInv'
  BY <1>3, ReconcileKeeps, PageKeeps, ScanContactKeeps, ScanDeliveredKeeps, OperatorKeeps DEF ScanStep
<1>4. ASSUME NEW c \in Contents, Edit(c) PROVE ServiceIInv'
  BY <1>4, EditKeeps
<1>5. ASSUME NEW w \in late, LandLate(w) PROVE ServiceIInv'
  BY <1>5, LandLateKeeps
<1>6. CASE StartCheck(Probe) \/ ProbeEnds \/ CacheExpires \/ UNCHANGED serviceVars
  BY <1>6, CacheKeeps
<1>7. CASE Expire \/ Tick \/ Restart
  BY <1>7, ExpireKeeps, TickKeeps, RestartKeeps
<1>. QED  BY <1>1, <1>2, <1>3, <1>4, <1>5, <1>6, <1>7 DEF ServiceNext

\* Receipts, public items, writes under way, scans, contacts and drafts stay in step
\* through every interleaving of requests, restarts and operators (feedback.py's
\* handlers over store.py and github.py).
THEOREM ServiceInvariant == ServiceSpec => []ServiceIInv
<1>1. ServiceInit => ServiceIInv
  BY InitHolds
<1>2. ServiceIInv /\ [ServiceNext]_serviceVars => ServiceIInv'
  BY NextKeeps
<1>. QED  BY <1>1, <1>2, PTL DEF ServiceSpec

\* A report is never posted twice while its receipt is kept: an uncertain write is
\* reconciled, not repeated, whatever timed out, was replayed or restarted.
THEOREM NoSecondItem == ServiceSpec => []NoDuplicate
<1>1. ServiceIInv => NoDuplicate
  BY DEF ServiceIInv
<1>. QED  BY <1>1, ServiceInvariant, PTL

\* The scan of a pending receipt matches the item of this receipt and no other: its
\* cutoff hides nothing, and the item of a forgotten receipt is not counted.
LEMMA ScanHolds == ServiceIInv => ScanFindsItem
  BY MatchesOfClaim DEF ScanFindsItem

LEMMA StrandedHolds == ServiceIInv => NobodyStranded
<1> SUFFICES ASSUME ServiceIInv PROVE NobodyStranded
  OBVIOUS
<1>1. ASSUME NEW h \in Handlers, handlers[h].pc = "waiting" PROVE scans[handlers[h].request] # NoScan
  BY <1>1 DEF ServiceIInv, WaitInv, NoScan
<1>. QED  BY <1>1 DEF ServiceIInv, LockInv, NobodyStranded

\* What the service says of a report is true: a delivered receipt and every reply that
\* says so name an item with this report, its contact outlives the receipt, a receipt
\* that may be posted again has no item, a scan finds the item there is, and nobody
\* waits for a scan or a readiness check that nobody works on.
THEOREM ServiceHolds == ServiceSpec => []ServiceInv
<1>1. ServiceIInv => ServiceTypeOK
  <2> SUFFICES ASSUME ServiceIInv PROVE ServiceTypeOK
    OBVIOUS
  <2>1. ASSUME NEW r \in Requests
        PROVE  /\ receipts[r].state \in {"none", "pending", "delivered", "failed", "absent"}
               /\ scans[r].pc \in {"none", "list", "contact", "deliver"} /\ contacts[r] \in Nat
    BY DEF ServiceIInv, ServiceShapes, Row, Scan
  <2>2. ASSUME NEW h \in Handlers
        PROVE  handlers[h].pc \in {"idle", "sent", "ready", "post", "contact", "deliver", "failing",
                                   "waiting", "done"}
    BY DEF ServiceIInv, ServiceShapes, Handling
  <2>. QED  BY <2>1, <2>2 DEF ServiceIInv, ServiceShapes, ServiceTypeOK
<1>2. ServiceIInv => ServiceInv
  BY <1>1, ScanHolds, StrandedHolds DEF ServiceIInv, ServiceInv
<1>. QED  BY <1>2, ServiceInvariant, PTL

-----------------------------------------------------------------------------
(* The quotas.                                                             *)

LEMMA LatestHolds ==
    ASSUME NEW N \in Nat, NEW T \in SUBSET (0..N), T # {}
    PROVE  Latest(T) \in T /\ \A y \in T : y <= Latest(T)
<1>1. \E t \in T : \A y \in T : y <= t
  BY GreatestNumber, Zenon
<1> QED  BY <1>1 DEF Latest

\* As many rows as the quota admits are as late as the threshold, and fewer are
\* later than it.
LEMMA ThresholdHolds ==
    ASSUME NEW N \in Nat, NEW rows, IsFiniteSet(rows), \A e \in rows : e.at \in 0..N,
           NEW limit \in Nat \ {0}, Cardinality(rows) >= limit,
           NEW t, t = Threshold(rows, limit)
    PROVE  /\ \E e \in rows : e.at = t
           /\ Cardinality({e \in rows : e.at >= t}) >= limit
           /\ \A u \in Nat : u >= t => Cardinality({e \in rows : e.at > u}) < limit
<1> DEFINE Since(u) == {e \in rows : e.at >= u}
           Later(u) == {e \in rows : e.at > u}
           Times == {e.at : e \in rows}
           Enough == {u \in Times : Cardinality(Since(u)) >= limit}
<1>1. ASSUME NEW some \in SUBSET rows, Cardinality(some) >= limit
      PROVE  \E e \in some : some \subseteq Since(e.at) /\ e.at \in Enough
  <2>1. IsFiniteSet(some) /\ Cardinality(some) \in Nat
    BY FS_Subset, FS_CardinalityType
  <2>2. some # {}
    BY <1>1, <2>1, FS_EmptySet
  <2>3. PICK times : times = {e.at : e \in some}
    OBVIOUS
  <2>4. times \in SUBSET Nat /\ times # {}
    BY <2>2, <2>3
  <2>5. PICK m \in times : \A y \in times : m <= y
    BY <2>4, LeastNumber, Zenon
  <2>6. PICK e \in some : \A c \in some : e.at <= c.at
    BY <2>3, <2>5
  <2>7. some \subseteq Since(e.at)
    BY <2>6
  <2>8. IsFiniteSet(Since(e.at)) /\ Cardinality(Since(e.at)) \in Nat
    BY FS_Subset, FS_CardinalityType
  <2>9. Cardinality(some) <= Cardinality(Since(e.at))
    BY <2>7, <2>8, FS_Subset
  <2>10. Cardinality(Since(e.at)) >= limit
    BY <1>1, <2>1, <2>8, <2>9
  <2> QED  BY <2>6, <2>7, <2>10
<1>2. Enough \in SUBSET (0..N) /\ Enough # {}
  <2>1. Enough # {}
    BY <1>1
  <2> QED  BY <2>1
<1>3. t \in Enough /\ \A u \in Enough : u <= t
  <2>1. t = Latest(Enough)
    BY DEF Threshold
  <2> HIDE DEF Enough
  <2> QED  BY <1>2, <2>1, LatestHolds
<1>4. ASSUME NEW u \in Nat, u >= t, Cardinality(Later(u)) >= limit
      PROVE  FALSE
  <2>1. PICK e \in Later(u) : e.at \in Enough
    BY <1>1, <1>4
  <2>2. e.at <= t /\ e.at > u /\ e.at \in Nat /\ t \in Nat
    BY <1>2, <1>3, <2>1
  <2> QED  BY <1>4, <2>2
<1>5. \A u \in Nat : Cardinality(Later(u)) \in Nat
  BY FS_Subset, FS_CardinalityType
<1>6. \A u \in Nat : u >= t => Cardinality(Later(u)) < limit
  BY <1>4, <1>5
<1> QED  BY <1>3, <1>6

\* The retry times of a window are in the future, and the first at which it has room.
Timely(log, from, window, limit) ==
    \A u \in Nat :
        LET retry == RetryForWindow(log, from, u, window, limit)
        IN  /\ retry \in Nat
            /\ retry = 0 => Cardinality(Rows(log, from, u, window)) < limit
            /\ retry # 0 => retry > u
            /\ \A v \in Nat : u <= v /\ retry <= v => RetryForWindow(log, from, v, window, limit) = 0
            /\ \A v \in Nat : u <= v /\ v < retry => RetryForWindow(log, from, v, window, limit) # 0

LEMMA WindowTimely ==
    ASSUME NEW N \in Nat, NEW log, IsFiniteSet(log), \A e \in log : e.at \in 0..N,
           NEW from, NEW window \in Nat \ {0}, NEW limit \in Nat \ {0}
    PROVE  Timely(log, from, window, limit)
<1> SUFFICES ASSUME NEW time \in Nat, NEW retry, retry = RetryForWindow(log, from, time, window, limit)
             PROVE  /\ retry \in Nat
                    /\ retry = 0 => Cardinality(Rows(log, from, time, window)) < limit
                    /\ retry # 0 => retry > time
                    /\ \A v \in Nat : time <= v /\ retry <= v
                         => RetryForWindow(log, from, v, window, limit) = 0
                    /\ \A v \in Nat : time <= v /\ v < retry
                         => RetryForWindow(log, from, v, window, limit) # 0
  BY DEF Timely
<1> DEFINE R(u) == Rows(log, from, u, window)
<1>1. \A u : /\ IsFiniteSet(R(u)) /\ Cardinality(R(u)) \in Nat
             /\ R(u) \subseteq log /\ \A e \in R(u) : e.at \in 0..N
  <2> TAKE u
  <2>1. R(u) \in SUBSET log
    BY DEF Rows
  <2> QED  BY <2>1, FS_Subset, FS_CardinalityType
<1>2. \A u, v \in Nat : u <= v => Cardinality(R(v)) <= Cardinality(R(u))
  <2> SUFFICES ASSUME NEW u \in Nat, NEW v \in Nat, u <= v PROVE Cardinality(R(v)) <= Cardinality(R(u))
    OBVIOUS
  <2>1. R(v) \in SUBSET R(u)
    BY DEF Rows
  <2> QED  BY <1>1, <2>1, FS_Subset
<1>3. \A u \in Nat : Cardinality(R(u)) < limit => RetryForWindow(log, from, u, window, limit) = 0
  BY DEF RetryForWindow
<1>4. \A u \in Nat : Cardinality(R(u)) >= limit =>
        RetryForWindow(log, from, u, window, limit) = Threshold(R(u), limit) + window
  BY <1>1 DEF RetryForWindow
<1>5. \A u \in Nat : Cardinality(R(u)) >= limit =>
        LET s == Threshold(R(u), limit)
        IN  /\ s \in 0..N /\ s > u - window
            /\ Cardinality({e \in R(u) : e.at >= s}) >= limit
            /\ \A v \in Nat : v >= s => Cardinality({e \in R(u) : e.at > v}) < limit
  <2> SUFFICES ASSUME NEW u \in Nat, Cardinality(R(u)) >= limit, NEW s, s = Threshold(R(u), limit)
               PROVE  /\ s \in 0..N /\ s > u - window
                      /\ Cardinality({e \in R(u) : e.at >= s}) >= limit
                      /\ \A v \in Nat : v >= s => Cardinality({e \in R(u) : e.at > v}) < limit
    OBVIOUS
  <2>1. PICK rows : rows = R(u)
    OBVIOUS
  <2>2. /\ \E e \in rows : e.at = s
        /\ Cardinality({e \in rows : e.at >= s}) >= limit
        /\ \A v \in Nat : v >= s => Cardinality({e \in rows : e.at > v}) < limit
    BY <1>1, <2>1, ThresholdHolds
  <2>3. \A e \in rows : e.at \in 0..N /\ e.at > u - window
    BY <1>1, <2>1 DEF Rows
  <2> QED  BY <2>1, <2>2, <2>3
<1>6. \A u \in Nat : RetryForWindow(log, from, u, window, limit) # 0 <=> Cardinality(R(u)) >= limit
  <2> TAKE u \in Nat
  <2>1. CASE Cardinality(R(u)) < limit
    BY <1>1, <1>3, <2>1
  <2>2. CASE Cardinality(R(u)) >= limit
    <3>1. PICK s \in 0..N : RetryForWindow(log, from, u, window, limit) = s + window
      BY <1>4, <1>5, <2>2
    <3> QED  BY <2>2, <3>1
  <2>3. Cardinality(R(u)) \in Nat
    BY <1>1
  <2> QED  BY <2>1, <2>2, <2>3
<1>7. CASE Cardinality(R(time)) < limit
  <2>1. retry = 0
    BY <1>3, <1>7
  <2>2. \A later \in Nat : later >= time => Cardinality(R(later)) < limit
    BY <1>1, <1>2, <1>7
  <2> QED  BY <1>3, <1>7, <2>1, <2>2
<1>8. CASE Cardinality(R(time)) >= limit
  <2>1. PICK s \in 0..N : /\ retry = s + window /\ s > time - window
                          /\ Cardinality({e \in R(time) : e.at >= s}) >= limit
                          /\ \A v \in Nat : v >= s => Cardinality({e \in R(time) : e.at > v}) < limit
    BY <1>4, <1>5, <1>8
  <2>2. ASSUME NEW later \in Nat, later >= time, later >= retry
        PROVE  RetryForWindow(log, from, later, window, limit) = 0
    <3>1. later - window \in Nat /\ later - window >= s
      BY <2>1, <2>2
    <3>2. R(later) = {e \in R(time) : e.at > later - window}
      BY <2>2 DEF Rows
    <3>3. Cardinality(R(later)) < limit
      BY <2>1, <3>1, <3>2
    <3> QED  BY <1>3, <3>3
  <2>3. ASSUME NEW t \in Nat, time <= t, t < retry
        PROVE  RetryForWindow(log, from, t, window, limit) # 0
    <3>1. {e \in R(time) : e.at >= s} \in SUBSET R(t)
      BY <2>1, <2>3 DEF Rows
    <3>2. Cardinality({e \in R(time) : e.at >= s}) <= Cardinality(R(t))
      BY <1>1, <3>1, FS_Subset
    <3>3. Cardinality(R(t)) >= limit
      <4>1. Cardinality({e \in R(time) : e.at >= s}) \in Nat
        BY <1>1, <3>1, FS_Subset, FS_CardinalityType
      <4> QED  BY <1>1, <2>1, <3>2, <4>1
    <3> QED  BY <1>6, <3>3
  <2>4. retry \in Nat /\ retry # 0 /\ retry > time
    BY <2>1
  <2> QED  BY <1>1, <1>8, <2>2, <2>3, <2>4
<1> QED  BY <1>1, <1>7, <1>8

\* A client that is refused is told the first moment at which all windows have room,
\* and one that is not refused finds room in each.
Prompt(log, source, time) ==
    LET retry == ReportRetry(log, source, time)
    IN  /\ retry # 0 => /\ retry > time
                        /\ ReportRetry(log, source, retry) = 0
                        /\ \A t \in time..(retry - 1) : ReportRetry(log, source, t) # 0
        /\ retry = 0 => /\ Cardinality(Rows(log, {source}, time, Hour)) < HourLimit
                        /\ Cardinality(Rows(log, {source}, time, Day)) < DayLimit
                        /\ Cardinality(Rows(log, Sources, time, Hour)) < GlobalLimit

LEMMA ReportHolds ==
    ASSUME NEW N \in Nat, NEW log, IsFiniteSet(log), \A e \in log : e.at \in 0..N,
           NEW source, NEW time \in Nat
    PROVE  Prompt(log, source, time)
<1> SUFFICES ASSUME NEW retry, retry = ReportRetry(log, source, time)
             PROVE  /\ retry # 0 => /\ retry > time
                                    /\ ReportRetry(log, source, retry) = 0
                                    /\ \A t \in time..(retry - 1) : ReportRetry(log, source, t) # 0
                    /\ retry = 0 => /\ Cardinality(Rows(log, {source}, time, Hour)) < HourLimit
                                    /\ Cardinality(Rows(log, {source}, time, Day)) < DayLimit
                                    /\ Cardinality(Rows(log, Sources, time, Hour)) < GlobalLimit
  BY DEF Prompt
<1> DEFINE A(u) == RetryForWindow(log, {source}, u, Hour, HourLimit)
           B(u) == RetryForWindow(log, {source}, u, Day, DayLimit)
           C(u) == RetryForWindow(log, Sources, u, Hour, GlobalLimit)
           Rest(u) == ReportRetry(log, source, u)
<1>1. /\ Hour \in Nat \ {0} /\ Day \in Nat \ {0}
      /\ HourLimit \in Nat \ {0} /\ DayLimit \in Nat \ {0} /\ GlobalLimit \in Nat \ {0}
  BY BoundsAssumption
<1>2. ASSUME NEW u \in Nat
      PROVE  /\ A(u) \in Nat
             /\ A(u) = 0 => Cardinality(Rows(log, {source}, u, Hour)) < HourLimit
             /\ A(u) # 0 => A(u) > u
             /\ \A v \in Nat : u <= v /\ A(u) <= v => A(v) = 0
             /\ \A v \in Nat : u <= v /\ v < A(u) => A(v) # 0
  <2>1. Timely(log, {source}, Hour, HourLimit)
    BY <1>1, WindowTimely
  <2> QED  BY <2>1 DEF Timely
<1>3. ASSUME NEW u \in Nat
      PROVE  /\ B(u) \in Nat
             /\ B(u) = 0 => Cardinality(Rows(log, {source}, u, Day)) < DayLimit
             /\ B(u) # 0 => B(u) > u
             /\ \A v \in Nat : u <= v /\ B(u) <= v => B(v) = 0
             /\ \A v \in Nat : u <= v /\ v < B(u) => B(v) # 0
  <2>1. Timely(log, {source}, Day, DayLimit)
    BY <1>1, WindowTimely
  <2> QED  BY <2>1 DEF Timely
<1>4. ASSUME NEW u \in Nat
      PROVE  /\ C(u) \in Nat
             /\ C(u) = 0 => Cardinality(Rows(log, Sources, u, Hour)) < GlobalLimit
             /\ C(u) # 0 => C(u) > u
             /\ \A v \in Nat : u <= v /\ C(u) <= v => C(v) = 0
             /\ \A v \in Nat : u <= v /\ v < C(u) => C(v) # 0
  <2>1. Timely(log, Sources, Hour, GlobalLimit)
    BY <1>1, WindowTimely
  <2> QED  BY <2>1 DEF Timely
<1>5. ASSUME NEW u \in Nat
      PROVE  Rest(u) \in {A(u), B(u), C(u)} /\ A(u) <= Rest(u) /\ B(u) <= Rest(u) /\ C(u) <= Rest(u)
  <2>1. PICK a, b, c : a = A(u) /\ b = B(u) /\ c = C(u)
    OBVIOUS
  <2>2. Rest(u) = Latest({a, b, c})
    BY <2>1 DEF ReportRetry
  <2>3. a \in Nat /\ b \in Nat /\ c \in Nat
    BY <1>2, <1>3, <1>4, <2>1
  <2>4. PICK T : T = {a, b, c}
    OBVIOUS
  <2>5. a + b + c \in Nat /\ T \in SUBSET (0..(a + b + c)) /\ T # {}
    BY <2>3, <2>4
  <2>6. Latest(T) \in T /\ \A y \in T : y <= Latest(T)
    BY <2>5, LatestHolds
  <2> QED  BY <2>1, <2>2, <2>4, <2>6
<1>6. retry = Rest(time)
  OBVIOUS
<1> HIDE DEF A, B, C, Rest
<1>7. ASSUME NEW u \in Nat
      PROVE  /\ Rest(u) \in Nat
             /\ Rest(u) = 0 <=> A(u) = 0 /\ B(u) = 0 /\ C(u) = 0
  <2>1. A(u) \in Nat /\ B(u) \in Nat /\ C(u) \in Nat
    BY <1>2, <1>3, <1>4
  <2>2. /\ Rest(u) = A(u) \/ Rest(u) = B(u) \/ Rest(u) = C(u)
        /\ A(u) <= Rest(u) /\ B(u) <= Rest(u) /\ C(u) <= Rest(u)
    BY <1>5
  <2> QED  BY <2>1, <2>2
<1>8. ASSUME retry # 0 PROVE retry > time
  <2>1. retry = A(time) \/ retry = B(time) \/ retry = C(time)
    BY <1>5, <1>6
  <2> QED  BY <1>2, <1>3, <1>4, <1>8, <2>1
<1>9. ASSUME retry # 0 PROVE Rest(retry) = 0
  <2>1. retry \in Nat /\ retry >= time /\ retry >= A(time) /\ retry >= B(time) /\ retry >= C(time)
    BY <1>5, <1>6, <1>7, <1>8, <1>9
  <2>2. A(retry) = 0 /\ B(retry) = 0 /\ C(retry) = 0
    BY <1>2, <1>3, <1>4, <2>1
  <2> QED  BY <1>7, <2>1, <2>2
<1>10. ASSUME retry # 0, NEW t \in time..(retry - 1) PROVE Rest(t) # 0
  <2>1. t \in Nat /\ time <= t /\ t < retry
    BY <1>6, <1>7
  <2>2. t < A(time) \/ t < B(time) \/ t < C(time)
    BY <1>5, <1>6, <2>1
  <2>3. A(t) # 0 \/ B(t) # 0 \/ C(t) # 0
    BY <1>2, <1>3, <1>4, <2>1, <2>2
  <2> QED  BY <1>7, <2>1, <2>3
<1>11. ASSUME retry = 0
       PROVE  /\ Cardinality(Rows(log, {source}, time, Hour)) < HourLimit
              /\ Cardinality(Rows(log, {source}, time, Day)) < DayLimit
              /\ Cardinality(Rows(log, Sources, time, Hour)) < GlobalLimit
  <2>1. A(time) = 0 /\ B(time) = 0 /\ C(time) = 0
    BY <1>6, <1>7, <1>11
  <2> QED  BY <1>2, <1>3, <1>4, <2>1
<1> QED  BY <1>8, <1>9, <1>10, <1>11 DEF Rest

LEMMA LiveApart ==
    ASSUME NEW log, ClaimsApart(log)
    PROVE  ClaimsApart({e \in log : e.at > now - Day})
<1> DEFINE kept == {e \in log : e.at > now - Day}
<1>1. kept \subseteq Claim /\ IsFiniteSet(kept)
  BY FS_Subset DEF ClaimsApart
<1>2. ASSUME NEW e \in kept
      PROVE  e.at <= now /\ e.nr < Cardinality({c \in kept : c.source = e.source /\ c.at = e.at})
  <2>1. {c \in kept : c.source = e.source /\ c.at = e.at} = {c \in log : c.source = e.source /\ c.at = e.at}
    OBVIOUS
  <2> QED  BY <2>1 DEF ClaimsApart
<1> QED  BY <1>1, <1>2 DEF ClaimsApart

\* A claim adds a row of its own.
LEMMA AddApart ==
    ASSUME now \in Nat, NEW log, ClaimsApart(log), NEW source \in Sources \union {"none"},
           NEW row, row = NewRow(log, source)
    PROVE  row \notin log /\ row.source = source /\ row.at = now /\ ClaimsApart(log \union {row})
<1> DEFINE Same(all, e) == {c \in all : c.source = e.source /\ c.at = e.at}
           more == log \union {row}
<1>1. /\ log \subseteq Claim /\ IsFiniteSet(log) /\ IsFiniteSet(more)
      /\ \A e \in log : e.at <= now /\ e.nr < Cardinality(Same(log, e))
  BY FS_AddElement DEF ClaimsApart
<1>2. /\ row.source = source /\ row.at = now /\ row.nr = Cardinality(Same(log, row))
      /\ row = [source |-> source, at |-> now, nr |-> Cardinality(Same(log, row))]
  BY DEF NewRow
<1>3. \A e \in Claim \union {row} : /\ IsFiniteSet(Same(log, e)) /\ Cardinality(Same(log, e)) \in Nat
                 /\ IsFiniteSet(Same(more, e)) /\ Cardinality(Same(more, e)) \in Nat
                 /\ Cardinality(Same(log, e)) <= Cardinality(Same(more, e))
  <2> TAKE e \in Claim \union {row}
  <2>1. /\ Same(log, e) \in SUBSET log /\ Same(more, e) \in SUBSET more
        /\ Same(log, e) \in SUBSET Same(more, e)
    OBVIOUS
  <2>2. IsFiniteSet(Same(log, e)) /\ IsFiniteSet(Same(more, e))
    BY <1>1, <2>1, FS_Subset
  <2> HIDE DEF Same, more
  <2> QED  BY <2>1, <2>2, FS_Subset, FS_CardinalityType
<1>4. row \in Claim
  <2>1. Cardinality(Same(log, row)) \in Nat
    BY <1>3
  <2> HIDE DEF Same
  <2> QED  BY <1>2, <2>1 DEF Claim
<1>5. row \notin log
  <2> SUFFICES ASSUME row \in log PROVE FALSE
    OBVIOUS
  <2>1. row.nr < Cardinality(Same(log, row))
    BY <1>1
  <2>2. Cardinality(Same(log, row)) \in Nat
    BY <1>3
  <2> HIDE DEF Same
  <2> QED  BY <1>2, <2>1, <2>2
<1>6. row.nr < Cardinality(Same(more, row))
  <2>1. Same(more, row) = Same(log, row) \union {row} /\ row \notin Same(log, row)
    BY <1>5
  <2>2. IsFiniteSet(Same(log, row)) /\ Cardinality(Same(log, row)) \in Nat
    BY <1>3
  <2>3. PICK S : S = Same(log, row)
    OBVIOUS
  <2>4. Same(more, row) = S \union {row} /\ row \notin S /\ IsFiniteSet(S)
    BY <2>1, <2>2, <2>3
  <2>5. Cardinality(S \union {row}) = Cardinality(S) + 1
    BY <2>4, FS_AddElement
  <2> HIDE DEF Same, more
  <2> QED  BY <1>2, <2>2, <2>3, <2>4, <2>5
<1>7. \A e \in log : e.nr < Cardinality(Same(more, e))
  <2> TAKE e \in log
  <2>1. e \in Claim /\ e.nr \in Nat
    BY <1>1 DEF Claim
  <2>2. e.nr < Cardinality(Same(log, e))
    BY <1>1
  <2>3. /\ Cardinality(Same(log, e)) \in Nat /\ Cardinality(Same(more, e)) \in Nat
        /\ Cardinality(Same(log, e)) <= Cardinality(Same(more, e))
    BY <1>3, <2>1
  <2> HIDE DEF Same, more
  <2> QED  BY <2>1, <2>2, <2>3
<1>8. \A e \in more : e.at <= now /\ e.nr < Cardinality(Same(more, e))
  <2>1. \A e \in more : e \in log \/ e = row
    OBVIOUS
  <2> HIDE DEF Same, more
  <2> QED  BY <1>1, <1>2, <1>6, <1>7, <2>1
<1> QED  BY <1>1, <1>2, <1>4, <1>5, <1>8 DEF ClaimsApart

\* The rows of the store in a window are the claims that were admitted in it.
LEMMA RowsAreClaims ==
    ASSUME ServiceIInv, QuotaInv, NEW from, NEW window \in 1..Day
    PROVE  /\ Rows(LiveEvents["report"], from, now, window)
                = {a \in admitted : a.source \in from /\ a.at \in (now - window + 1)..now}
           /\ LiveEvents["report"] \subseteq Claim /\ IsFiniteSet(LiveEvents["report"])
           /\ now \in Nat /\ \A e \in LiveEvents["report"] : e.at \in 0..now
<1>1. now \in Nat /\ MaxTime \in Nat /\ Day \in Nat
  BY Numbers, BoundsAssumption DEF ServiceIInv, ServiceShapes
<1>2. LiveEvents["report"] = {e \in events["report"] : e.at > now - Day}
  BY DEF QuotaInv, LiveEvents
<1>3. LiveEvents["report"] = {a \in admitted : a.at > now - Day}
  BY <1>2 DEF QuotaInv, Remembered
<1>4. ClaimsApart(LiveEvents["report"])
  BY <1>2, LiveApart DEF QuotaInv
<1>5. \A a \in admitted : a.at \in Nat /\ a.at <= now
  BY DEF QuotaInv, ClaimsApart, Claim
<1>6. Rows(LiveEvents["report"], from, now, window)
        = {a \in admitted : a.source \in from /\ a.at \in (now - window + 1)..now}
  BY <1>1, <1>3, <1>5 DEF Rows
<1>7. \A e \in LiveEvents["report"] : e.at \in 0..now
  BY <1>1, <1>3, <1>5
<1> QED  BY <1>1, <1>4, <1>6, <1>7 DEF ClaimsApart

\* What a sweep leaves is as good as what there was.
LEMMA SweptClaims ==
    ASSUME ServiceIInv, QuotaInv, now' = now, admitted' = admitted,
           events' = LiveEvents \/ events' = events
    PROVE  QuotaInv'
<1>1. CASE events' = events
  BY <1>1 DEF QuotaInv, ClaimsApart, Remembered, QuotaHeld, Between
<1>2. CASE events' = LiveEvents
  <2>1. DOMAIN events' = DOMAIN events
    BY <1>2 DEF LiveEvents
  <2>2. \A kind \in DOMAIN events : events'[kind] = {e \in events[kind] : e.at > now - Day}
    BY <1>2 DEF LiveEvents
  <2>3. \A kind \in DOMAIN events : ClaimsApart(events'[kind])
    BY <2>2, LiveApart DEF QuotaInv
  <2>4. \A kind \in DOMAIN events' : ClaimsApart(events[kind])'
    BY <2>1, <2>3 DEF ClaimsApart
  <2>5. Remembered'
    BY <2>2 DEF QuotaInv, Remembered
  <2>6. ClaimsApart(admitted)' /\ QuotaHeld'
    BY DEF QuotaInv, ClaimsApart, QuotaHeld, Between
  <2> QED  BY <2>1, <2>4, <2>5, <2>6 DEF QuotaInv
<1> QED  BY <1>1, <1>2

LEMMA TickClaims ==
    ASSUME ServiceIInv, QuotaInv, Tick
    PROVE  QuotaInv'
<1>1. now' = now + 1 /\ events' = events /\ admitted' = admitted /\ now \in Nat
  BY Numbers DEF Tick, store, ServiceIInv, ServiceShapes
<1>2. ASSUME NEW log, ClaimsApart(log) PROVE \A e \in log : e.at \in Nat /\ e.at <= now
  BY <1>2 DEF ClaimsApart, Claim
<1>3. ASSUME NEW log, ClaimsApart(log)
      PROVE  /\ log \subseteq Claim /\ IsFiniteSet(log)
             /\ \A e \in log : e.at <= now'
                  /\ e.nr < Cardinality({c \in log : c.source = e.source /\ c.at = e.at})
  BY <1>1, <1>2, <1>3 DEF ClaimsApart
<1>4. (\A kind \in DOMAIN events : ClaimsApart(events[kind]))' /\ ClaimsApart(admitted)'
  BY <1>1, <1>3 DEF ClaimsApart, QuotaInv
<1>5. Day \in Nat /\ \A a \in admitted : a.at \in Nat /\ a.at <= now
  BY <1>2, BoundsAssumption DEF QuotaInv
<1>6. \A e \in events["report"] : e.at \in Nat
  BY <1>2 DEF QuotaInv
<1>7. Remembered'
  <2>1. /\ \A x \in events["report"] : x.at > now - Day => x \in admitted
        /\ \A x \in admitted : x.at > now - Day => x \in events["report"]
    BY DEF QuotaInv, Remembered
  <2>2. /\ \A x \in events["report"] : x.at > now' - Day => x \in admitted
        /\ \A x \in admitted : x.at > now' - Day => x \in events["report"]
    BY <1>1, <1>5, <1>6, <2>1
  <2>3. {e \in events["report"] : e.at > now' - Day} = {a \in admitted : a.at > now' - Day}
    BY <2>2
  <2> QED  BY <1>1, <2>3 DEF Remembered
<1>8. QuotaHeld'
  <2>1. ASSUME NEW from, NEW window \in Nat \ {0}, NEW limit \in Nat,
               \A t \in 0..now : Between(from, t - window + 1, t) <= limit
        PROVE  \A t \in 0..(now + 1) : Between(from, t - window + 1, t) <= limit
    <3>1. PICK t : t = now + 1
      OBVIOUS
    <3>2. {a \in admitted : a.source \in from /\ a.at \in (t - window + 1)..t}
             \in SUBSET {a \in admitted : a.source \in from /\ a.at \in (now - window + 1)..now}
      BY <1>1, <1>5, <3>1
    <3>3. IsFiniteSet({a \in admitted : a.source \in from /\ a.at \in (now - window + 1)..now})
      BY FS_Subset DEF QuotaInv, ClaimsApart
    <3>4. Between(from, t - window + 1, t) <= Between(from, now - window + 1, now)
      BY <3>2, <3>3, FS_Subset DEF Between
    <3>5. Between(from, t - window + 1, t) \in Nat /\ Between(from, now - window + 1, now) \in Nat
      BY <3>2, <3>3, FS_Subset, FS_CardinalityType DEF Between
    <3>6. Between(from, now - window + 1, now) <= limit
      BY <1>1, <2>1
    <3>7. Between(from, t - window + 1, t) <= limit
      BY <3>4, <3>5, <3>6
    <3> QED  BY <1>1, <2>1, <3>1, <3>7
  <2>2. /\ Hour \in Nat \ {0} /\ Day \in Nat \ {0}
        /\ HourLimit \in Nat /\ DayLimit \in Nat /\ GlobalLimit \in Nat
    BY BoundsAssumption
  <2>3. \A t \in 0..(now + 1) : Between(Sources, t - Hour + 1, t) <= GlobalLimit
    BY <2>1, <2>2 DEF QuotaInv, QuotaHeld
  <2>4. \A s \in Sources, t \in 0..(now + 1) :
           Between({s}, t - Hour + 1, t) <= HourLimit /\ Between({s}, t - Day + 1, t) <= DayLimit
    <3> TAKE s \in Sources
    <3>1. \A t \in 0..(now + 1) : Between({s}, t - Hour + 1, t) <= HourLimit
      BY <2>1, <2>2 DEF QuotaInv, QuotaHeld
    <3>2. \A t \in 0..(now + 1) : Between({s}, t - Day + 1, t) <= DayLimit
      BY <2>1, <2>2 DEF QuotaInv, QuotaHeld
    <3> QED  BY <3>1, <3>2
  <2> QED  BY <1>1, <2>3, <2>4 DEF QuotaHeld, Between
<1> QED  BY <1>1, <1>4, <1>7, <1>8 DEF QuotaInv

LEMMA ChallengeClaims ==
    ASSUME ServiceIInv, QuotaInv, NEW h \in Handlers, NEW s \in Sources, NEW c,
           Challenge(h, s, c), now' = now, admitted' = admitted
    PROVE  QuotaInv'
<1>1. CASE events' = LiveEvents
  BY <1>1, SweptClaims
<1>2. CASE events' = [LiveEvents EXCEPT !["challenge"] = @ \union {NewRow(@, s)}]
  <2>1. now \in Nat
    BY Numbers DEF ServiceIInv, ServiceShapes
  <2>2. /\ DOMAIN events = {"challenge", "report"}
        /\ LiveEvents = [kind \in {"challenge", "report"} |-> {e \in events[kind] : e.at > now - Day}]
    BY DEF QuotaInv, LiveEvents
  <2>3. ClaimsApart(LiveEvents["challenge"]) /\ ClaimsApart(LiveEvents["report"])
    BY <2>2, LiveApart DEF QuotaInv
  <2>4. /\ DOMAIN events' = {"challenge", "report"}
        /\ events'["challenge"] = LiveEvents["challenge"] \union {NewRow(LiveEvents["challenge"], s)}
        /\ events'["report"] = LiveEvents["report"]
    BY <1>2, <2>2
  <2>5. ClaimsApart(events'["challenge"]) /\ ClaimsApart(events'["report"])
    BY <2>1, <2>3, <2>4, AddApart
  <2>6. (\A kind \in DOMAIN events : ClaimsApart(events[kind]))'
    BY <2>4, <2>5 DEF ClaimsApart
  <2>7. events'["report"] = {e \in events["report"] : e.at > now - Day}
    BY <2>2, <2>4
  <2>8. Remembered'
    BY <2>7 DEF QuotaInv, Remembered
  <2>9. ClaimsApart(admitted)' /\ QuotaHeld'
    BY DEF QuotaInv, ClaimsApart, QuotaHeld, Between
  <2> QED  BY <2>4, <2>6, <2>8, <2>9 DEF QuotaInv
<1> QED  BY <1>1, <1>2 DEF Challenge

\* An admission for which there is room in a window keeps its quota.
LEMMA RoomKept ==
    ASSUME now \in Nat, ClaimsApart(admitted), NEW from, NEW window \in Nat \ {0}, NEW limit \in Nat,
           NEW row, row.at = now, admitted' = admitted \union {row},
           \A t \in 0..now : Between(from, t - window + 1, t) <= limit,
           row.source \in from => Between(from, now - window + 1, now) < limit
    PROVE  \A t \in 0..now : Between(from, t - window + 1, t)' <= limit
<1> DEFINE In(all, t) == {a \in all : a.source \in from /\ a.at \in (t - window + 1)..t}
<1>1. \A t : Between(from, t - window + 1, t) = Cardinality(In(admitted, t))
  BY DEF Between
<1>2. \A t \in 0..now : Between(from, t - window + 1, t)' = Cardinality(In(admitted', t))
  BY DEF Between
<1>3. ASSUME NEW t \in 0..now
      PROVE  Cardinality(In(admitted', t)) <= limit
  <2>1. PICK S : S = In(admitted, t)
    OBVIOUS
  <2>2. S \in SUBSET admitted
    BY <2>1
  <2>3. IsFiniteSet(S) /\ Cardinality(S) \in Nat
    BY <2>2, FS_Subset, FS_CardinalityType DEF ClaimsApart
  <2>4. Cardinality(S) <= limit
    BY <1>1, <2>1
  <2>5. CASE In(admitted', t) = S
    BY <2>4, <2>5
  <2>6. CASE In(admitted', t) # S
    <3>1. In(admitted', t) = S \union {row} /\ t = now /\ row.source \in from
      BY <2>1, <2>6
    <3>2. Cardinality(S) < limit
      BY <1>1, <2>1, <3>1
    <3> HIDE DEF In
    <3>3. Cardinality(S \union {row}) = IF row \in S THEN Cardinality(S) ELSE Cardinality(S) + 1
      BY <2>3, FS_AddElement
    <3>4. Cardinality(S \union {row}) <= limit
      BY <2>3, <2>4, <3>2, <3>3
    <3> QED  BY <3>1, <3>4
  <2> QED  BY <2>5, <2>6
<1> HIDE DEF In
<1> QED  BY <1>2, <1>3

LEMMA AdmitClaims ==
    ASSUME ServiceIInv, QuotaInv, NEW h \in Handlers, AdmitFeedbackDelivery(h)
    PROVE  QuotaInv'
<1> DEFINE source == handlers[h].source
           log == LiveEvents["report"]
<1>1. now' = now
  BY DEF AdmitFeedbackDelivery
<1>2. CASE events' = LiveEvents /\ admitted' = admitted
  BY <1>1, <1>2, SweptClaims
<1>3. CASE /\ events' = [LiveEvents EXCEPT !["report"] = @ \union {NewRow(@, source)}]
           /\ admitted' = admitted \union {NewRow(admitted, source)}
           /\ ReportRetry(log, source, now) = 0
  <2>1. /\ now \in Nat /\ source \in Sources \union {"none"}
        /\ Hour \in 1..Day /\ Day \in 1..Day /\ Hour \in Nat \ {0} /\ Day \in Nat \ {0}
        /\ HourLimit \in Nat /\ DayLimit \in Nat /\ GlobalLimit \in Nat
    <3>1. now \in Nat /\ handlers[h] \in Handling
      BY Numbers DEF ServiceIInv, ServiceShapes
    <3>2. handlers[h].source \in Sources \union {"none"}
      BY <3>1 DEF Handling
    <3> QED  BY <3>1, <3>2, BoundsAssumption
  <2>2. /\ DOMAIN events = {"challenge", "report"}
        /\ LiveEvents = [kind \in {"challenge", "report"} |-> {e \in events[kind] : e.at > now - Day}]
    BY DEF QuotaInv, LiveEvents
  <2>3. ClaimsApart(LiveEvents["challenge"]) /\ ClaimsApart(log) /\ ClaimsApart(admitted)
    BY <2>2, LiveApart DEF QuotaInv
  <2>4. log = {e \in events["report"] : e.at > now - Day} /\ log = {a \in admitted : a.at > now - Day}
    BY <2>2 DEF QuotaInv, Remembered
  <2>5. {e \in log : e.source = source /\ e.at = now} = {a \in admitted : a.source = source /\ a.at = now}
    BY <2>1, <2>4
  <2>6. PICK row : row = NewRow(log, source) /\ row = NewRow(admitted, source)
    BY <2>5 DEF NewRow
  <2>7. row.source = source /\ row.at = now /\ ClaimsApart(log \union {row}) /\ ClaimsApart(admitted \union {row})
    <3> HIDE DEF log, source
    <3>1. PICK rows : rows = log
      OBVIOUS
    <3>2. ClaimsApart(rows) /\ row = NewRow(rows, source)
      BY <2>3, <2>6, <3>1
    <3>3. row.source = source /\ row.at = now /\ ClaimsApart(rows \union {row})
      BY <2>1, <3>2, AddApart
    <3>4. ClaimsApart(admitted \union {row})
      BY <2>1, <2>3, <2>6, AddApart
    <3> QED  BY <3>1, <3>3, <3>4
  <2>8. /\ DOMAIN events' = {"challenge", "report"} /\ events'["challenge"] = LiveEvents["challenge"]
        /\ events'["report"] = log \union {row} /\ admitted' = admitted \union {row}
    BY <1>3, <2>2, <2>6
  <2>9. (\A kind \in DOMAIN events : ClaimsApart(events[kind]))' /\ ClaimsApart(admitted)'
    BY <1>1, <2>3, <2>7, <2>8 DEF ClaimsApart
  <2>10. Remembered'
    <3>1. {e \in log \union {row} : e.at > now - Day} = {a \in admitted \union {row} : a.at > now - Day}
      BY <2>4
    <3> QED  BY <1>1, <2>8, <3>1 DEF Remembered
  <2>11. /\ Cardinality(Rows(log, {source}, now, Hour)) < HourLimit
         /\ Cardinality(Rows(log, {source}, now, Day)) < DayLimit
         /\ Cardinality(Rows(log, Sources, now, Hour)) < GlobalLimit
    <3>1. IsFiniteSet(log) /\ \A e \in log : e.at \in 0..now
      BY <2>1, RowsAreClaims
    <3>2. PICK rows, time : rows = log /\ time = now
      OBVIOUS
    <3>3. Prompt(rows, source, time)
      BY <2>1, <3>1, <3>2, ReportHolds
    <3> QED  BY <1>3, <3>2, <3>3 DEF Prompt
  <2>12. /\ Between({source}, now - Hour + 1, now) < HourLimit
         /\ Between({source}, now - Day + 1, now) < DayLimit
         /\ Between(Sources, now - Hour + 1, now) < GlobalLimit
    BY <2>1, <2>11, RowsAreClaims DEF Between
  <2>13. \A t \in 0..now : Between(Sources, t - Hour + 1, t)' <= GlobalLimit
    BY <2>1, <2>3, <2>7, <2>8, <2>12, RoomKept DEF QuotaInv, QuotaHeld
  <2>14. ASSUME NEW s \in Sources
         PROVE  \A t \in 0..now : /\ Between({s}, t - Hour + 1, t)' <= HourLimit
                                  /\ Between({s}, t - Day + 1, t)' <= DayLimit
    <3>1. row.source \in {s} => {s} = {source}
      BY <2>7
    <3>2. \A t \in 0..now : Between({s}, t - Hour + 1, t)' <= HourLimit
      BY <2>1, <2>3, <2>7, <2>8, <2>12, <3>1, RoomKept DEF QuotaInv, QuotaHeld
    <3>3. \A t \in 0..now : Between({s}, t - Day + 1, t)' <= DayLimit
      BY <2>1, <2>3, <2>7, <2>8, <2>12, <3>1, RoomKept DEF QuotaInv, QuotaHeld
    <3> QED  BY <3>2, <3>3
  <2>15. QuotaHeld'
    BY <1>1, <2>13, <2>14 DEF QuotaHeld
  <2> QED  BY <2>8, <2>9, <2>10, <2>15 DEF QuotaInv
<1> QED  BY <1>2, <1>3 DEF AdmitFeedbackDelivery

LEMMA QuotaKeeps == ServiceIInv /\ QuotaInv /\ [ServiceNext]_serviceVars => QuotaInv'
<1> SUFFICES ASSUME ServiceIInv, QuotaInv, [ServiceNext]_serviceVars PROVE QuotaInv'
  OBVIOUS
<1>1. ASSUME now' = now, admitted' = admitted, events' = LiveEvents \/ events' = events PROVE QuotaInv'
  BY <1>1, SweptClaims
<1>2. ASSUME NEW h \in Handlers, HandlerStep(h) \/ Land(h) PROVE QuotaInv'
  <2>1. CASE AdmitFeedbackDelivery(h)
    BY <2>1, AdmitClaims
  <2>2. CASE SourceChanged(h) \/ CachedReady(h) \/ CachedUnready(h) \/ StartCheck(h)
             \/ (\E ok \in BOOLEAN : EndCheck(h, ok))
    BY <1>1, <2>2 DEF SourceChanged, CachedReady, CachedUnready, StartCheck, EndCheck, store
  <2>3. CASE Created(h) \/ Rejected(h) \/ Uncertain(h) \/ Land(h)
    BY <1>1, <2>3 DEF Created, Rejected, Uncertain, Land, store
  <2>4. CASE KeepContact(h) \/ MarkDelivered(h) \/ MarkFailed(h)
    BY <1>1, <2>4 DEF KeepContact, StoreContact, MarkDelivered, MarkFailed, Settle, store
  <2> QED  BY <1>2, <2>1, <2>2, <2>3, <2>4 DEF HandlerStep
<1>3. ASSUME NEW h \in Handlers, NEW s \in Sources, Send(h, s) \/ \E c \in Contents : ForeignSend(h, s, c)
      PROVE  QuotaInv'
  BY <1>3, ChallengeClaims DEF Send, ForeignSend
<1>4. ASSUME NEW r \in Requests, ScanStep(r) \/ ResolveDestination(r) \/ MarkAbsent(r) PROVE QuotaInv'
  <2>1. CASE ReconcilePending(r) \/ IssuePageFails(r) \/ DiscussionPageFails(r)
    BY <1>1, <2>1 DEF ReconcilePending, IssuePageFails, DiscussionPageFails, PageFails, store
  <2>2. CASE ScanContact(r) \/ ScanDelivered(r)
    BY <1>1, <2>2 DEF ScanContact, ScanDelivered, StoreContact, store
  <2>3. CASE ResolveDestination(r) \/ MarkAbsent(r)
    BY <1>1, <2>3 DEF ResolveDestination, MarkAbsent, store
  <2> QED  BY <1>4, <2>1, <2>2, <2>3 DEF ScanStep
<1>5. ASSUME NEW c \in Contents, Edit(c) PROVE QuotaInv'
  BY <1>1, <1>5 DEF Edit, store
<1>6. ASSUME NEW w \in late, LandLate(w) PROVE QuotaInv'
  BY <1>1, <1>6 DEF LandLate, store
<1>7. CASE StartCheck(Probe) \/ ProbeEnds \/ CacheExpires \/ UNCHANGED serviceVars
  BY <1>1, <1>7 DEF StartCheck, ProbeEnds, EndCheck, CacheExpires, serviceVars, store
<1>8. CASE Expire \/ Restart
  BY <1>1, <1>8 DEF Expire, Restart
<1>9. CASE Tick
  BY <1>9, TickClaims
<1> QED  BY <1>2, <1>3, <1>4, <1>5, <1>6, <1>7, <1>8, <1>9 DEF ServiceNext

LEMMA QuotaStarts == ServiceInit => QuotaInv
<1> SUFFICES ASSUME ServiceInit PROVE QuotaInv
  OBVIOUS
<1>1. now = 0 /\ admitted = {} /\ events = [kind \in {"challenge", "report"} |-> {}]
  BY DEF ServiceInit
<1>2. ClaimsApart({})
  BY FS_EmptySet DEF ClaimsApart
<1>3. \A from, first, last : Between(from, first, last) = 0
  <2> TAKE from, first, last
  <2>1. {a \in admitted : a.source \in from /\ a.at \in first..last} = {}
    BY <1>1
  <2> QED  BY <2>1, FS_EmptySet DEF Between
<1>4. QuotaHeld
  <2>1. 0 <= GlobalLimit /\ 0 <= HourLimit /\ 0 <= DayLimit
    BY BoundsAssumption
  <2> QED  BY <1>3, <2>1 DEF QuotaHeld
<1> QED  BY <1>1, <1>2, <1>4 DEF QuotaInv, Remembered

LEMMA RetriesExact == ServiceIInv /\ QuotaInv => RetryExact
<1> SUFFICES ASSUME ServiceIInv, QuotaInv, NEW s \in Sources,
                    NEW retry, retry = ReportRetry(events["report"], s, now), retry # 0
             PROVE  /\ retry > now
                    /\ ReportRetry(events["report"], s, retry) = 0
                    /\ \A t \in now..(retry - 1) : ReportRetry(events["report"], s, t) # 0
  BY DEF RetryExact
<1>1. now \in Nat
  BY Numbers DEF ServiceIInv, ServiceShapes
<1>2. PICK log, time : log = events["report"] /\ time = now
  OBVIOUS
<1>3. time \in Nat /\ IsFiniteSet(log) /\ \A e \in log : e.at \in 0..time
  <2>1. ClaimsApart(log)
    BY <1>2 DEF QuotaInv
  <2>2. log \subseteq Claim /\ IsFiniteSet(log) /\ \A e \in log : e.at <= time
    BY <1>2, <2>1 DEF ClaimsApart
  <2>3. \A e \in log : e.at \in Nat
    BY <2>2 DEF Claim
  <2> QED  BY <1>1, <1>2, <2>2, <2>3
<1>4. retry = ReportRetry(log, s, time)
  BY <1>2
<1>5. Prompt(log, s, time)
  BY <1>3, ReportHolds
<1>6. /\ retry > time
      /\ ReportRetry(log, s, retry) = 0
      /\ \A t \in time..(retry - 1) : ReportRetry(log, s, t) # 0
  BY <1>4, <1>5 DEF Prompt
<1> QED  BY <1>2, <1>6

\* The reply to a throttled client and the quotas rest on the same rows: what the
\* store forgot is in no window any more, and no two claims share a row.
THEOREM ClaimsCounted == ServiceSpec => []QuotaInv
<1>1. ServiceInit => QuotaInv
  BY QuotaStarts
<1>2. ServiceIInv /\ QuotaInv /\ [ServiceNext]_serviceVars => QuotaInv'
  BY QuotaKeeps
<1> QED  BY <1>1, <1>2, ServiceInvariant, PTL DEF ServiceSpec

\* In no window are more reports admitted than the quotas allow, and a client that
\* waits until retry_at, and no shorter, finds room (_retry_for_window,
\* _claim_report_quota_in_transaction).
THEOREM QuotasHold == ServiceSpec => []QuotaExact
<1>1. ServiceIInv /\ QuotaInv => QuotaExact
  BY RetriesExact DEF QuotaInv, QuotaExact
<1> QED  BY <1>1, ServiceInvariant, ClaimsCounted, PTL

=============================================================================
