---------------------------- MODULE ExportProcess ----------------------------
(***************************************************************************)
(* One run of DiscordChatExporter and Ferry's reading of it                *)
(* (exporter/runner.py): the child writes a file per channel and media     *)
(* beside them, prints its progress on stdout and, at its end, the         *)
(* channels it could not export on stderr.  Both pipes are read at the     *)
(* same time, and a cancel ends the child.                                 *)
(***************************************************************************)
EXTENDS Naturals, FiniteSets, FiniteSetsExt, Sequences

CONSTANTS
    Source,      \* channels and threads
    MaxStages    \* the export folders a behaviour can make

NoNumber == 0

VARIABLES
    live,      \* the channels that exist on Discord
    posts,     \* the channel of every message, in the order of the ids
    dirs,      \* the export folders; 0 is config.export_dir
    child,     \* "none", "starting", "alive", "exited" or "failed"
    request,   \* what the child was asked
    pending,   \* the channels it has still to export
    failing,   \* those it could not
    stderr,    \* its failure lines not read yet
    had,       \* export_had_channel_failures
    progress   \* _RunState: [done, total, final]

discord == <<live, posts>>
childVars == <<child, request, pending, failing, stderr, had, progress>>
processVars == <<discord, dirs, childVars>>

Message == DOMAIN posts
Of(s) == {n \in Message : posts[n] = s}

\* torn: files cut off in the middle; media: "none", "partial" or "whole";
\* lost: the channels its last export could not read; known: the messages there
\* were when that export began (both history).
Gone == [made |-> FALSE, files |-> {}, posts |-> {}, torn |-> {}, media |-> "none", lost |-> {},
         known |-> 0]
NoRequest == [dir |-> 0, after |-> 0, reuse |-> FALSE, tainted |-> FALSE]
NoProgress == [done |-> {}, total |-> NoNumber, final |-> <<>>]

ProcessInit ==
    /\ dirs = [d \in 0..MaxStages |-> Gone]
    /\ child = "none" /\ request = NoRequest /\ pending = {} /\ failing = {}
    /\ stderr = {} /\ had = FALSE /\ progress = NoProgress

Running == child \in {"starting", "alive"}

\* _build_dce_command; tainted: told to keep media of which some was never
\* finished (history).
Command(d, after, reuse) ==
    [dir |-> d, after |-> after, reuse |-> reuse,
     tainted |-> reuse /\ dirs[d].media = "partial"]

\* run_dce_export starts the child.
Spawn(d, after, reuse) ==
    /\ child' = "starting"
    /\ request' = Command(d, after, reuse)
    /\ pending' = {} /\ failing' = {} /\ stderr' = {} /\ had' = FALSE
    /\ progress' = NoProgress

\* _emit_for_parsed, "Exporting N channel(s)...": only the first one counts.
HeaderEach(n) == [progress EXCEPT !.total = n]
Header(n) == [progress EXCEPT !.total = IF @ = NoNumber THEN n ELSE @]

\* The channels there are now; with --reuse-media only missing media is written.
Enumerate ==
    /\ child = "starting"
    /\ child' = "alive"
    /\ pending' = live
    /\ progress' = Header(Cardinality(live))
    /\ dirs' = [dirs EXCEPT ![request.dir].media = "partial", ![request.dir].lost = {},
                             ![request.dir].known = Len(posts)]
    /\ UNCHANGED <<discord, request, failing, stderr, had>>

\* _progress_counts
ProgressCounts(p) ==
    IF p.final # <<>> THEN p.final ELSE <<Cardinality(p.done), p.total>>

\* _emit_for_parsed, a channel at 100 %
PerChannel(s) == [progress EXCEPT !.done = @ \union {s}]

\* _emit_for_parsed, "Successfully exported N channel(s)."
Success(n) ==
    [progress EXCEPT !.final = <<n, Max({n, progress.total})>>]

\* A channel without messages in range has a file, or none.
DceExports(s) ==
    LET found == {n \in Of(s) : n > request.after} IN
    /\ child = "alive" /\ s \in pending \intersect live
    /\ pending' = pending \ {s}
    /\ progress' = PerChannel(s)
    /\ \E written \in IF found = {} THEN BOOLEAN ELSE {TRUE} :
          dirs' = IF written
                  THEN [dirs EXCEPT ![request.dir].files = @ \union {s},
                                    ![request.dir].torn = @ \ {s},
                                    ![request.dir].posts = (@ \ Of(s)) \union found]
                  ELSE dirs
    /\ UNCHANGED <<discord, child, request, failing, stderr, had>>

\* DCE's own retry: 100 % shown, and the channel is begun again.
DceRetries(s) ==
    /\ child = "alive" /\ s \in pending /\ s \notin progress.done
    /\ progress' = PerChannel(s)
    /\ UNCHANGED <<discord, dirs, child, request, pending, failing, stderr, had>>

\* Its retry of the rest comes with a headline of its own.
DceAnnounces ==
    /\ child = "alive" /\ pending # {}
    /\ progress' = Header(Cardinality(pending))
    /\ UNCHANGED <<discord, dirs, child, request, pending, failing, stderr, had>>

\* It gives the channel up; the file may be cut off.
DceFails(s) ==
    /\ child = "alive" /\ s \in pending
    /\ pending' = pending \ {s}
    /\ failing' = failing \union {s}
    /\ \E cut \in SUBSET {s} :
          dirs' = [dirs EXCEPT ![request.dir].torn = @ \union cut,
                               ![request.dir].files = @ \union cut,
                               ![request.dir].lost = @ \union {s}]
    /\ UNCHANGED <<discord, child, request, stderr, had, progress>>

\* The child ends by itself: what it failed on goes to stderr.
DceExits ==
    /\ child = "alive" /\ pending = {}
    /\ child' = "exited"
    /\ stderr' = failing
    /\ progress' = Success(Cardinality(progress.done \ failing))
    /\ dirs' = [dirs EXCEPT ![request.dir].media =
                    IF failing # {} \/ request.tainted THEN "partial" ELSE "whole"]
    /\ UNCHANGED <<discord, request, pending, failing, had>>

\* What a child that dies in the middle leaves.
Cut ==
    \E torn \in {t \in SUBSET pending : Cardinality(t) <= 1} :
        dirs' = [dirs EXCEPT ![request.dir].torn = @ \union torn,
                             ![request.dir].files = @ \union torn,
                             ![request.dir].lost = @ \union pending]

\* A nonzero exit code.
DceBreaks ==
    /\ Running
    /\ child' = "failed"
    /\ Cut
    /\ UNCHANGED <<discord, request, pending, failing, stderr, had, progress>>

\* _read_stderr and record_export_event: one failure line.
ReadWhileAlive(s) ==
    /\ s \in stderr /\ Running
    /\ stderr' = stderr \ {s}
    /\ had' = TRUE
    /\ UNCHANGED <<discord, dirs, child, request, pending, failing, progress>>
ReadStderr(s) ==
    /\ s \in stderr
    /\ stderr' = stderr \ {s}
    /\ had' = TRUE
    /\ UNCHANGED <<discord, dirs, child, request, pending, failing, progress>>

\* After process.wait() the rest of stderr is read before anything is decided.
NotDrained == child = "exited"
Drained == child = "exited" /\ stderr = {}

\* The child is gone and its pipes with it; what was recorded stays.
ReapedButPipe ==
    /\ child' = "none" /\ request' = NoRequest /\ pending' = {} /\ failing' = {}
    /\ progress' = NoProgress /\ UNCHANGED stderr
Reaped ==
    /\ child' = "none" /\ request' = NoRequest /\ pending' = {} /\ failing' = {}
    /\ stderr' = {} /\ progress' = NoProgress

\* _terminate_process, also when it just ended by itself.
LeftRunning ==
    /\ UNCHANGED <<dirs, child, request, pending, failing, stderr, progress>>
    /\ had' = FALSE
Terminate ==
    /\ IF Running THEN Cut ELSE UNCHANGED dirs
    /\ Reaped
    /\ had' = FALSE
=============================================================================
