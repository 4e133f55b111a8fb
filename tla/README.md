# Discord Ferry in TLA+

Discord Ferry (`src/src/discord_ferry`) reads the export of a Discord server and
rebuilds it on a Stoat server: roles, channels, emoji, messages, threads, pins
and reactions. A migration runs for hours, is cancelled, crashes and is resumed;
requests are throttled, refused and lost, and Stoat has no transaction that
would undo a message sent twice. These modules model the parts of the program
whose correctness depends on the order in which such things happen.

Paths below are relative to `src/src/discord_ferry`.

## 1. The system

### Inventory

| Part | Source | State it keeps | Operations | What makes it correct |
|---|---|---|---|---|
| Phase engine | `core/engine.py` `run_migration`, `_run_phases` | `current_phase`, the loaded `MigrationState`, the cancel event | load for fresh, `--resume`, `--incremental`; run the phases in order; save on cancellation and errors | a phase is skipped only if it is over; every exit leaves a state a later run can continue |
| Migration lock | `core/engine.py` `_acquire_migration_lock`, `_release_migration_lock` | a marker in the server's description | acquire, take over a stale one, release | two live runs do not both hold it; a release removes one's own |
| Messages phase | `migrator/messages.py` `run_messages`, `_process_single_channel` | `channel_high_water`, `channel_message_offsets`, `completed_channel_ids`, `failed_messages`, counts; one `ChannelResult` per worker | start a worker per channel, skip, send, checkpoint, merge, complete, cancel | nothing twice, nothing lost silently, counted once |
| Thread merging | `migrator/messages.py` `_merge_threads`, `_process_merged_message` | the same markers, per thread | separator, messages, checkpoint, completion | one separator, origin message left out |
| Delivery | `migrator/delivery.py` `deliver_part`; `state.py` receipts | a receipt per message, a status and key per part | prepare, mark uncertain, send, acknowledge, reject, look up, retire | at most one copy of each part; recorded outcomes are true |
| Request layer | `migrator/api.py` `_api_request`, `_api_request_inner` | semaphore, circuit breaker, pacer of each bucket, rate multiplier | acquire, pace, send, retry, back off, wait for slowmode, recover | bounded requests, no starvation, only refused sends are repeated |
| State store | `state.py` `save_state`, `load_state`; `core/atomicio.py` | `state.json`, `message_map.json`, receipt files, `.tmp` and backups | replace atomically in a fixed order, retire receipts last, load | a crash anywhere in a save leaves a usable directory |
| Retry of failures | `core/engine.py` `_run_retry_failed` | `failed_messages` | select, re-deliver, remove from the list | a failure leaves the list only when delivered |
| Repair, forum indexes | `core/engine.py` `_resend_channel`, repair tail; `migrator/verify.py` | replacement bindings, generations | verify, clear, resend, prune | a replacement ends with one copy |
| Rollback | `core/engine.py` `run_rollback` | `rollback_progress` | delete channels in parallel, roles and emoji in series, clear categories | only what Ferry created is deleted, each with a record |
| Pins, reactions | `migrator/pins.py`, `migrator/reactions.py` | pending queues | drain with checkpoints | an entry leaves the queue only when applied or given up |
| Structure | `migrator/structure.py`, `emoji.py`, `avatars.py`, `connect.py` | channel, role, category, emoji maps | create, adopt, reorder, set permissions | a resumed phase does not create a second resource |
| Permission runtime | `core/permissions.py` | a live view of what the account may do, effects of the run | require, note a write, settle it, invalidate | stale evidence authorises nothing |
| Uploads | `uploader/autumn.py` | upload cache | upload, reuse | an identifier is reused only for the same file |
| Exporter, staging | `exporter/runner.py`, `manager.py`, `staging.py` | a subprocess, staged folders, a witness file | run, accept, prune | the accepted export is always on disk |
| Feedback service | `feedback_service/` | a durable queue of reports | accept, file on GitHub, reconcile | a report becomes one issue |
| User interfaces | `cli.py`, `gui.py`, `gui_tools.py`, `gui_native.py` | the running task and its cancel event | start, cancel, show progress | one run at a time |
| Parser, transforms | `parser/` | none | convert an export | pure text |
| Reports, statistics | `reporter.py`, `stats.py`, `review.py` | none | read and print | sequential |

### How the parts interact

The engine loads the saved state, takes the advisory lock and runs the phases
as coroutines of one event loop. In the messages phase `run_messages` starts one
task per channel, at most `max_concurrent_channels` at a time; each sends its
messages in the order of the export through `deliver_part`, which saves a
receipt before a request leaves and hands the request to `_api_request`. The
tasks share one `MigrationState`, one aiohttp session, one request semaphore, one
circuit breaker and the pacers. What a task has done collects in its
`ChannelResult` and is merged into the shared state at a checkpoint, which saves
the whole of it. The retry, repair and rollback commands start from the same
saved state, in processes of their own.

### What is hard about it

* **Doubtful outcomes.** A request that timed out may have been executed, may be
  executed later, or never. Stoat's idempotency keys help only while Stoat
  remembers them. The receipt, the lookup in the destination's history and the
  rule for a new key decide what happens next.
* **Crashes inside a save.** `state.json` is replaced first, and the receipts of
  what it now covers are unlinked afterwards, one file at a time.
* **Two markers of progress.** `channel_high_water` lasts, `channel_message_offsets`
  goes when a channel completes, and `--resume` and `--incremental` read
  different ones.
* **Workers that share a state.** One worker's checkpoint saves what others are
  in the middle of.
* **Retries below the position.** `--incremental` sends recorded failures again,
  below the threshold that skips everything else.
* **Cancellation** at any `await`, also inside a recovery.
* **Semaphore slots** held over waits, and recoveries that need slots themselves.

`PROJECT.json` lists each of these at its line, with the properties that would
catch it going wrong.

## 2. Modules

| Module | Contents |
|---|---|
| `AtMostOnce` | What delivery promises: a slot is filled at most once, and a verdict is final and true |
| `Delivery` | `deliver_part`, receipts, the dispositions of a send, Stoat with its idempotency cache, crashes |
| `ApiRequest` | One request from semaphore to result, with the breaker and a bucket |
| `MessagesPhase` | The concurrent workers of the messages phase, checkpoints, saves, successive runs |
| `MergeThreads` | The merge strategy's sequential task, over several runs |
| `Migration` | A whole migration phase by phase: structure, emoji, avatars, messages in one step each, reactions, pins; ends of every kind and the runs that follow |
| `ServerLock` | The advisory lock in the server's description, with two programs |
| `Rollback` | `run_rollback`; extends `ServerLock`, so that a rollback competes with a migration |
| `Repair` | `run_check` and `run_repair`: what people deleted is made again, the retry of failures at its end |
| `PermissionRuntime` | What the account is known to be allowed, the notes and settlements of writes, the proofs of channels |
| `PermissionBits` | The calculation of one permission bit: predicates, synthesis of overrides, readback |
| `FeedbackService` | Drafts, challenges, admission, quotas, GitHub writes, reconciliation, operator, restart |
| `DceInstall`, `ExportProcess`, `Export` | Installing the exporter; one run of it with its pipes; the export phase over several runs, which extends both |
| `…Props` | The properties of the module, grouped at the end |
| `SendingProofs` (of `Delivery` and `ApiRequest`), `MessagesProofs`, `MergeProofs`, `MigrationProofs`, `RollbackProofs`, `RepairProofs`, `PermissionProofs` (of both permission modules), `ExportFeedbackProofs` (of `Export` and `FeedbackService`) | Theorems |
| `MC…` | Instances for TLC, where an instance needs definitions; the `api_requests`, `rollback` and `feedback` runs check the `…Props` module itself |

The modules are layered. `Rollback` and `Export` compose the modules they extend into
one state space; the others meet at an interface that both sides state. `Delivery` treats a
send as a request with one of the dispositions that `_api_request` returns;
`ApiRequest` models how that disposition comes about and shows that a send leaves
again only after a refusal, which is what `Delivery` lets it do. `MessagesPhase`,
`MergeThreads` and `Repair` treat an item's receipt as one of a few statuses whose changes are those
that `Delivery` allows. `Migration` sends a message in one step, which is what a
worker of `MessagesPhase` amounts to for the phases around it. `PermissionRuntime` takes a fact to be right or
not right, and `PermissionBits` says what right means.

An operator that a comment calls a "Mistake" is a plausible error in the
definition beside it. No specification uses it; each property of a passing run is
violated when one of them takes that definition's place, which shows that the
property constrains the code (`PROJECT.json`, "mutants").

A property of a run may be a conjunction of named parts, defined at the end of the
`…Props` module. The parts are what is meant; each has a mistake that breaks it.

### Delivery

`receipts[r]` is the receipt file of message `r`: its render and, for each part,
the status (`prepared`, `uncertain`, `acknowledged`, `confirmed_rejected`), the
attempt its key is made from and the identifier Stoat answered with. `fresh` is
`_fresh_parts`, the keys this session may still dispatch. `ledger` is what `state.json` says of the message. `wire`, `history`,
`recent` and `nextId` are Stoat: requests that may still be executed, messages,
remembered keys, the next identifier. `call[r]` is the frame of the coroutine that delivers `r`: its
render, the part, the stage between two awaits and the answer.

Each action is the code between two awaits. The status of a part is saved as
`uncertain` before the request leaves, so dispatch and send are two actions with a
possible crash between them. Stoat executes, refuses, delays or loses a request
in actions of its own; a timed-out request stays on the wire and may be executed
at any later time, after a lookup that found nothing too. `StoatForgets` drops a key from
Stoat's cache. `Stop` is a crash, a cancellation or a permission stop: it drops the calls and `fresh`
and leaves receipts, ledger and Stoat.

Left out: receipts of older versions (`legacy_keys`), recovery without sending
(`recover_only`, for forum indexes), `verify_uploads`. The lookup reads the history in one step. A wait that is
cancelled during slowmode leaves its part uncertain although nothing was created:
safe, and in the model.

### Request layer

`call[r]` is the coroutine of one request: its stage, attempt, whether it holds
a slot, the bucket state it has charged. `failures` is the circuit breaker's
counter and `bucket` the pacer's shared state: a report's number, the requests it
left, how many calls have charged it. `faults` counts what the service really did
wrong and exists for the properties. A message send takes a slot for each attempt
and gives it back before a recovery, other calls keep one for all their
attempts, as in the code. Left out: lengths of time, the adaptive rate
multiplier (it only changes them), more than one bucket, the pages of a lookup.

### Messages phase

`exported[c]` messages are in channel `c`'s export, item 0 is a thread's header.
`disk` is `state.json` and `mem` the run's `MigrationState`; both are records of the fields
the phase reads and writes. `worker[c]` is the channel's task and `result[c]` its
`ChannelResult`. `scenario` says in which modes the runs of a behaviour come (fresh, `--resume`,
`--incremental`), how often they may be interrupted and how long the channels are; it is
chosen once, by `Init`. A run may be cancelled, a worker may stop on a lost permission, and a run
may die anywhere: between two awaits, after `state.json` is replaced and before the
receipts are unlinked, or with any subset of them unlinked. Between runs the
export may grow. What is not in the two records is lost with the process.

`exposed` is a history variable: the messages below which a run starts although
they were sent. The code has two such gaps, each an operator: `Forgotten` (an
interrupted `--incremental` run continued with `--resume`) and `PassedBack` (the offset a
retry moved back). `NoDuplicate` excludes these messages and nothing else, so it
says that there is no third gap, in any order of the modes. Section 6 names the gaps.

### Thread merging

One task works through the threads in order, directly on `mem`. A receipt consumed into the
state is listed in `delivery_ready` with the digest of its file, and a save retires it only if the
file still has that digest: `revision` numbers the digests (a retry rewrites the receipt), `ready` holds
pairs of an item and a revision. `mapped` is the
set of messages that `message_map` already has, because a thread begins with a
message of the parent channel. It is fixed for a behaviour; origin messages whose own delivery failed
and is retried later are not modelled. `scenario` and `exposed` are as above, with a third gap:
`Uncovered`, messages that a stop records as consumed before the offset covers them.

### A whole migration

The service numbers the copies of a resource: `made[i]` of them exist and the record names one, so
that a resource created twice is a copy no record names. `dressed` holds the copies that
carry their permissions, `layout` the server's list of categories, `applied` the
reactions, pins and other follow-ups in effect. `phase`, `next`, `stage`, `hand` and `todo`
are the position of `_run_phases` and of the phase in progress. Every phase has its
loop with its own saves: a role is created, recorded and saved, styled and granted
in a pass of its own, and only then on record as finalized; a channel is created, saved, dressed, placed.
A run ends by finishing, by a failed phase, a permission stop, a cancellation
between steps, a Ctrl+C inside an await (which the engine swallows, section 6) or the
death of the process. A partial export (`seen`) may lack channels that the record has.

`cutShort` is a history variable: the phase in `state.json` says more than is done, because a Ctrl+C let the run report early,
or because an incremental run died before its first save and left the phase of the run before it, which may have had another export
(`Unsaved`; a run that exports itself saves the phase it starts from, engine.py:881, and is not exposed). `PastChannels` excepts such
records and nothing else, until a run has saved its own first phase.

Assumed of the service and the export: roles, channels, the server, emoji and avatars have identifiers of their own.

Left out: names, colours, icons, the blueprint commands (`run_build`), orphan detection, the
invite, `export_checkpoint`. An index of a recreated category stays outside it in the code; the repair module has it.

### Server lock and rollback

`desc` is the description as the sequence of the markers in it; reading, computing and
writing are two steps, because that is what the two awaits of
`_acquire_migration_lock` allow. `aged` are the markers the code would call stale.
`force` is `--force-unlock`. A write may fail, or take effect and report a failure; a program may
die. The server phase of a migration rewrites the description from a text it read earlier.
`unsure` and `left` are history variables for the two exclusions the code cannot avoid.

A rollback works through `part`: start, the confirmation gate, channels in parallel
(at most `MaxConcurrentRequests` in flight), roles, emoji, categories with their PATCH, finish.
`disk` and `mem` are `rollback_progress`. `cancel` is the cancel event; it is looked at where
the code does. Categories that change between the fetch and the PATCH are
documented (docs/guides/known-limitations.md:138) and left out. The identifiers of channels,
roles, emoji and categories are assumed distinct, since the record is one set for all of them.

### Repair

`made` and `alive` number copies as above. `posts` are messages with the copy of their channel and of
the emoji they show, `receipts` what a delivery's receipt remembers, `uuid` the generations drawn for
replacements. People delete anything between repairs (at most `MaxLosses` things).
`jobs` is what the check found; one `job` at a time goes through `step`: classify, prepare,
make, dress, patch the lists, clear the old deliveries, replace, send, close. The retry of recorded failures
is the last step before `finish`. Left out: hidden channels (the repair stops at its
preflight), thread headers, merged threads, duplicate indexes, the dry run, people who
edit while a repair runs.

### Permissions

`PermissionRuntime`: `off` and `wrong` are the facts of the server and of channels that are
not as the plan has them, `print` is the number of changes of the bindings (the
fingerprint), `authority[c]` the fingerprint under which channel `c` was verified. `at` is
where each coroutine waits. A read is bracketed by two fetches of the server; other people change facts
at any time, at most `MaxIntrusions` times. Two fetches cannot see a layout that goes wrong and is put right between
them: the history variable `restored` marks such a read, and only such a read is excepted from `ContentUnderProof`. Jobs come in any order that has the roles
first, because migration, repair and backfill call the writers in different
orders; then a worker per channel sends. Writes that are not noted by the code (attributes, categories, pins,
reactions) are outside the effects.

`PermissionBits` calculates one bit of the target for one channel. A table of facts
(`everyone`, the overwrite of @everyone, guild grants, role allows and denies) becomes a predicate on sets of roles; `SynthesizeRole`
visits the roles in order of priority and chooses override and default; `Drift` changes one cell of what was
written; `MatchesSourceAccess` is the code's comparison. The rule by which Stoat evaluates
overrides is external: the highest role with an override decides, otherwise default and
grants, as the code's docstring says. Left out: one source bit carried by several target bits,
cell bits Ferry does not own, refusals for incomplete evidence, voice and category scopes.

### Feedback service

One table per variable: `receipts`, `contacts`, `events` (the rate claims; `nr` stands for the row id), and the memory of the
service: `readiness`, `checking` (its lock), `categories`, `scans` (the reconciliation
shared by the requests for one id). `handlers` are the coroutines of requests, `items` what is
public on GitHub, `late` the writes whose answer the service gave up and that may still land.
A transaction of the store is one step. The clock ticks only while nothing is in
flight: its units are hours against seconds. A restart drops everything but the tables and GitHub.
Assumed of GitHub: `errors` in a 2xx reply means nothing was created. Assumed of the operator:
`absent` is said only when no write is under way any more. Left out: contact show and delete,
hashes of older releases, key rotation.

### Export

`DceInstall` downloads, compares, unpacks aside and replaces. `ExportProcess` is the child with both pipes: it writes a file per
channel, fails for some, prints progress; `dirs` are the folders with files, messages and
media. `Export` is a run from the choice of what to ask for to the adoption of the result: `inv` the
inventory, `decision` whether a bounded export is safe, `stage` the folder, `seed` where
media is kept from, `saved.witness` the accepted export. Discord's changes are taken
in the steps that read Discord, which leaves out no behaviour of Ferry. A child is assumed to die with Ferry. Left
out: heartbeats, over-long lines, environment, links and foreign folders, the
freshness warning, old files of renamed channels in the export folder, failures recorded by
releases without `delivery_ref` (they force a full export).

## 3. Runs

| Run | Instance | Properties |
|---|---|---|
| `delivery` | one message, renders of one and two parts, three begins, fair | `NoDuplicate`, `OutcomesTrue` (acknowledged, rejected and committed mean what they say), `EvidenceKept`, `ResentOnlyAfterRefusal`, `ImplementsAtMostOnce`, `CallsEnd` |
| `api_requests` | a send and two other calls, one slot, two attempts, breaker at two, fair | `SharedSound` (requests in flight bounded, nobody holds a slot and waits for one, the breaker counts only faults, the pacer's shadow count is honest), `ResentOnlyWhenLimited`, `RequestsEnd` |
| `messages` | three scenarios, below | `PhaseInv` (types, nothing dropped silently, failures keep their receipts, what is sent is known to the files), `NoDuplicate`, `CountExact`, `NobodyWaits` |
| `merge` | three scenarios, below | `MergeInv` (types, failures keep their receipts, one separator, messages behind it), `NoDuplicate`, `Accounted` |
| `migration` | one role, two channels of two categories, an emoji, an avatar, two reactions over a limit of one, a pin; two runs, one end of any kind, one lost answer, fair | `MigrationInv` (no resource twice but by a lost answer or a death before the save, finalized roles and channels with messages carry their permissions, a follow-up is counted once), `PastChannels` (what a resume skips is done), `NothingTakenBack` (no listed channel is dropped, a follow-up leaves the queue only applied or over the limit), `RunEnds` |
| `migration_interrupted` | the same without losses | violation of `ReportedIsSent`, section 6 |
| `rollback` | a rollback and a migration, three starts, one fault, fair | `Exclusive`, `RollbackInv` (markers explained, only the migration's things are deleted, the record is true and counts once, a finished rollback left nothing unnamed), `RollbackEnds` |
| `repair` | two roles, a channel of two messages, an index, an emoji, three categories; three repairs, two deletions, a fault, a death, fair | `RepairInv` (orphans explained, an owner for every emoji shown, lists kept), `OnePost`, `RepairComplete` (nothing the check finds is left unrecorded; a recreated channel has all its messages), `RepairEnds` |
| `permission` | a role, two channels, two intrusions, a fault, a cancellation | `RuntimeInv` (every noted write is counted until settled, effects reported are never less than done), `ContentUnderProof`, `ProofsCurrent` |
| `permission_bits` | every table of three roles for the view bit, pairs of tables of two roles for the others | `PlanExact`, `NoNeedlessRefusal`, `ComparisonsExact` |
| `feedback` | two handlers, two sources, two requests, three sends, two events, symmetric | `ServiceInv` (free receipts have no item, delivered ones name theirs, contacts kept, scans find the item, nobody stranded), `NoDuplicate`, `QuotaExact` |
| `export` | two channels, six folders, three runs, two troubles, fair | `ExportInv` (the executable is whole, no orphan, progress bounded, seeds whole, two stages left), `WitnessTrue`, `NothingLost`, `RunCompletes` |

**Scenarios.** What `messages` and `merge` ask depends on the order of the modes, so their
instances are sets of scenarios, each the smallest for its question.

* `fresh`, `resume`, `resume` with two interruptions: in `messages` a thread and a channel with
  one message each, whose workers, checkpoints and completions interleave; in `merge` one thread of two messages.
* `fresh`, `incremental`, `incremental`: one channel of up to two messages that grows, since
  this is about positions in one channel (a failure below a sent message); two interruptions in `messages`, with a
  configured concurrency of 0; in `merge` two threads and one interruption.
* `fresh`, `incremental`, `resume` with one interruption: the mix of the two ways to continue.

**Bounds.** Every bound is a constant and stands in a guard.

* `MaxBegins` 3 (`delivery`): an attempt that leaves an uncertain part, one that finds it
  unresolved, one that settles it. Two parts are the least with a part before and
  a part after a failure, and two renders the least that can be mixed. `MaxTries` 2 gives every
  disposition a first and a last attempt.
* One slot, two attempts and a threshold of two (`api_requests`): one slot is the case in which a call
  could starve on itself. The proofs need no bound.
* `MaxRuns` 2 and `MaxEnds` 1 (`migration`): a phase is cut short once, anywhere, and continued. Two channels of two
  categories are the least for which a partial export has a listed channel it does not show.
* `MaxStarts` 3 (`rollback`): the rollback twice and the migration, or the other way
  round. One foreign channel, one opted-in suspect, one foreign category.
* `MaxRuns` 3, `MaxLosses` 2, one fault and one death (`repair`): something recreated is lost again, a repair is cut
  short and another finishes. `Busy` indexes have messages of people in them.
* `MaxIntrusions` 2 (`permission`): a fact goes wrong and is set right again between two reads.
* Tables (`permission_bits`): for the view bit three ordinary roles are the least with a role above, at and below
  the one being decided. The other bits depend on view, so pairs of tables are enumerated, with two roles. The proofs bound neither the roles nor the tables.
* `MaxSends` 3 (`feedback`): a post, a retry and a replay. Retention is two units and `MaxTime` 2, so a receipt expires
  within a behaviour. Two claims per window make every quota reachable.
* `MaxTrouble` 2 (`export`) is one budget for messages, vanishing channels, cancels, failures and deaths;
  without liveness the properties also hold with 3 (5.8 million states).

**Fairness.** Each `FairSpec` is weak fairness of the steps the event
loop and the service take: a coroutine that can go on is scheduled (asyncio runs
every ready callback), and every request ends because aiohttp has a total
timeout. Nothing is assumed of crashes, cancellations, growth of the export,
or of what an answer says: Stoat may refuse for ever. The calls end all the same because
every loop of the code has a budget. `ApiRequest` also assumes that a bucket's window
elapses. Weak fairness is enough for its semaphore: each call uses the slot a
bounded number of times, so in the end it stays free for the one that waits.
`Migration`: `Progress` is the run's own steps. `Repair`: `Repairing`, the same. `Rollback`:
`Undo` outside the gate (at the gate a person decides) and the return of the lock. `Export`:
`Progress`, in which a child that lives goes on. `MessagesPhase` has the invariant
`NobodyWaits` instead: some worker, or the end of the phase, is enabled in every state of a run; every such step
brings the run nearer to its end, so with weak fairness the phase ends. The remaining modules are about safety only.

**Deadlock.** `CHECK_DEADLOCK FALSE` is in every configuration, because a behaviour
really ends: all calls are done, or the last run is over. That nothing stops
before that is what `CallsEnd`, `RequestsEnd`, `RunEnds`, `RollbackEnds`, `RepairEnds`, `RunCompletes`,
`NobodyWaits` and `NobodyStranded` say.

Four more configurations are not among the regular runs and each ends with a counterexample
(section 6): `ExportReuse.cfg`, `FeedbackRetry.cfg`, `RepairInterrupted.cfg`, `RepairTail.cfg`.

## 4. What is proved

For every value of the constants that the modules' assumptions admit: any
number of messages, renders, parts, channels, threads, runs, interruptions and retries; any number of
calls and slots, any threshold and limit; any number of roles, programs, faults and intrusions; any handlers, reports and quotas; any
export folders, failures and deaths. For each
module an inductive invariant, `IInv`, is proved, from which the properties of the runs follow. `IInv` was itself
checked by TLC on the instance of the run. It stands with its parts at the end of the `…Props` module, and for
`PermissionRuntime`, `PermissionBits` and `Migration` in the module of the proofs (that of `PermissionBits` quantifies over all
encodings and is only proved). Every module of a composition is proved as
one: the theorems about `Rollback` and `Export` are about all the variables of the modules they extend. Two components share a module of
proofs where the names of one carry its prefix (`RequestIInv`, `ServiceIInv`).

### Delivery (`SendingProofs`)

`NoDuplicate` alone is not inductive: nothing in it forbids a request on the wire
whose message is already in the history. `IInv` adds what the code relies on, in named parts:

* `WireInv`: a request on the wire is named, with its current key and render, by a receipt that calls
  its part uncertain, and its message is not there yet;
* `HistoryInv`: a message is named by a receipt that calls it uncertain or acknowledged, or its receipt is gone
  and the message committed; identifiers are unique;
* `WaitInv`: what each answer says of the part's slot. Refused means empty, and before dispatch it is empty;
* `LoopInv`: the parts the loop has passed without failure are acknowledged;
* `DoneInv`: a committed message's receipt, while it lasts, is acknowledged throughout;
* `NoDuplicate`, `AcknowledgementTrue`, `CommittedIsWhole` and `TypeOK` themselves.

`DeliveryInv` proves it inductive, with one lemma for each action. From it follow
`DeliveryTypeCorrect`, `AtMostOnceDelivery`, `AcknowledgementsHold`, `RejectionsHold`,
`EvidenceSurvives`, `CommittedWhole`, their conjunction `OutcomesHold`, and the action property `ResendsAreSafe`.

`DeliveryImplements` is the refinement: under the mapping that the run checks, every step of `Delivery` is
a step of `AtMostOnce` or leaves its variables alone. Most client steps change one part of one receipt, and
`Ruled` says what such a change does to the verdict on a slot; a request that Stoat executes is the one step that
lands a copy, and `WireInv` with `HistoryInv` make the slot empty before it. The proof does not depend on `MaxParts`,
which only bounds the slots of the abstract specification: it is the length of the longest render.

### Messages phase (`MessagesProofs`)

Four things have to be related: the receipts with the destination (`ReceiptInv`, `HeaderInv`), the saved
state with the receipts it is about to retire (`ReadyInv`), the run's state with the saved one
(`MemoryInv`), and each worker with all of them. `PlaceInv` is the centre: what lies ahead of a worker and is not
skipped was never passed by the saved progress, what lies behind it or is skipped is accounted for. `WorkerInv` adds
what the worker has in hand and tried. The steps that end a delivery share one lemma (`OutcomeStep`), and
so do the saves: a checkpoint of any worker merges its result into the state that all share, and `ReadyInv` makes
the receipts it retires, all or any of them at a crash, those of covered deliveries that no retry needs.
`PhaseNoDuplicate` and `PhaseHolds` follow. `NoDuplicate` excepts what `exposed` lists, so `PhaseNoDuplicate` also proves
`GapsNamed`: the list grows only by a resume, below its high-water mark, of a channel that is not among the completed, and by
the checkpoint that a retried failure moved back (findings 8 and 9). `DeliveredOnceResumed` has no exception: if the operator
continues with `--resume` only (`OnlyResumed`), nothing is in the destination twice; `ResumedInv` says why the list stays
empty then. `PhaseCountExact` needs a second invariant, carried along with the first: `CountInv` compares
the saved count and each worker's with the cardinalities of what they count.

### Thread merging (`MergeProofs`)

The invariant has the same parts for one task on one state, with `SavedInv` and
`MemoryInv` saying of both copies of the state that what they call consumed is delivered and, at the digest
they name, not failed; `ComingInv` is about the threads not begun, `HeadedInv` about messages behind their separator.
`MergeNoDuplicate`, `MergeAccounted` and `MergeHolds` follow. `MergeNoDuplicate` is about messages, which may be twice
where `exposed` lists them, and separators, which may not; `GapsNamed`, its second half, bounds the list to findings 6, 7
and 9. `MergedOnceUninterrupted` has no exception: while no run is stopped or killed and none is a resume
(`Uninterrupted`), nothing is in the parent channel twice; `CalmInv` keeps the list empty. The proof corrected the module: as first
modelled, without the digests, a receipt whose delivery was consumed, whose message was then
refused again in a later run, could be retired by its old entry. TLC confirmed it with four interruptions, more than the run
allows; the code excludes it by the digest (state.py:675-700), which is now in the model.

### A whole migration (`MigrationProofs`)

For any roles, channels, emoji, follow-ups and runs. `Good` says what a record may claim of the service: a named copy exists, what is
finalized or received messages is dressed, the list holds only channels on record, and no channel is dressed
while a role is unknown. It holds of `disk` and of `mem` at once, and `Lockstep` says how the two may differ: by the one server, role or channel that
was created and is not saved yet. `Position` ties the loop to the phase in the record, and how far the one on disk may be behind. `Past` is what a skipped phase
has left (`Settled` for the channels), `Balance` compares what is counted, queued and over the limit with what was sent. The other
parts follow a phase from step to step: `Handled`, `Doing`, `Granting`, `ChannelsDressed`, `Placed`; `Numbers` bounds the copies. There is
one lemma for each action; those that end a phase share `PhaseOverKept` and those that end a run `RunOverKept`. That no resource is made
twice needs a count: a death adds one copy that nothing explains to a finite set, a creation none.

`MigrationInvariant` and `PastHolds` follow, and `TakenBack`, the action property. The proof changed the model: with two
deaths and four runs TLC finds a run for which the first form of `PastChannels` is false. A channel is dressed
but not placed when the process dies, an incremental run over another export completes, the next one dies before its first save, and
`--resume` then takes the phase it finds for its own and skips every phase. The record is the code's (nothing is saved between loading and the end of the first
phase, engine.py:1443 and 1480), so the exception is `cutShort`, and with it TLC confirmed `IInv` with four runs and two deaths.

### Lock and rollback (`RollbackProofs`)

For the lock, `LockInv`: the description holds one marker at most, and a program at work has a marker of
its own. `HolderInv`: until one of the two exclusions happens, the text names the holder, and so does every text read while it
held the lock, so a writer that decides on it takes nothing from anybody. `RollbackExclusive` follows. For the rollback, `PartInv` says
what each part may be doing, `TargetInv` that whatever is in flight to be deleted is the migration's or was opted in, and is not
deleted yet, and `ReachedInv` that a part that is over left nothing of its kind alive without naming the failure.
With these, `RollbackHolds` follows, that the record is of what is gone, counted once, included: the
counter is compared with the cardinality of the record.

### Request layer (`SendingProofs`)

`RequestIInv` says for each call that its stage determines whether it holds a slot, which
stages a message send or another call can be in, that a charge belongs to
an attempt that has begun, and that a call which waits to try again has an
attempt left; for all together, that the holders are no more than the slots, that charges do not
exceed a report, and the two properties about breaker and shadow counter. `RequestsBounded` and
`NoCallHoldsAndWaits` follow because the stages on the wire hold slots and the
waiting ones do not; the bound itself needs the cardinality of the holders,
argued with `FiniteSetTheorems`. `BreakerCounts`, `ShadowBounded` and these two make
`SharedStateSound`. `OnlyRefusedIsResent` is the action property of message sends.

### Repair (`RepairProofs`)

For any items, messages, other people's channels, losses, faults, deaths and any number of repairs. None of the three
invariants is inductive, and what they lack is spread over the program, so `IInv` has three layers.

* `OneInv` is about deliveries. `OneEach`: posts, receipts and pending replacements of a message in a copy are all of one generation.
  `Backed` and `Owed` say when a post must have a receipt and when a receipt may exist; they hold of `mem` and of `disk` at once, because
  either may be what the next repair starts from. `Ahead` is what is still to be sent: nothing of it is on the server
  that no pending replacement names, so that drawing a new generation cannot duplicate. `DoneInv` says whose receipts the next save
  retires. `RepairOnePost` follows.
* `KeptInv` is about what a repair must not lose: `CopiesInv` counts orphans against faults and deaths and
  has a job for every copy that is gone, `RecordsInv` bounds generations by those drawn, `EmojiInv` gives each emoji shown an owner while its messages
  are edited one by one, `ListsInv` makes the list that is written back the server's. `RepairSafe` follows.
* `EndInv` is about the end of a repair. `OrderInv`: jobs are taken by rank, and permissions follow the last role;
  `CategoriesInv`: an index is declined only when its category cannot come back; `StandInv`: what a receipt, a count or the retry calls delivered
  stands or was deleted by people; `AccountInv`: every message of a channel is there, failed, deleted, or still to be sent in this
  job; `TailInv`: a last message that is absent has a job, a failure or one of the excuses of `Repaired`. `RepairCompletes` follows, where no job is left.

One lemma for each action and part; the actions that deliver share `Attempt…`, all ends of a repair (`Halt`) share one
case. The assumptions that the proof added are on the data: identifiers of different kinds differ, and only messages of channels show emoji. It
corrected the initial state: a channel whose only message failed has no count. That a message may be `Vouched` for by a receipt
although it is gone cannot be left out: the invariant keeps, of a confirmed receipt that no save retired, that the program died.

### Permission runtime (`PermissionProofs`)

`Counted` makes the pending writes those in flight and those given up, which is a cardinality that every
note and settlement changes by one. `AccountInv`: the reported effects are a function of that count, and a change that
nobody confirmed left something given up. From both, `RuntimeAccounts`: reported `none` means none, and `confirmed` means that
every fate is known. `AuthorityInv` and `CleanInv` say that a channel which is read or written has no proof and that nothing of ours
touches it while its proof lasts; `EvidenceInv` that a read in its last part, which found nothing wrong so far, saw the channel
right, or the layout is off and the last fetch will see it. `ContentProved` and `ProofsHold` follow.
The proof showed that `ContentUnderProof` as first stated was true for few intrusions only: with five (a cell and the layout go
wrong and are put right in turn between the three requests) the channel was right at no time and is proved. TLC confirms the
history. The exception is now `restored`, exactly.

### Permission bits (`PermissionProofs`)

The properties speak of each member and each encoding, the code of cubes of memberships and symbolic answers. The lemmas lead from one to
the other. `FormedExactly` and `MaskExact`: the predicate that the code forms evaluates, for every member, like Discord's rule.
`ConstantResultSound`: what `constant_result` finds constant on a cube is. `SearchExact`: the search of `_conjunction_possible` finds
a membership exactly when there is one. That search recurses over the roles; induction is not available, so it is shown
from the function's own fixed point, by the least role at which it would go wrong (for this the function ranges over all positive
numbers and takes its arguments one at a time). With both, `QueryExact`: an answer of `visible_bit_query` is right of every viewer in the cube, and "undecided"
means that viewers differ. `ExactMeans` cuts an encoding along the same cubes: it is exact when each override is right where
it is the highest (`CellsRight`) and the grants and the default are right where there is none (`RestRight`).

`CalculationIInv` says of the synthesis that the visited roles are the highest, and that the overrides so far are right (`Synthesized`). That makes it
sound. `Forced` makes it complete: whatever encoding is exact, its overrides among the visited roles are among those chosen. So a role that
is passed over could be overridden in no exact encoding, and when the greedy choice does not fit, none does (`Tried`). The
step that matters is `VisitKeeps`. The other default is not tried where a member without roles sees the channel; `OnlyPreferred` says
why nothing is missed. A managed role that changes a bit really changes it for a member, whom no encoding could then
serve (`ChangeShows`, `ManagedHopeless`). `MatchesExact` shows that the readback accepts a drifted encoding exactly when it is right, and `CommonMeans` and
`DifferenceShows` that two sources share a plan exactly when no member tells them apart.

`TypeCorrect`, `AccessPreserved`, `RefusedOnlyIfHopeless` and `ComparisonsDecide` follow, for every bit, any number of roles and any valid
inputs. The assumptions are those of the model: a number of roles, and inputs of the right shape in which no managed role has a grant of its own on the server.

### Feedback service (`ExportFeedbackProofs`)

That a report is never filed twice is about GitHub's items, which no row of the store names until the end.
`ItemInv` connects them by time: an item is of the claim its request has now (same moment, same content), or older than the
claim by a whole retention; a request without a receipt has only items older than that, so it may be claimed again.
`ActiveInv` says that a handler between admission and settlement owns its claim, that nobody else writes for it and
whether an item exists at each step; `LateInv` the same of a write whose answer was given up, and `ScanInv` of the shared
reconciliation, whose claim cannot be replaced while it looks. `ContactInv` keeps the contact before the delivery is
recorded, `OwnInv` says that a request number nobody else used is of one report, `LockInv` who holds the readiness lock.
The remaining parts (`HandlerInv`, `RowInv`, `WaitInv`) give the steps their shapes. `NoSecondItem` and `ServiceHolds` follow.

The quotas have an invariant of their own, `QuotaInv`. `Remembered`: the claims that the store forgot are in no window any more, so
that the rows a quota counts are the admissions of that window. `ClaimsApart`: no two claims share a row. The table is a set of
rows, as in SQL, and the row that the code takes from the sorted list is described by what counts: as many rows as the limit are as late as the
`Threshold`, and fewer are later (`ThresholdHolds`, from the greatest number of a bounded set, without induction). `WindowTimely` and
`ReportHolds` give a refusal its exact time for one window and for three; `RoomKept` bounds every window that ends at any moment. `QuotasHold` follows.

The assumptions are what the argument is about. `RetentionAssumption`: contacts last at least as long as receipts
(7 and 30 days, store.py:27-28), and the margin by which a search reaches back behind a claim (two
minutes, github.py:710) is shorter than a receipt's life, else it would find an older item.
`NamesAssumption`: the two values that stand for no holder of the lock, and for the probe, are no handlers.

### Export (`ExportFeedbackProofs`)

`WitnessTrue` and `NothingLost` relate three things that no step of the code sees together: the record on disk, the record in
memory and the folders. `WitnessInv` says `Vouched` of both records (the witness's stage is there, readable, and holds what is
listed; full coverage means that nothing was lost and the media is whole) and that the run writes elsewhere until it saves a
witness of its own. So nothing that is cut off, removed or overwritten is ever vouched for. `RecordInv` says what a run has of the record it
found, until it saves. `ChildInv` is what makes coverage real: a channel the child lost is among those it
will report, and with the reports drained and none read, none is missing. `MediaInv` follows unfinished media from folder to folder, up to the one
way that `spoilt` records. For the messages, `ContentsInv` says that a file is closed between the bound and its last message, and
`MarkInv` that whatever is at or below a mark, or below the bound of a shorter export, is accounted for: the bound is the least of marks and
failures (`BoundDelivered`), so nothing behind it is missing, and the next mark passes nothing (`BelowTheLast`). `RunInv` counts the stages: at most two for
each run, because a shorter export is replaced once. `ShownInv` bounds the progress by the cardinality of what was announced, through
the exporter's own retries.

One lemma, `OverKeeps`, covers every end of a run: a crash, a cancel, a refusal, a failed save all leave at most the run's own
folder cut off (`CutOff`). The child's steps share `WorksKeeps`, the others have a lemma each. `ExportAssumption` asks that
the channels be finitely many and the stages enough for two in each run; both are about the model's bounds and exclude no
behaviour of the code. `WitnessHolds`, `NoMessageLost` and `ExportHolds` follow.

### Only model-checked

Liveness (`CallsEnd`, `RequestsEnd`, `RunEnds`, `RollbackEnds`, `RepairEnds`, `RunCompletes`) and `NobodyWaits`, which is about
ENABLED, are out of the prover's reach. Every other property of the runs is proved.

## 5. What is not modelled

* Formatting, rendering, redaction, progress events and reports: text.
* The parser and the transforms: pure functions of text, with no order of events.
* Verification (beyond the check that a repair starts from), statistics, review: read-only and sequential.
* HTTP set-up: configuration.
* Uploads (`uploader/autumn.py`): the cache of identifiers is part of `state.json` and keyed by tag and file; concurrent
  first uploads of a file share one future (`_inflight_uploads`). Planned first: a waiter that is cancelled
  cancels the shared future, and an upload that skips the cache replaces and removes another's entry.
* The interfaces (`cli.py`, `gui*.py`): presentation; the controller that starts and cancels a run is
  planned. In the interface a dialog that is closed during a submission leaves that stage without a result.
* Each module's own omissions stand in section 2.

## 6. Disagreements with the documentation

One is a regular run:

1. `migration_interrupted` (`ReportedIsSent`): Ctrl+C raises `CancelledError` in a phase; the engine ends the loop there
   (engine.py:1453), and, since no cancel event is set, goes on to write its report and records that phase. `--resume`, which
   docs/getting-started/first-migration.md:264 recommends, then skips every phase.

Four are configurations to run by hand:

2. `ExportReuse.cfg` (`PartialNeverReused`): "Bounded and partial exports never authorize media reuse"
   (docs/guides/large-servers.md:115-116); engine.py:873-874 lets the completion of a staged export
   vouch for the media of the export folder, which an interrupted full export may have left partial.
3. `FeedbackRetry.cfg` (`RetryReconciles`): docs/operations/feedback-service.md:89 has the next retry perform the
   reconciliation; github.py:819-821 refuses to list Discussions whose categories it has not read since the
   restart, until a readiness check succeeds.
4. `RepairInterrupted.cfg` (`RerunContinues`): docs/guides/cli-reference.md:590 says that running an interrupted repair again
   continues; engine.py:4848 saves a recreated channel before its messages are sent, and after an
   interruption the next check finds a channel that exists, and an empty one is a failure no repair takes up.
5. `RepairTail.cfg` (`TailRestored`): in a repair that first makes something else, the proofs of the channels that
   stay are withdrawn, so the send of a lost last message is refused, after its receipt was marked uncertain. The
   next repair finds the receipt unresolved, and the message stays on the list of failures for ever.

Four are gaps of the saved progress, written into `NoDuplicate` as the exceptions
it allows; without the exception TLC finds the history. What would widen the exceptions themselves `NoDuplicate` cannot see:
`GapsNamed`, proved of both modules, bounds them to these four, and `MergedOnceUninterrupted` and
`DeliveredOnceResumed` prove that without interruptions, or with `--resume` alone, there are none:

6. merging, `Forgotten`: `--resume` reads only the offset, which completion removes, and merges a finished
   thread again (docs/reference/architecture.md:1050-1052).
7. merging, `Uncovered`: a stop saves deliveries as consumed before the offset covers them, which removes
   their receipts (the comment at messages.py:851-852 says otherwise).
8. messages, `Forgotten`: an interrupted `--incremental` run followed by `--resume` sends completed channels
   again from their beginning (docs/guides/earlier-migrations.md:244, docs/reference/stoat-api-notes.md:339).
9. both, `PassedBack`: a retried failure moves a channel's saved offset back (messages.py:1421-1422, 1529), and
   after an interruption the messages between are sent again.

Smaller ones, met while reading, that no property states: a crash between the write of a channel's permissions and its slowmode
loses the slowmode (structure.py:1577-1579); a crash between the save of a channel and its permissions makes the
resumed run stop at its preflight; an incremental run after an interrupted one drops follow-ups that were never attempted,
which the comment at engine.py:709-710 calls consumed; an incremental run that dies before its first phase is saved leaves the
finished run's phase, from which `--resume` skips every phase (engine.py:1409-1420); a role that a repair recreates before it dies stays without permissions, as
does a forum index it cleared (engine.py:2210); review.py:270 expects
`rolled_back_ids` to be filled by the engine; a cancelled rollback is reported as completed, and its failures
outlast a clean later run; cli-reference.md says a missing forum index or emoji is not repaired, the code repairs them;
reported effects stay "possible" where nothing was written (a conservative answer); the comment at
feedback_service/app.py:349-350 says that only one caller may deliver, two may, and the second gets a 500; a
failure line of the exporter over several lines ends the list of failures; a stage whose
creation dies before its owner marker is never swept.

## 7. Plan

| Step | Source | Aim |
|---|---|---|
| Extend `PermissionProofs` | `core/permissions.py` | dependent bits, `CommonExact` |
| `Uploads` | `uploader/autumn.py` | a cached identifier is of the file |
| `Controller` | `gui*.py`, `cli.py` | one run at a time; cancel reaches the run that is shown |
| `Delivery` with generations | `begin_delivery_replacement`, `recover_only` | replaces the outcomes that `Repair` takes from deliveries |
