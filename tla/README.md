# Context Continuity: TLA+ models

Models of the runtime core of Context Continuity (`plugins/context-continuity/src`):
the store that keeps one ledger per task on disk, the projection rebuilt from
that ledger, the service operations that decide what may enter it, the recovery that
compares it with what a compaction left, and the ways in which its content
leaves it (pages, capsules, texts); and models of the two long-lived programs
around that core, the MCP server and the adapter for DeepSeek Harness. File
names below are relative to that directory unless they say otherwise.

## 1. Inventory

| Component | State | Operations | Hard behaviour |
| --- | --- | --- | --- |
| Store (`store.mjs`, `atomicWriteJson` of `util.mjs`) | per task: a lock file, `ledger.json`, snapshot files, archived copies | `transact`, `pruneSnapshotsUnlocked`, `deleteTask`, `archiveTask` | several processes on one directory, killed at any await; a lock that is broken by age; files written in an order |
| Ledger and projection (`model.mjs`, `constants.mjs`) | the events; what they project to: items, contract, open prompts, challenges, last workspace, snapshot and compaction | `appendSealedEvent`, `projectLedger`, `normalizeStateItem`, `coverageGaps`, `projectionDigest` | supersession chains, staleness, identifiers that are used again, limits |
| Service (`service.mjs`, `signals.mjs`) | none of its own | prompts, reads, state writes, corrections, contracts, clear, candidates | each write is a read, a user's message and a transaction, by different actors at different times |
| Management (`service.mjs`) | challenges and the `enabled` switch in the projection | `prepare_*`, off, on, reset, delete; the CLI's direct actions | one-time confirmations, windows, a deletion in two transactions |
| Recovery (`recovery.mjs`, `service.mjs`) | snapshot file, `latest_snapshot`, `latest_compaction` | `createSnapshot`, `markCompaction`, `recover`, `sessionEnd` | a snapshot older or newer than the ledger, missing or different; boundaries in any order |
| Hooks (`hook-handler.mjs`, `hooks/run.mjs`) | none | one operation per host event | the host kills a hook at its time limit |
| DeepSeek Harness adapter (`adapters/deepseek-harness/index.js`) | a queue per session, pending recoveries, recent prompt observations | event handlers, tool calls, drain | late answers after a timeout, retries over earlier prompts, jobs that queue jobs |
| MCP server (`mcp-server.mjs`) | the input buffer, the chain of pushes | framing, requests and notifications, paging by cursor | chunks that end anywhere, messages that fail, pages of a state that changes between two calls |
| Bounded output (`recovery.mjs`, `service.mjs`, `mcp-server.mjs`) | none | pages, capsules, recovery and subagent texts within a budget | what is left out, what is said about it, and the second rendering under another footer |
| Redaction, CLI, schemas, scripts | none | text and JSON conversions, tooling | none that a state machine shows |

The components meet in the ledger: every operation is a transaction of the
store, which reads the ledger, rebuilds the projection, lets the operation
check and append, and writes the file. The user's messages reach it through
the host's hook, the agent's writes through MCP, and the CLI directly. Nothing
but the lock file orders them. In DeepSeek Harness one adapter does all of
this inside the host, and orders the operations of one session by a queue.

What makes each part correct: the store loses nothing it has committed, and a
success it reports is on disk; the projection never gives a statement more
authority, or more freshness, than it was recorded with; the service writes as
the user's only what the user confirmed, once, for the state it replaces;
management acts only on two messages; recovery never calls unchanged what has
changed; the adapter keeps the host's order and loses no recovery; the MCP
server answers each request once and in order; a bounded output says what it
leaves out. `PROJECT.json` lists the hazards behind these, each at its line.

## 2. Modules

1. `LedgerStore` with `LedgerStore_proofs`: the store, file operation by file operation
2. `SerialLedger`, the abstract store, and `LedgerStoreRefinement`, the mapping
   under which `LedgerStore` implements it, with `LedgerStoreRefinement_proofs`
3. `TaskProjection`: pure operators
4. `TaskService` EXTENDS `TaskProjection`
5. `TaskManagement` and `TaskRecovery`, each EXTENDS `TaskService`
6. `ContinuityTask` EXTENDS both: the next-state relation and the properties
7. `TaskProjection_proofs` (what one event does to a projection),
   `TaskLedger_proofs` (what a ledger and its projection have to do with each
   other) and `ContinuityTask_proofs` (actions and theorems), each EXTENDS the one
   before; `Folding`, a loop over a sequence and the induction it needs
8. `DshAdapter`: the adapter for DeepSeek Harness, and `SessionQueue`, what its
   work queue promises; `DshAdapter_proofs`, about both
9. `BoundedOutput`: pure operators; `McpServer` EXTENDS it; `McpServer_proofs`,
   about both
10. `MCLedgerStore`, `MCContinuityTask`, `MCDshAdapter`, `MCMcpServer`: small instances;
    `MCTaskProfiles` EXTENDS the second one with the profiles of its passing run

Every safety property of the passing runs is a theorem, and both abstract
specifications have a proof that the detailed one implements them (section 4).
Liveness is model-checked only. Two hazards of `PROJECT.json` have no property,
because nothing in the repository says what should hold: a recovery refused at the
event limit because of the other events it must write (`service.mjs:1017`), and
a recovery text rendered before a clear and shown after it (`index.js:363` of
the adapter).

### LedgerStore

One task's directory and several processes. Every awaited file operation is
one step: `OpenLock` is `open(…, "wx")`, `StatLock` and `BreakLock` the `stat`
and `rm` of a lock that is too old, `WriteToken` the token, then `ReadLedger`,
the callback's appends, `WriteSnapshot`, `CommitLedger` (the rename of
`atomicWriteJson`), the pruning file by file, and `CheckToken`, `UnlinkLock`
of the release. `deleteTask` removes what it has listed one entry at a time;
`archiveTask` renames. `Crash` kills a process before any of its steps and
leaves its files; `BodyFails` and `LockFileFails` are failing operations.

The age of a lock file is the flag `lock.stale`; `LockAges` sets it for a lock
whose owner is dead (`"abandoned"`) or still works (`"held"`), as `Ages`
allows. An event is the identity of its writer: what matters here is whose
events are in the file. Sizes are proportional to the number of events, with
the two factors of the compact and the indented text.

### SerialLedger and LedgerStoreRefinement

`SerialLedger` is what a caller of the store may rely on: no lock file, no copy
in memory, no snapshot files. A call is `pending` from its start, takes effect
in one step on the ledger as it is then (`Update`, `Check`, `Vanish`), at most
once, and may fail afterwards, but never take effect after it has failed; "ok"
is answered only from `applied`. Under the mapping, an append or a snapshot
takes effect at the rename of `CommitLedger`, an archive at the rename of the
directory, a delete at the unlink of the ledger file; everything else the
store does, the lock, the reads, the pruning, the removal of copies, is a
stutter. A crash between the rename and the answer is a `Return` without "ok".

### TaskProjection

`Apply(p, n, e)` is one turn of `projectLedger`'s loop, one `After…` operator
per event type. `Acceptable`, `MaySupersede` and `KeepsMeaning` are the checks
of `normalizeStateItem` that decide on more than a format; `Gaps` is
`coverageGaps` reduced to severities; `Digest` is what `projectionDigest`
hashes. A statement is a model value `Claim`: equal claims are equal texts. An
item's source and time are one number `stamp`, for a user's item the prompt
it was confirmed in. A workspace fingerprint has a place (directory and git
head), a content and whether the content could be verified. An event's
identifier is its position in the ledger. Hashes and the hash chain are left out.

### TaskService, TaskManagement, TaskRecovery

A transaction is one step: `LedgerStore` shows when that is so. What spans
several calls is several steps. A client's `GetState` stores what it saw in
`reader`, and the generation of a later write is the one it read there.
`ObservePrompt` is the user's message, with the signals its text carries.
`Typed` is what a user can send: ordinary words (`Words`), the phrase of any
challenge ever issued, also an old one, or the phrase proposed for a batch at the
current generation. `deleting` holds the deletions that one transaction has
validated and no call has carried out yet, whatever comes between the two
(`DeletionIsConfirmed`). `life` counts how often the task's
directory has gone, which nothing in the code records.

`Put` appends an event to a transaction in progress and applies it to its
projection, `Commit` makes it the ledger, unless the event limit refuses all
of it. The operations:

| Action | Code |
| --- | --- |
| `ObservePrompt`, `GetState` | `observePrompt`, `getState` |
| `RecordState`, `CorrectState` | `recordState`, `correctState` with `validateUserStateConfirmation` |
| `BindContract` | `bindExternalContract`, by a provider whose token is right |
| `ClearTask`, `ImportHandoff`, `ObserveSubagentResult` | the same names |
| `Prepare`, `ManageReset`, `ManageOnOff`, `ValidateDelete`, `CarryOutDelete` | `manageState` with `validateManagementConfirmation` |
| `CliOnOff`, `CliRemove` | `manageStateDirect` |
| `CreateSnapshot`, `MarkCompaction`, `Recover`, `SessionEnd` | the same names, with `expireNextActions`, `observeWorkspace`, `verifyRecovery` |

`Recover` draws up the findings before it expires actions and notes the
workspace, then adds the gaps these open, as the code does. Whether the token
budget omits a high-risk item is a choice (`omitted`). The snapshot file is
there, missing or different (`FileStates`), by choice at each operation. A
refused operation changes nothing and is no step; so is one on a task that is off.

### ContinuityTask

`Next` lets all of it happen in any order; `Ops` selects the operations of a
run. `Writes` is its part that appends, by given messages and batches, and
`ReadsAndRemovals` the rest. The properties speak about the whole ledger `log`, which is a history
variable that the code itself keeps, and compare it with the projection.

### DshAdapter

A job is one promise of `SessionWorkQueue`; jobs are numbered in the order of
the host's events and kept after they settle, and `tail` is the queue's map. A
job that makes several calls of the service (`MarkCompaction`, `RecoverMarked`;
`ReadParent`, `ExportParent`, `ReadChild`, `ImportCapsule`) is as many steps,
and any of them may fail (`FailJob`). A ledger is reduced to the order of its
events and the generation, since `TaskService` has the rest and one
transaction is one step.

| Action | Code |
| --- | --- |
| `OnInboxInserted`, `OnCompactionStart`, `OnCompactionEnd`, `OnStartup`, `OnRecoverySource`, `OnClear`, `OnAgentDisposed` | `onInboxInserted`, `onSessionEvent`, `onSessionStart`, `onAgentDisposed` |
| `RunOneCall` and the steps named above | the closures given to `enqueue`, `prepareParentHandoff` |
| `PreStep`, `StepSettles`, `StepGoesOn` | `onPreStep`, `consumeRecovery`, `settleWithin` with its timeout and abort |
| `CallTool`, `QueueSettled`, `ObservationsSettled`, `TryCandidate` | `execute` of the tool definitions, an await each |
| `Drain`, `DrainReturns` | `drain`, called when the plugin is unloaded |
| `OtherWrite` | another program on the same task (external) |

What is known of a parent (`HasState`) includes that it was cleared: a clear
raises the generation, at which an empty task has gaps, so an empty capsule is
handed over as well. Only a parent that nothing has been written to has nothing
to hand over.

A message of the user is ordinary words or the phrase for the generation at
which it is sent. A tool call wants the agent's own inference recorded, or an
item with the user's authority through `continuity_record_state` or
`continuity_correct_state`, which differ in what a failed observation does.

### SessionQueue

`SessionQueue` is the adapter's queue without its promises: a set of unfinished
jobs per session, of which the oldest may work, each to its end before the next
begins, and a record to which a job adds until it has finished and others at
any time. In the code there is no such set. A job knows the one that was last
when it came, and the entry for the last job is dropped when that one settles,
unless another has taken it. Under the mapping at the end of `DshAdapter` the
`waiting` jobs are those that have not settled and the `begun` ones those no
longer `"queued"`; the host's events that queue nothing, the steps, the tool
calls that wait and the drain are stutters.

### BoundedOutput and McpServer

`BoundedOutput` has the four selections: `Page` and `PageAnswer`
(`boundedStateResult`, `successToolResult`), `Capsule` (`exportCapsule`),
`Rendered` (`renderRecoveryContext`, with the second rendering of `recover`)
and `CapsuleText` (`capsuleContext`). Bytes and tokens are one abstract unit,
an item is its kind, its time and the size of its statement, and the fixed
lines, the footer by classification, the reserve for the line on omissions and
the lengths a statement is cut to are constants. What the code decides is
kept: the order (by priority, round robin by kind), what still fits, which
shorter form is tried, what is counted, what ends a loop and what skips.

`McpServer` is the server with its client, its pipe and the other programs
that write to the task. The input is a sequence of tokens, so that a chunk may
end inside a line, inside a header, or between header and body. A push is its
own action (`Push`), and each turn of its loop is another (`TakeFrame`), since
`onMessage` awaits the service, in whose time the pipe delivers more. The
promise chain is `chunks`. A message that is not JSON, or an unknown
notification, ends the push and leaves the rest in the buffer. `versions` are
the active items at each generation; a client that reads pages follows
`next_cursor` while the generation in the answer stays the same.

## 3. Runs

Store (`MCLedgerStore`; two processes; symmetric except for liveness):

| Run | Question | Bounds |
| --- | --- | --- |
| `store_safety` | all operations, kills, failing operations, a full ledger: exclusion, no lost update, success on disk, complete deletion, retention, no dangling reference, implementation of `SerialLedger` | 3 events, a size limit of two events of compact and one of indented text, 3 snapshot names, 1 kept, 1 archive |
| `store_liveness` | every operation returns although owners are killed; an old lock file does not survive the next attempt | 1 event, 1 turn of the loop, appends, snapshots and deletions |
| `stale_lock_race` | *violation* of no lost update: two waiters break one stale lock | only abandoned locks age |
| `ledger_unreadable` | *violation*: a stored ledger is larger than what a read accepts | 4 events |

Two processes suffice for every pairwise interleaving of the lock's steps; a
third could only repeat one of their roles, and the theorems below hold for
any number. One snapshot kept and three names give a prune with a protected
and an unprotected file and an orphan.

Task (`MCContinuityTask`; the passing run `MCTaskProfiles`):

| Run | Question | Bounds |
| --- | --- | --- |
| `task` | everything the task promises, under four profiles | by profile, below; at most 2 workspaces, 3 contract versions, 2 references, a window of 2 events for 20, 1 removal, 1 prompt resolved per write |
| `old_confirmation` | *violation* | 6 events |
| `generation_reused` | *violation*; two clients | 2 events |
| `twin_items` | *violation* | 6 events |
| `clean_resume` | *violation* | 6 events: workspace, prompt, state, the end's two, recovery |

A behaviour of `task` keeps to one profile, chosen in `Init`: what is done in
it, by which messages and batches, and how long its ledger gets (the two with
7 events meet the limit of the code itself, `MaxEvents`). All the properties are
checked in all of them.

| Profile | Histories | Events |
| --- | --- | --- |
| `managed` | off, on, reset and delete by challenge and by CLI, with the CLI's archive, also between the two transactions of a deletion | 7: request, challenge, phrase, action, and three more to disturb them |
| `intended` | guessed, confirmed, corrected and cleared intent, an external contract bound, advanced and cleared among them | 5: two confirmed writes with their phrases and one more |
| `positioned` | compaction and recovery of a whole position that the user confirms first, where a recovery can be quiet | 7: workspace, phrase, state, expiry, snapshot, marker, recovery |
| `unasked` | evidence, guessed actions and clears without any message of the user; boundaries in every order, two triggers, three file states, two workspaces | 5 |

Mixtures of the profiles would only lengthen the prefixes of these histories.
The proofs of section 4 are about `ContinuityTask` itself, without profiles.

The bound on events is the code's own limit made small, so a full ledger
refuses everything and the model may stop: the passing task runs do not check
deadlock. The batches (`MCContinuityTask`) are written so that each check of
`Acceptable` has one that passes and one that it refuses: an inference that
would replace a user's goal, a known identifier with another claim, a
correction, evidence that overtakes a planned action.

The type invariants of the adapter and of the MCP server, and `JobsInHostOrder`
of the adapter, which `ImplementsSessionQueue` implies, are left to their
theorems. What the passing runs show, property by property, is in the comment before
each property. The deeper ones: `SuccessIsOnDisk` and `NoLostUpdate` (two
processes and a kill), `PromptAuthorizesOnce` (over every way to use a message,
with the reissue that skips the check), `UserStateIsConfirmed` (a user's item
is traced to the words of a prompt at the generation replaced),
`TwoMessagesPerAction`, `SameGenerationSameState` (what optimistic concurrency
rests on), `ItemsOnlyAge` (no step rejuvenates), `QuietRecoveryFoundNoChange`.

Adapter (`MCDshAdapter`) and MCP server (`MCMcpServer`):

| Run | Question | Bounds |
| --- | --- | --- |
| `dsh_adapter` | the host's order, recoveries, the search for a confirmation, the handoff, of a cleared parent too, the unloading, implementation of `SessionQueue` | a session and its child; at most 4 jobs, 2 tool calls, 2 remembered messages for 8, 1 write of another program |
| `mcp_server` | framing, pages and whether they end, capsules, texts and what they leave out | at most 4 messages, an input limit of 9 tokens, 2 changes of the task, contents of up to 7 items, pages of 3 items for 8 |
| `subagent_omissions` | *violation* | subagent texts only |

The two passing runs choose one of five profiles in `Init`, each a kind of behaviour with its
own events and bounds, so that every hazard meets the actors it needs and no
others: a recovery that is overtaken needs compactions and resumed agents but
no tool; a confirmation that is looked for needs messages and tools but no
compaction. Three jobs are a job that runs, one that waits and one queued
meanwhile; with two messages remembered the third pushes one out. Nine tokens
hold three lines, or a framed message and a line, but not two framed ones, so the
limit is met; the contents include an item that fills a page, a page
that fits but not together with its summary, more high-risk items than a text
can hold, and items of one kind recorded at one time. One behaviour shows one
text: texts do not change the task.

`ConfirmationIsFound` is worth reading together with its exception. When a
newer observation has failed, `continuity_record_state` is called without a
source for it and refused with an error that is not among
`RETRYABLE_SOURCE_ERRORS`, so an older confirmation is not tried;
`continuity_correct_state`, which is refused with another error, goes on to it.

`FailureHasACause` says that where a chunk ends never matters to the parser;
what it rules out is easily broken, as its mutant (a frame taken when the header
is there) shows. After a failure the server may leave requests unanswered
until the next chunk, or for good when the buffer stays over its limit, and
`EveryRequestIsAnswered` excuses it then.

### Disagreements with the documents

Seven runs end in a violation, each of one property that a document, message or
comment states; `PROJECT.json` has the quotations.

- `stale_lock_race`: `stat` and `rm` of a stale lock are two steps, and the
  `rm` may hit a fresh lock. Two transactions then run at once and the later
  rename drops the earlier commit.
- `ledger_unreadable`: the size is checked on compact text and the file is
  indented, so a committed ledger can exceed what the next read accepts.
- `old_confirmation`: a management phrase is bound to its token and a window
  of 20 events, not to the generation it was shown at.
- `generation_reused`: an archived task starts again at generation 0, so an
  old read's generation can match a state that was never read.
- `twin_items`: items of one batch are checked against the earlier state only;
  a second item with the identifier of the first replaces it, whatever its
  authority.
- `clean_resume`: docs/product-contract.md:79-80 expects that a resume after a
  normal end of the session may be `equivalent`, and :70 that this one is
  silent. But the end makes every planned action stale, as :75 wants, and a
  state without a current one has a gap of medium severity, so the resume is
  `continue_with_markers`. The theorem `StatefulRecovery` says how far this goes:
  no recovery of a task whose generation was ever raised is `equivalent`.
- `subagent_omissions`: docs/product-contract.md:65-66 promises the count of what
  was cut when a subagent starts. The text for a subagent counts what found no
  place in it. What the capsule had left out before is counted in the capsule,
  of which the callers show the model the text alone (`hook-handler.mjs:138`,
  `index.js:165` of the adapter). `OmissionsAreNamed`, which passes, is about
  recoveries.

One more behaviour of the code is in the models, and a property is worded
around it. A deletion over MCP is two transactions, one that validates
(`ValidateDelete`) and one that removes (`CarryOutDelete`): as long as its ledger
is there, a deletion that waits rests on a request and its own phrase
(`DeletionIsConfirmed`), but when the CLI archives the task in between, the second
transaction removes the ledger that began afterwards.

`NoLostUpdate` and `AuthorityOrder` also pass in other runs: the first with no
lock older than `lockStaleMs`, the second with batches whose identifiers
differ. These are exactly the conditions under which they hold.

### Fairness

In the store, `LiveSpec` assumes weak fairness of
each process's steps: a pending file operation completes and a timer fires, as
the event loop guarantees for a live process. Nothing is assumed about
starting operations, about kills (a killed process never has to come back) or
about locks growing old. No strong fairness is needed for the lock: the loop
is bounded by `lockTimeoutMs`, modelled as `MaxTries` turns.

In the adapter the service's calls return or throw, which is the store's
`EveryOperationReturns`, and the event loop runs what can continue: weak
fairness of the jobs, and of the steps, tool calls and the drain that wait for
them. The host need not send anything. In the MCP server the pipe delivers
what was written and its closing, and the promise chain runs. The client need
not write or close.

## 4. Proofs

`LedgerStore_proofs` proves, for every set of processes, every bound and all
operations and faults:

- `TypeCorrect`: `Spec => []TypeOK`, without further assumption.
- `SerialInvariant`, assuming `Ages = {}` (no lock file outlives
  `lockStaleMs`): an inductive invariant with three parts. The lock file names
  its holder, and there is none without it, so holders are unique; what a
  holder has read is still what is on disk, since only a holder writes, and
  its copy extends it; the file its copy refers to is on disk once written and
  is never listed for pruning. `MutualExclusion` alone is not inductive: it
  says nothing of a lock file whose owner is about to write its token or has
  been killed, nor of what the transaction holds in memory.
- From it `LockIsExclusive`, `SuccessIsDurable`, `DeleteIsComplete`, and the
  two action properties `UpdatesAreKept` (`NoLostUpdate`) and
  `ReferenceIsKept` (`ReferenceStays`): each step of an action of the relation
  satisfies the action formula in a state of the invariant.
- `RetentionIsKept`: `PruneInv` adds that the files without those still listed
  for pruning are never more than `SnapshotRetention`. What the listing leaves is
  counted by `OldestLeaves`: the places of the names in their order are
  distinct numbers, so that those from the n-th place on are at most the rest.

The runs above check the same formulas on small instances, the violation run
`stale_lock_race` shows that `Ages = {}` cannot be dropped.

`LedgerStoreRefinement_proofs` proves `StoreIsSerial`: for every set of
processes, every bound and all faults, again assuming `Ages = {}`, `LedgerStore`
implements `SerialLedger`. `SerialInvariant` is not enough for the mapping:
`OwnInv` adds that what a transaction's copy holds beyond the file was appended
by its own process, that a transaction which only checks is never dirty, and
that a ledger which does not exist has no events. Every action is then in one of
five groups, `Quiet` (a stutter), `Failing`, `Returning`, `Vanishing` and the
commit, and one lemma maps each group to its abstract action. `BreakLock` is the
one action without a counterpart: it is never enabled under the assumption.

`DshAdapter_proofs` proves every safety property of the adapter, for any set of
sessions and parents, any kinds of behaviour and any bounds, with no assumption
beyond the typing of the constants:

- Each step has one of three effects on the queue and the ledgers: it queues a
  job behind the last one of its session (`Grows`), lets a job go on whose
  predecessor has settled (`Works`), or leaves the queue alone and writes no
  event of a job (`Rests`). `QueueInv` is preserved by each: the tail is the
  session's last job unless all have settled, a job follows the last one that
  was unsettled when it was queued, so the jobs of a session settle, and write,
  in order. `JobsInHostOrder` alone is not inductive: nothing in it stops an
  earlier job from writing late. From `QueueInv` follow `JobsInOrder` and,
  since each job queued before the unloading has settled or stands before one
  waited for, `DrainIsComplete`.
- `QueueIsSerial`: the adapter implements `SessionQueue`. A step that `Grows` maps
  to `Enter`, one that `Works` to `Work` or `Finish`, one that `Rests` to `Outside` or
  to a stutter. `QueueInv` says in what order jobs settle; that an abstract
  job takes its turn needs `BeginsInOrder` as well, that behind an unsettled job
  of a session every other is still queued.
- `RecoveriesComeInOrder`: what is pending and what a step waits for is later
  than everything delivered, and the pending recovery no older than the one
  waited for. `NoRecoveryGetsLost` is inductive as it stands.
- `HandoffsAreRecorded`: a job is worth something only once it has settled, a
  handoff only if its import is in the ledger, and ledgers only grow.
- `ConfirmationsAreFound`: every message before the call that is remembered is
  among the candidates still to be tried, or useless: it failed, is for another
  generation, is used up, or lies behind a failed one that ends the call. The
  candidates are tried newest first, so that the last case covers all that are
  left.
- `TypeCorrect`: the references of the maps, from `QueueInv` and `RefInv`.

`ContinuityTask_proofs` proves every property of the task's passing run, for
every set of clients, identifiers, statements, workspaces and batches, every
limit, and any selection `Ops` of the operations.

- `TaskProjection_proofs` says what `Apply` does for each event type: which
  fields change (`Fields`) and how items age (`Aged`: marked stale, superseded,
  or written under their identifier). A batch is a loop, `FoldLeft`, which tlapm
  cannot expand into its turns; `Folding` proves that such a loop has states
  (`LoopStates`) and is instantiated with the body of the loop. The induction over
  its turns is the induction over a set of numbers, `Folding!Induction`, which
  is proved from the well-foundedness of finite subsets.
- `TaskLedger_proofs` proves one step of a ledger: `LedgerOk(l, p)` relates a
  ledger and its projection, `Legal(l, p, e)` is what the operations check
  before they append `e`, and `LedgerOk` and `Legal` give `LedgerOk` of the longer
  ledger. No event of the ledger is looked at twice: what a property says of the
  whole history is carried by a part of `LedgerOk` that names only what the
  projection still knows of it, such as the open prompts being exactly
  those that no event has used (`PendingOk`), the challenges held being the last
  ones issued (`ChallengesOk`), and the workspace being the one last seen.
- `ContinuityTask_proofs` proves that each action appends legal events only, and
  with `ReaderOk` (what a client has read at this generation is what it would
  read now) the inductive invariant `IInv`. None of the properties is inductive:
  that a prompt authorizes once rests on the open prompts, the confirmation of a
  user's item on where the prompts stand, an agreed recovery on the digest
  kept in the snapshot event and on the generation counting the writes since.
  `ItemsAge` is an action property and follows from `Aged` step by step.
  `StatefulRecovery` is what the code does in place of what `clean_resume` refutes:
  each recovery of such a task finds a gap or makes one.

`DeletionsAreConfirmed` is not inductive either: what it requires lies between a
challenge and a prompt in a ledger that other actions lengthen, shorten and
start again. `RestsOn` is that part for one deletion. What an action does to
the ledger beyond being legal is `OnlyLater`: it extends it, or its directory
goes and `life` counts on; and only `ValidateDelete` adds to `deleting`, where
the checks of `validateManagementConfirmation` and `ChallengesOk` give `RestsOn`.

Two assumptions on constants are needed. `BatchAssumption`: what a client sends
has passed the schema of the tools (any other batch is refused and changes
nothing). `IdAssumption`: no item has the identifier `"clear"` or `"contract"`,
which stand for `continuity:clear` and for the identifier of the binding event in
`superseded_by`. The second is used for `AuthorityIsKept` only. The code draws the
event's identifier at random but does not refuse an item named
`continuity:clear`; `AuthorityOrder` leaves such a name out. `AuthorityIsKept` alone has a hypothesis, that the identifiers within a
batch are distinct, which the code does not check: the violation run `twin_items`
shows what happens otherwise.

`McpServer_proofs` proves every safety property of the MCP server and of the
bounded outputs, for any profiles, contents, sizes, budgets and input limit:

- A stable sort returns a rearrangement of what it is given, provided that what it
  compares with is an order of some keys (`SortedRearranges`), which is proved of
  each of the three comparisons: a page, a capsule and a text start from the
  items of the task and no others. Capsules and texts are loops, taken
  apart by `Folding` as above: each turn of `Consider` keeps what is taken within
  the budget and what is left out too large for the rest; each turn of
  `AddLine` keeps room for the line on omissions and the footer, and its items
  either shown or omitted. `TextsAreBounded`, `OmissionsNamed` and
  `CapsulesAreFull` follow.
- `RequestsInOrder` and `FailuresHaveCauses` rest on `StreamInv`. The buffer, the
  pushes that wait and the pipe hold, one behind the other, what was written from
  one message on (`InTransit`), and the parser stands before that message, having
  answered the requests before it and no others (`Served`). Neither property is
  inductive: nothing in them says where the pieces of a message are, nor that the
  buffer begins where a message begins. `Waiting` adds that an idle server that
  has not failed has no whole message in its buffer, which is why the closing of
  the pipe finds at most the last, unterminated line there. A push over the limit
  leaves the buffer to the next one, so `Waiting` is suspended once it has failed.
- `PagesComplete`: what a client has collected is the beginning of one
  generation's items up to its cursor (`Collection`), and the one read under way
  was written with that cursor (`ReadInv`), so that a page of the same generation
  continues it, and one of another generation is thrown away.
- `PagesGoOn`: an action property on the same invariant. The page after a cursor
  has at least one item, since one item fits, the window is not empty while
  the cursor is within the items, and a client's cursor is (`Collection`).
- `OmissionsNamed`: the loop puts each item in exactly one of two places, and the
  line on omissions has its room reserved, so that the items shown and the
  counts add up to those of the task.
- `ServerTypes`: from the parts of the invariant.

What these theorems assume of the constants is what the code's types give:
sizes and budgets are numbers (`SizeAssumption`), profiles name known messages
and framings (`ProfileAssumption`), the items of a task have known kinds and
identifiers of their own (`ContentAssumption`; the projection keeps one item per
identifier), the limit is a number (`MaxInputAssumption`), and a page may have
an item (`PageItemsAssumption`; the code's constant is 8, `mcp-server.mjs:20`).

Only model-checked: liveness, which is outside the prover with fairness and
ENABLED: `EveryOperationReturns` and `StaleLockIsBroken` of the store,
`EverybodyReturns` of the adapter, and `EveryRequestIsAnswered`. The formulas of the violation
runs are false and so have no theorem.

## 5. Not modelled

- The hash chain and `verifyLedger`: a ledger changed by hand is refused on
  every read, which stops the task; within the model nothing but the store
  writes the file.
- Texts: redaction, excerpts, quoting, error forms; sizes in bytes and tokens,
  of which only the comparisons with a budget are kept.
- Path containment and symbolic links (`assertPathInsideReal`).
- Schema validation of MCP arguments and hook inputs, output formats, the
  summaries of writes and snapshots that the MCP server returns.
- `verifyCapsule`: a capsule altered on its way to another task is refused.
- In the adapter: the search of `continuity_manage_state` for its source, which
  is the same loop over the checks of `TaskManagement`; a crash of the host,
  which loses the maps of the adapter and is a killed process to the store.
- In the MCP server: requests for an unknown method, which are answered with an
  error as a ping is answered; a header without a length or with one over the
  limit, which ends the push as a line that is not JSON does.
- Scripts, evaluations, packaging: tooling.

## 6. Running

    tlc -workers 2 -config StoreSafety.cfg MCLedgerStore.tla
    tlc -workers 2 -config Task.cfg MCTaskProfiles.tla
    tlc -workers 2 -config CleanResume.cfg MCContinuityTask.tla
    tlc -workers 2 -config DshAdapter.cfg MCDshAdapter.tla
    tlc -workers 2 -config McpServer.cfg MCMcpServer.tla
    tlapm LedgerStore_proofs.tla
    tlapm LedgerStoreRefinement_proofs.tla
    tlapm DshAdapter_proofs.tla
    tlapm ContinuityTask_proofs.tla
    tlapm McpServer_proofs.tla
