# Formal models of pa-platform

TLA+ models of the parts of pa-platform that decide who may change a repository,
how many tickets may be worked on at once, what survives when a process dies
between two writes, which result a deployment ends with when several writers report
one, what a launch does with what it was admitted with, how tickets, documents,
branches, workflows and prepared operations are written, under which custody an agent
works and is reviewed, and how interactive sessions, artifact reviews and panels keep
up with what they show. TLC checks the models on small instances; TLAPS proves their main invariants for every value
of the constants.

Contents: [the system](#the-system) · [modules and code](#modules-and-code) ·
[runs](#runs) · [disagreements](#disagreements-between-code-and-documentation) ·
[proofs](#proofs) · [abstractions](#abstractions) · [not modelled](#not-modelled) ·
[plan](#plan).

## The system

`pa-core` (packages/pa-core) holds the runtime-neutral state and operations.
`pi-pa` (`ppa`) and `opencode-pa` (`opa`) launch agent runtimes on top of it. All
durable state is in files and one SQLite database; there is no daemon that owns
it. Every command is a short-lived process, and several of them, of several
deployments, work on the same files at the same time. Mutual exclusion comes
from `flock`ed mutex files, exclusive creation (`link`, `wx`), atomic renames and
`BEGIN IMMEDIATE` transactions; ownership comes from evidence files that name a
process by (pid, start time, boot id).

A deployment's life: a **launcher** plans it, takes a ticket permit, records the
started event in the registry, takes the lease of an execution worktree, and
starts the runtime, in the foreground or under a background **runner** that takes
lease and permit over. The runtime may start child deployments that borrow the
worktree. At the end the launcher or runner finalizes the child, the lease and
the permit, and a terminal event reaches the registry. An execution that died can
be resumed by a later deployment that takes its retained evidence over.

| component | state it keeps | operations | what makes it hard | what makes it correct |
|---|---|---|---|---|
| Repository admission (`deploy/repository-admission.ts`) | per worktree: lease of each slot, borrower, review reservation, receipt, settlement record | acquire, transfer, snapshot update, release, quarantine; register, transfer, finalize a borrower; publish and consume a receipt; settle a dead child; reserve, start, finalize a review; advisory and direct custody; hand-off | many processes, operations that write several files, Git changing without the mutex, stale evidence, retry | one source holder, no child without its parent's lease, reviews see no writers, settlements frozen, live owners kept |
| Ticket permits (`deploy/ticket-concurrency.ts`) | per repository: one capacity file per ticket (slot or prepared reservation) | acquire, intent, transfer, release; reserve, ready, activate; structured resume | two file kinds in one namespace, the release observes another mutex's files, torn publications | permits distinct and bounded, custody always backed by capacity, nothing lost before release |
| Registry (`registry/index.ts`, `registry/db.ts`, `deploy/events.ts`, the `registry` and `status` commands) | event rows, a projection per deployment, review claims, authority updates, a staged foreground result | append, reconcile, record if absent; claim a review; associate a ticket; advance a parent's branch authority | results of several writers in any order, commands that read and then write, settlements published late | status is that of the last row, failures are sticky, authorizations are used once, authority updates form a chain |
| Background launch (`pi-pa/adapter.ts`, `background-runner.ts`; `opencode-pa`) | hand-off and readiness files, process groups | spawn, readiness wait, transfer, terminate on timeout | readiness racing the deadline, kill racing transfer, either side dying between two writes, a finally block of which each part may fail | one side settles at a time, custody passes once, a reported failure stays, a pending launch gets a row |
| Execution custody (`deploy/execution-custody.ts`, `pi-pa/execution-native.ts`) | execution journal, native transaction | begin, advance, complete, restart | crash between journal and lease | journal and lease agree, no step repeated |
| Prepared workflow (`deploy/prepared-workflow.ts`, `pi-pa/prepared-native.ts`) | preparation record, prepared worktree | prepare, qualify, activate, retain, restart | preparation racing launch, retained state | one consumer per preparation |
| Ticket store (`tickets/store.ts`, `materialization.ts`) | ticket files, branch refs | locked update, materialize, publish | lost update, partial publication | updates never lost, intent before effect |
| Validation executor (`validation/executor.ts`, `validation-supervisor.ts`) | command matrix, results | run ordered commands, time out, record | timeout racing exit, partial evidence | ordered, each command's evidence terminal once |
| Agent sessions (`agent-api/ws/session-hub.ts`, `/ws/session` in `agent-api/index.ts`, `routes/sessions.ts`) | session table, a child process, sinks and a runtime per session; active session and awaited requests per connection | start, resume, register, stop, disconnect, stream; output, error, exit and close of a child | messages that pass each other at an `await`; error, exit and close in any order | limit kept, no slot lost, one end told |
| Live updates (`agent-api/ws/hub.ts`, `watchers.ts`) | clients, what the last scan found, debounce timers | connect, ping, scan, broadcast, remove | events are lost or come in bursts; what a client read and what a scan found differ | what a connected client shows is brought up to date |
| Server lifecycle (`serve-lifecycle.ts`) | pid file, port | start, stop, restart, status | stale pid file, reused identifiers, two starts | the server that listens is the recorded one |
| Artifact sessions (`artifacts/session.ts`, `supervisor.ts`) | session record, lock, supervisor | start, stop, end, feedback, export | supervisor dying mid-operation, busy lock | one supervisor, an ended review stays ended |
| Phase reports (`artifacts/phase-report.ts`, `pi-pa/phase-report-native.ts`) | attempts, receipts, an index, the owner's Markdown | record, publish, observe, deliver, settle | a call that stops between two files, notes written meanwhile | a report is listed only when whole, no note is lost |
| Deploy requests (`cli/commands/deploy.ts`, `deploy/plan.ts`, `repos.ts`) | a request, its resolution, a plan | accept, locate, collect evidence, resolve | registry, Git, pool and ticket change between the stages | a plan holds when it is made and is of the accepted repository |
| Activity (`activity/index.ts`, both adapters, the OpenCode plugin) | activity log, call table, barrier | project, record, judge, guard | chunks, interleaved streams, torn appends | a success executed each announced call once |
| Review admission (`pi-pa/validation-launch.ts`, `review-preflight.ts`, `nixos-prerequisites.ts`) | candidate reservation, launch journal, probes | preflight, reserve, authorize, probe, start | everything read may change before it is used | commands run only for what their runner itself read as approved |
| Native operations (`operations/*.ts`, `pi-extension/advisory.ts`) | a record per operation, a barrier on the lease, a process group | check, diagnose, change files, settle | faults between intent, effect and settlement; processes that outlive their caller | while a process lives the barrier stands |
| Workflow service (`workflows/service.ts`) | workflow run record | start, step, cancel, resume | cancel racing a step | steps in order, cancelled stays cancelled |
| Documents and templates (`documents/package-service.ts`, `templates/service.ts`) | revisioned documents | create, revise, approve | lost revision | compare-and-set on revision |
| Signal, trash, bulletins, operator inbox | raw notes and a cursor; trashed files, manifest and counters; documents in folders | collect, route, reprocess; move, restore, purge; annotate, move | processes without a lock, deaths between two writes, requests that overlap at an `await` | no content lost; what is told is written |
| Pi extension (`pi-extension/git-context-ui.ts`, `context-ui.ts`, `todo.ts`, `question.ts`, `index.ts`) | Git panel, session panel, task list, dialogs | select, refresh, save; associate, reconcile, shut down; plan and answer | stale asynchronous results, branches of a session, a shutdown with calls under way | what is shown as current answers what was asked, nothing uses a closed registry |

**Interactions.** Launchers call ticket permits, then registry, then admission;
runners call transfer of both. Releasing a permit *reads* admission evidence
without its mutex. Child settlement writes, in order, a settlement record, the
parent's lease, a published proof, and removes the borrower. A resume moves the
lease and then the permit. Review reservations bar every other operation on a
worktree. Registry status decides whether a parent is running and whether a
permit may be rolled back or must be settled.

`PROJECT.json` lists every component with its status, and under `hazards` what in
this code a test would hardly reach, at its line. Its `map` names the lines of each definition;
a helper whose lines lie within those of the definition that uses it has no entry of its own.

## Modules and code

### RepositoryAdmission

One execution worktree, the primary root or a linked worktree (`Linked`). State:

- `lease[s]`, `borrower`, `review`, `approval[o]`, `settlement`: the evidence files,
  `None` when absent. A record keeps the fields operations compare: token,
  deployment, process fingerprint, launch and authority snapshots, custody and
  advisory marks.
- `proc`: the process table. A fingerprint is a process (deployment × launcher or
  runner) that never comes back; "stale" means its process is gone.
- `reg`: registry status (none, running, terminal).
- `git`: branch, HEAD, cleanliness of the worktree, changed at any time by
  `GitChange`, because Git is outside the mutex.
- `phase`, `ledger`: launch progress; counts of receipts issued and used.

An operation runs under the worktree's `flock` and is one action; the guard is the
operation's checks, and every write it makes is in the action. When it makes
several writes the process may die after a prefix: `AcquireInterrupted`,
`RegisterRejected`, `RegisterInterrupted`, `FinalizeInterrupted`. The child
settlement keeps a durable stage, so its steps are separate actions that any authorized
process may continue, and an effect and its record are two: the lease is advanced by
`SettleLease` (line 2194) and recorded by `RecordLease` (2197), the borrower unlinked by
`SettleCleanup` (2211) and recorded by `RecordCleanup` (2223), which first unlinks the
receipt that admitted the child, should it be there. A call that dies in between
leaves an effect its record does not name, which the retry's `assertGit` admits. The call
that made the effect reads it back and records it; a retry looks at Git and the other files
again first. The model lets both record as soon as the effect can be read. `SettlementIntent`,
`SettlePublished` and `SettleComplete` (copy, then unlink) have one effect each.

| action | code |
|---|---|
| `AcquireLease`, `AcquireInterrupted` | `acquireRepositoryMutationLease` |
| `TransferLease`, `UpdateSnapshot`, `ReleaseLease`, `QuarantineLease` | `transfer…`, `update…GitSnapshot`, `release…`/`finalize…`, `quarantineRepositoryMutationLease` |
| `PublishApproval`, `RemoveApproval` | dirty-borrow receipts |
| `RegisterBorrower`, `RegisterRejected`, `RegisterInterrupted`, `TransferBorrower`, `ReleaseBorrower`, `FinalizeBorrower`, `FinalizeUncertain`, `FinalizeInterrupted` | the borrower operations |
| `SettlementIntent` … `SettleComplete` | `reconcileRepositoryTerminalChild` |
| `ReserveReview`, `StartReview`, `FinalizeReview` | protected reviews |
| `BeginAdvisory`, `FinishAdvisory`, `SetDirectCustody`, `AdvanceDirectSnapshot`, `HandoffDirectOwner` | advisory and native direct custody, resume |

### TicketCapacity

The capacity of one canonical repository: `slot[t]` and `prep[t]` are the two files
a ticket may have, `custody[t]` and `review[t]` the part of RepositoryAdmission's
evidence that the permit code observes on the ticket's worktree, `handle[d]` the
slot token a deployment's processes present, `phase[d]` the progress of a launch,
`mutex` the process in the middle of a release.

Operations run under the ticket mutex and are one action, except the release: it
observes the worktree without the worktree's mutex, then unlinks. `ReleaseObserve`
and `ReleaseCommit` are those two moments; between them the mutex keeps every
other permit operation out, and nothing keeps the worktree from changing.

| action | code |
|---|---|
| `Acquire`, `AcquireTorn` | `acquireRepositoryTicketSlot`; torn = died between `link` and `unlink` |
| `OrdinaryIntent` | `ordinaryIntent` |
| `Reserve`, `Ready`, `Consume` | `reserve` and `update` of the preparation service |
| `Transfer` | `transferRepositoryTicketSlot` |
| `ReleaseObserve`, `ReleaseRefused`, `ReleaseCommit` | `releaseRepositoryTicketSlot` |
| `StartResume`, `Handoff`, `HandoffInterrupted` | structured resume: `bindChild`, `handoffDirectOwner`, `handoffExecution` |
| `Start`, `AcquireCustody`, `SpawnRunner`, `TransferCustody`, `FinalizeCustody`, `Terminate` | how the launcher, the runner and terminal publication use them |

### AgentSessions

The interactive sessions of the Agent API server. It is one event loop, so an action
is one callback and the interleavings are those of callbacks: client messages, the
continuation after an awaited preflight, a child's output, exit and close, timers.

- `table`: the session table; `child[s]`: the child process (`unused` id, `deploy`
  session without a child, `running`, `missing` when the spawn failed asynchronously,
  `exited` or `killed` and not yet closed, `closed`).
- `stopping`, `signalled`, `timer`, `carry`: `terminated`, `child.killed`, the armed
  escalation, the buffered incomplete line; `sinks[s]`: who hears the session.
- `run`, `nid`, `native`: runtime, native session, and the map that remembers in
  which runtime a native session lives. `known`, `owner`, `told` are history.
- `conn`, `active`, `pending` per WebSocket connection; `sse`, `watch` per SSE request.

| action | code |
|---|---|
| `Exit` | a child ends (external) |
| `Output`, `SpawnError`, `Close` | `handleStdout`/`handleStderr`, `handleError`, `handleClose` |
| `Escalate` | the timer `terminate` arms |
| `Connect`, `Request`, `Rejected`, `Refused`, `Disconnect` | the handlers of `/ws/session`; `Request` ends at the awaited preflight |
| `Create`, `CreateFails` | the rest of a start or resume: `createSession`, with its spawn failing synchronously |
| `Stop` | `stop`, from a connection's message |
| `Register`, `RestStop` | `register`, `POST /api/sessions/:id/stop` |
| `Observe`, `StreamDone`, `StreamAborted` | `GET /api/sessions/:id/stream` |
| `Shutdown` | `cleanup` |

### Registry

One SQLite database; a write is one immediate transaction and one action. `rows[d]`
are the terminal event rows of a deployment (results, not texts; `IsFailed` is
`isFailedTerminal`, `Shown` what the projection makes of a row), `status`, `head`
and `ticket` the projection that each write updates, `startHead` the commit of the
immutable started event, `authority[p]` the authority updates of a parent, `claim[a]`
the consumer of a review authorization, `settling[c]` the durable intent of a
settlement (RepositoryAdmission has its other half), `staged[d]` the file in which a
foreground agent leaves its result. `life[d]` is the progress of the processes.

A command that reads the registry and then appends is two actions, `Decide` and `Act`;
what it decided is a member of `jobs` in between. Those are `registry complete
--fallback`, the runners' terminal marker, the OpenCode runner's result, `registry
clean`, `registry sweep` and `status --wait`, of which only the last looks again.

| action | code |
|---|---|
| `Start`, `Replay` | `appendRegistryEvent` of a started event, and of an exact replay |
| `Pid`, `AgentExits`, `OrphanExits`, `SupervisorDies` | the processes (the last two external) |
| `Complete` | `registry complete`, `POST /api/deploy/complete` and `/crash` |
| `Stage` | `registry complete` by a foreground agent of Pi |
| `Finalize` | `writeTerminal` and `reconcileRunnerTerminal`, through `reconcileTerminalRegistryEvent` |
| `OpenCodeAppends` | what the OpenCode launcher and runner append without reading |
| `Decide`, `Act`, `GiveUp` | the commands above; `IfAbsent` is `reconcileTerminalRegistryEventIfAbsent` |
| `Associate` | `associateDeploymentTicket` |
| `ClaimReview` | `claimReviewAuthorization` |
| `AdvanceParent`, `SettleIntent`, `SettleAdvance`, `AdvanceDirect` | `advanceParentAuthoritySnapshot` at a child's finalization; a settlement's intent and its publication; `advanceDirectAuthoritySnapshot` |

### BackgroundLaunch and LaunchCustody

One background deployment of Pi, of one of five kinds: without authority, an owner with
its ticket slot, a borrower of the primary root, a parented implement, a protected review
(`Held` says what the launcher then holds). Four actors:

- the **launcher** (`launcher`, `seen`, `verified`, `pid`): writes hand-off and
  configuration, starts the detached runner, polls its ownership evidence until it is
  ready, fails, or the deadline passes, then terminates and settles what it still can;
- the **runner** (`runner`, and the locals of `runPiBackgroundRunner` by their names):
  takes over, runs the review's matrix, starts and supervises Pi, records the result,
  gives back in its finally block;
- the **child**, the Pi process, in a process group of its own;
- the **operator** (`observer`) in `status --wait`.

They share `config`, `handoff`, `ownership` (three files), `custody` and `reservation`
(the repository evidence, see RepositoryAdmission and TicketCapacity) and `row` (the
registry, see Registry). A step is what one process does between two of its effects on
these; `LauncherDies` and `RunnerDies` come between any two.

| action | code |
|---|---|
| `Write`, `Spawn`, `Poll`, `Accept` | `launchPiBackgroundRunner`; `Accept` is also `acceptRepositoryAuthorityHandoff` |
| `GiveUp`, `Kill`, `Terminated`, `Clean` | `terminateRunner` and the removal of the files |
| `GiveUpSource`, `GiveUpSlot`, `GiveUpRow`, `GiveUpReservation` | `writeTerminal`, `finalizeActiveRepositoryAuthority` in `deploy.ts` |
| `Boot`, `Start`, `Read`, `TransferSource`, `TransferSlot` | the runner up to its transfers |
| `ReadReview`, `AdmitMatrix`, `EndMatrix` | a protected review before its reviewer |
| `SpawnChild`, `SpawnFails`, `Closed`, `Interrupt`, `CleanedUp` | `runPiManagedProcess` |
| `Finalizing`, `Record`, `Finalized`, `Throws`, `Catch`, `Report` | the rest of the try block and its catch |
| `ReservationBack`, `SourceBack`, `SlotBack`, `Unsettled`, `Retract`, `FinallyThrows`, `Marker` | the finally block |
| `ChildExits`, `ChildReports` | the Pi process and its `registry complete` |
| `SeeRow`, `SeeOwner`, `OwnerLives`, `OwnerDead`, `Recheck`, `Orphan`, `StalePid`, `Crash` | `waitForDeployment` |

**LaunchCustody** is what the launch promises, without processes and files: each thing
passes from launcher to runner once, is given back at most once and never returns, and
the launch is reported as pending only when the launcher answers for none of it any
more. BackgroundLaunch implements it (`KeepsCustody`), with `custody` for itself and the
launcher's outcome for `report`.

### What is done to tickets: MCTickets

A module for each writer of a ticket and for what reads or becomes one. In all of them an action is what one
process does between two effects that another can see, and a process may die there.

| module | variables | actions and code |
|---|---|---|
| DocumentPackages | `events` (the journal), `files`, `refs`, `primary`, the ticket, `call[s]` per session | freeze, decide, publish, queue, reconcile of `documents/package-service.ts` with `registry/documents.ts` and `tickets/package-publication.ts` |
| WorkflowRuns | `run` (what `replayWorkflow` makes of the journal), `pairFiles`, `pairRefs`, `request[c]` | decide, adopt, recover, revoke, request, reconcile of `workflows/service.ts` with `ticket-owner.ts` and `tickets/paired-publication.ts` |
| TicketStore | `files`, `counter`, `audit`, `call[c]` | create, update, comment, move, delete of `tickets/store.ts`: each `writeFileSync` truncates, then fills |
| BranchMaterialization | the branch, its reflog marker, `link`, the slot's intent, `step[c]` | `tickets/materialization.ts`, with Git used by an operator between any two steps |
| PreparedWorkflow | `journal`, `slot`, `leases`, `branch`, `call` | request, authorize, perform, retry, consume, revoke of `deploy/prepared-workflow.ts`, `prepared-native.ts`, the analyst's tool and the builder's launch |
| SignalNotes | `arrived`, `cursor`, `raw`, `routed`, what was written of each note, `run[c]` | `signal collect` of `signal/reader.ts`, `router.ts`, `writers.ts`: save behind the cursor, route, mark, reprocess |
| PhaseReports | `reports`, `keyed`, `receipts`, `directories`, `index`, the call under way | the report tool of `artifacts/phase-report.ts` and `pi-pa/phase-report-native.ts`, file by file |
| DeployRequests | `launch` (the request and how far it got), the registry book, the pool, `genuine` trees, the ticket's link, `here` | `ppa deploy`, `opa deploy`, `POST /api/deploy`, resolution, evidence and `resolveExecutionPlan` of `deploy/plan.ts`, with everything read edited between the stages |

A late note, and one of several lines (rows are cut at newlines, signal/reader.ts:202), is never
collected; reprocessing makes tickets again; a torn state file starts from zero. A report's call
that stops between its record and its key leaves an attempt that nobody takes up, and the retry
takes the next number; a file left with two names or edited is refused for ever; a note that is
written between the last comparison and the rename is lost (`NotesOutlive` says only what the
comparison can see). A request that names a key is accepted although another key names the
same path; the API plans at the server's directory.

### The work of an agent: MCExecution

| module | variables | actions and code |
|---|---|---|
| ExecutionCustody | `journal`, `facts`, `result`, `tree`, `lease`, `slotOwner`, `session`, `effect` | begin, finish, verify, resolve, capture, complete, interrupt of `deploy/execution-custody.ts` and `pi-pa/execution-native.ts`; restart of `workflow-resume.ts` and `execution-restart.ts`, record by record |
| ReviewMatrix | `review`, `claims`, `group`, `exit`, `results`, `saved`, `ledger`, `settled` | admission of a review, executor, supervisor and its recovery, and the workflow's proof: `validation-launch.ts`, `validation/executor.ts`, `validation-supervisor.ts`, `workflow-matrix.ts` |
| ReviewAdmission | `profile`, `drift`, `at[l]`, `seen`, `fresh`, `workspace`, `journal`, `holder`, `claim` | the reads of a protected review before its commands, in order: `review-preflight.ts`, `validation-launch.ts`, `review-v1-launch.ts`, `nixos-prerequisites.ts` |
| SessionTools | `list`, `leaf`, `file`, `dialog` | `pi-extension/todo.ts` along the branches of a session, `deploy/task-snapshot.ts`, `question.ts` |
| NativeOperations | the operation's record, barrier, process group, `faults` | `operations/service.ts`, `evidence.ts`, `files.ts`, `host.ts` and the tools of `advisory.ts` |
| AgentActivity | the log, the inspector's and the projector's tables (Pi); the line buffers, the plugin's table and barrier (OpenCode) | `PiActivityProjector`, `PiToolProtocolInspector`; the OpenCode runner's writer, parser and `pa-safety-activity.ts`; `activity/index.ts` |

Legacy matrix profiles are reached only by a caller that brings its own preflight: the one of
`ppa deploy` accepts v1 objectives. An operation whose streams cannot be made, or whose process
was not recorded, leaves its barrier for ever; a command that leaves a background process in
its group is never settled; one that left its group and holds the pipes keeps the call waiting
past its timeout. The OpenCode runner's error output shares the line buffer with its records, so
a piece without a newline swallows one; a failed append in the runner is retried as text and then
ends it; the plugin keeps its key of repetition before it appends, so a retry within a second of
a failed append leaves a tool without its event; a tool that throws leaves the barrier.
A line of Pi longer than the 256 KiB carry is read as text, so that a record of its end is lost.
A task that depends on a cancelled one is blocked for ever.

### The processes of a host: MCHost

| module | variables | actions and code |
|---|---|---|
| PiDeploy | `slot`, `lease`, `borrower`, `review`, `row`, `file`, `agent`, `launch[d]` | every synchronous block of `runPiDeploy` (`pi-pa/deploy.ts`), its early returns, roll-backs and terminal results |
| OpenCodeDeploy | `launcher`, `supervisor`, `lease`, `row`, `evidence`, `agent`, `log` | launcher and supervisor of `opencode-pa/deploy.ts`, `adapter.ts`, `background-runner.ts` |
| EvidenceFiles | inodes under `path`, `temporary`, `kept`; `helper`, `callers` | publish, replace, inspect, quarantine, release and the mutex of `repository-admission.ts`, system call by system call: what RepositoryAdmission takes for one action |
| ServerLifecycle | `pidFile`, `port`, `at[p]`, `target`, `sent` | start, stop, restart, status of `serve-lifecycle.ts`, with crashes and reused identifiers |
| OperatorInbox | documents per folder, `req[r]`, attachments | the inbox and folder actions and uploads of `agent-api/routes/actions.ts`, `utils/markdown.ts`: a handler is atomic after it awaited its body |
| TrashStore | `disk`, `bin`, `manifest`, `counter`, `active`, `pc[p]` | move, restore, purge of `trash/store.ts`, create and resolve of `bulletins/store.ts` |

The commands of the pid file are safe one at a time only (`raced`): each removes the file by its
name, and a killed server is not awaited. Trash and bulletins take no lock, whatever the comment
at trash/store.ts:7 says: a torn counter stops every later command, a torn manifest reads as
empty, a bulletin of the same day and title replaces another. In the inbox an annotation stays
when the move that follows it conflicts, and acknowledgement notes are replaced by later ones.

AgentSessions runs here too, with two sessions and one slot.

### What must happen at last: MCLive

| module | variables | actions and code |
|---|---|---|
| ForegroundSession | `child`, `marker`, `code`, `session`, `outcome` | `PiAdapter.run` and `runPiForeground` of `adapter.ts`, `runtime-start-gate.ts` |
| ArtifactReviews | `record`, `sup`, `journal`, `export`, `owner` | start, stop, end, serve, feedback, export of `artifacts/session.ts`, `supervisor.ts`, `runtime.ts`, `feedback.ts` |
| GitContext, RefreshLimiter | `input`, `shown`, `overlay`, the collection under way, the saved choice | select, save, refresh, reset of `git-context-ui.ts`, `git-context-state.ts` |
| SessionPanel | `phase`, `ticket`, `shown`, `flight`, `ask`, `child` | refresh, association of a ticket, reconciliation of a child and shutdown of `context-ui.ts`, `child-reconciliation.ts`, `pi-extension/index.ts` |
| LiveUpdates | `disk`, `snapshot`, `due`, `hub`, `seen[c]` | scans, debounce, poller, broadcast, ping of `agent-api/ws/watchers.ts`, `hub.ts` |

NativeOperations runs here too, with one operation, for what it promises at last.
A scan that finds nothing is left out; deleted tickets and replaced registry rows are never told;
a file that a new client read before the pending scan, and that is gone by that scan, stays on
its screen (`early`). An older collection may overwrite a newer panel until the next refresh;
a failed lookup shows the environment's ticket.

AgentSessions runs here with one session, an SSE stream and both runtimes.

**One run for several parts.** MCTickets, MCExecution, MCHost and MCLive hold modules
that share no state. `part` names the one that runs, chosen at the start; the variables
of the others keep one idle value, so the search is the *sum* of the instances, not
their product. The properties of a part are stated for behaviours of that part, each
behind `part = …`, and fairness likewise.

The `MC…` modules name the instances' model values.
The `…Proofs` modules hold the theorems.

## Runs

Sizes are distinct states and search depth. No run has a state constraint: the
bounds are guards of the models, so each search is exhaustive for its instance.

| run | instance | states, depth | what it shows |
|---|---|---|---|
| AdmissionLinked | foreground orchestrator, background child, linked worktree, one commit, one receipt | 904,036 · 30 | `TypeOK`; `EvidenceAgrees`: one holder per source (`SoleHolder`); a child's evidence never outlives the lease it borrows from (`BorrowedFromParent`); the evidence of an unresolved settlement moves only with it, at most one effect ahead of its record (`SettlementFrozen`). A receipt admits one child and is off the disk from then on (`ReceiptsUsedOnce`); authority does not move under a running child (`AuthorityStableUnderChild`) |
| AdmissionPrimary | orchestrator, child, OpenCode builder, primary root, force and quarantine | 788,996 · 29 | where stale evidence may be replaced, a live child bars every launch (`LiveChildExcludes`) |
| AdmissionRestart | two orchestrators, one resuming the other, an implementer, a reviewer | 1,380,730 · 31 | a hand-off never displaces a running owner (`LiveOwnerKept`), reviews and writers exclude each other (`ReviewExcludesWriters`) |
| Capacity | two successive deployments of one ticket and a rival for another, one permit | 327,168 · 33 | `TypeOK`; `CapacitySafe`: `PermitsDistinct`, `CapacityBound`, custody always has capacity (`CustodyHasCapacity`). `CapacityHeld`: nothing is freed before its release (`RetainedUntilReleased`); a rollback keeps what another holds (`UnstartedIntentKept`); a successor starts after its predecessor's processes (`NoLiveOverlap`) |
| Registry | a parent with its child, or two reviewers of one ticket and branch, or an OpenCode deployment in the foreground or background; two tickets, two authorizations, two commits, two rows, one command | 394,835 · 17 | `TypeOK`; `RegistrySafe`: the status is that of the last row, however writers interleave (`StatusIsLastRow`), active claims are exclusive (`ActiveReviews`). `ParentAuthority`: authority updates form a chain (`AuthorityChain`) on the ticket they were made for (`AdvancedOnTicket`). `ResultsKept`: authorizations are used once (`AuthorizedOnce`), a supervisor drops no recorded failure for a success, nor its own for one (`SupervisorKeepsFailure`, with the failures that are shown as success named), `status --wait` yields to a result that came first (`ObserverYields`) |
| BackgroundLaunch | one launch of each of the five kinds, fair launcher, runner and operator | 736,962 · 30 | `TypeOK`; `LaunchSafe`: launcher and runner never settle together (`OneSettler`); a checkout stays taken while Pi works in it (`AuthorityOutlivesAgent`), a candidate while it is reviewed (`ReservedUntilReviewed`); a failure that was reported stays (`FailedLaunchStays`); the finally block loses nothing silently (`EndedReturnsOrFails`). The abstract promise (`KeepsCustody`). `LaunchEnds`: a pending launch gets a row although its runner is killed (`PendingIsRecorded`), an owner's runner that is not killed returns lease and slot (`OwnerReturns`) |
| Tickets | the modules of MCTickets | 1,029,089 · 81 | `DocumentsSafe`: a write of a package is covered by a standing approval and by the one pending intent; the owner's list names whole reports, and no note that an update could see is lost. `WorkflowSafe`: two deployments never perform effects of one run, a write belongs to the pending intent and the current subject and comes after its approval, an adopted document coordinator gets no source step. `StoreSafe`: an acknowledged change is in file and audit, an id is given out once, whoever dies in between; the collector's cursor passes no note, and a private one stays in its log. `BranchSafe`: what a materialization returned is what link and branch say. `PreparedSafe`: journal and capacity row agree, each retry was confirmed for the failure the operator saw; a plan is of the accepted repository, with the evidence its role needs. `TicketsSteps`: a result is recorded only of a proven effect, a recorded base never changes, no prepared effect without authorization |
| Execution | the modules of MCExecution | 1,714,855 · 102 | `ExecutionSafe`: an effect that runs belongs to the one agent that journal, lease and slot name, and a phase is left only with checks that succeeded on exactly the committed content; a matrix starts only on what its runner read as approved, a passed one ran, once, and the candidate is given up only when none of its processes can write. `SessionSafe`: the published task list is the agent's, while a process of an operation lives its barrier stands, a run succeeds only when each announced call was executed once. `ExecutionSteps`: a failed check is cleared only by an answer, a ledger never changes and is what the reviewer is told |
| Host | the modules of MCHost, and AgentSessions with two sessions, one connection with two requests in flight, one slot | 1,396,972 · 46 | `CapacityKept` although two continuations meet the last slot; `EndsTold`: no slot is lost (`SlotsLive`), a client hears exactly one end (`OwnerToldOnce`). `LaunchesSafe`: a runtime that may run keeps its custody, a call that comes back holds nothing it did not report, answer, registry and status file agree; an OpenCode agent works under the lease and on its snapshot, who is told "pending" has a supervisor, no answered agent is stopped. `ServerSafe`: while commands come one at a time the server that listens is the recorded one; no document of the operator is lost or doubled by requests that overlap, and no trashed file by commands that overlap or die. `EvidenceSafe`: published evidence is never lost, a setup runs alone. `HostSteps`: live evidence is not taken away, no release before a result |
| Live | the modules of MCLive, and AgentSessions with one session, one SSE request, two runtimes; fair | 369,834 · 29 | `ForegroundSafe`: a result that claims the child's end is true, the proof of exit is one of a natural end, only the admission opens the gate. `ArtifactSafe`: an ended review stays ended and one supervisor, the recorded one, serves it. `PanelsSafe`: what is shown as current answers what was asked, a command of the panel changes what the operator confirmed, nothing reads the registry after the session closed it. `SessionSettles`; `ServicesFollow`: a server does not outlive its owner, a panel does not load for ever, a connected client is brought up to date, an operation ends (`Waits ~> ~Waits`); `SlotsFollow` (`Lingers ~> ~Lingers`): the slot of a child that is gone is freed, the stream of a session that ends by itself closes |

**Bounds.** `MaxHead` bounds commits: the code compares HEADs for equality and
ancestry, and one commit already gives "advanced" and "not advanced".
`MaxReceipts` bounds receipts published: reuse needs one. A worktree has at most
one lease per slot, one borrower and one review, so two contenders for a file and
one bystander produce every conflict; a third deployment of a role repeats what
the second does (the proofs hold for any number). `MaxSlots` is 4 in the code and
1 or 2 in the runs, so that the limit is reached; permits are compared only for
equality and order. Crashes are unbounded: any process may die at any step.
`MaxPending` bounds the requests of one connection that await a preflight: two are
needed for one to pass the other. One connection is enough for the session table,
because a sink belongs to one connection and the limit counts sessions, not clients.
In AdmissionRestart every deployment runs in the foreground, so a hand-off to a
background runner that has a successor, and a reviewer meeting a borrower, are
covered by the theorems and not by a run.

In Registry deployments share nothing but a ticket, a branch and the parent of a
child, so `Together` lists the sets worth starting together. `MaxRows` bounds the rows
that are appended: two give every order of two writers, and reconciliation, which is
not bounded, meets zero, one and two rows. `MaxAuthority` is 2: a child's update after
the parent's own, and the other way round. `Heads` has two commits, since heads are
compared for equality and ancestry. `MaxJobs` is 1: commands do not read each other's
decisions, only rows. `Verdicts` are what agents report: success, success
with a nonzero exit code, completed without a status. A stated `partial`, `failed` or crash is left out,
since the registry treats it like a supervisor's or a marker's, which the run has. `Watched` leaves out the deployments whose
commands would repeat those of the listed ones. The theorems have none of these bounds.

BackgroundLaunch has no bound: a launch has one runner and one child, and none of its
loops counts. What is not in it is a second launch; two launches meet only in the
worktree's evidence, which is RepositoryAdmission's.

In the runs of several parts: two actors of a kind (sessions, coordinators, callers,
supervisors, builders) give every conflict over one record, and a third one in TicketStore
and BranchMaterialization lets a successor find what two others left. `MaxFaults`,
`MaxMishaps`, `MaxCrashes`, `MaxBusy`, `MaxBreaks`, `MaxFailures`, `MaxEnds` and `MaxChances` bound deaths, failing writes and refused locks: one
or two put a fault at every step, and the state after it is explored without bound.
`MaxOperator`, `MaxEdits`, `MaxTouches`, `MaxDevelop`, `MaxFeature`, `MaxSteps`, `MaxWorld`,
`MaxDrifts`, `MaxWrites`, `MaxConnects`, `MaxReuse`, `MaxOdd` and `MaxNoise` bound what people,
Git, clients and agents do beside the program; debouncing could be starved by writes without end,
which `MaxWrites` rules out. DeployRequests makes one of the 26 requests of `AskedHere`, two
changes around it. `MaxEvents`, `MaxRevision` and `MaxAttempts` bound
journals; DocumentPackages' three events reach a package published over an interrupted
one, WorkflowRuns' eight revisions a second subject. `MaxContent` bounds the
contents of a worktree, compared for equality alone; `NoProgressLimit` and
`ReplacementLimit`, 3 in the code, are 1, so that they are reached.

**Deadlock.** `CHECK_DEADLOCK FALSE` in the admission, permit, session and launch runs: once every process has ended and
all evidence is retained or removed the system has legitimately stopped.

**Fairness.** The admission, permit and registry modules assume none and claim no liveness: a
launcher or runner may die anywhere, and the code has no daemon that finishes its
work. What it promises is that evidence is retained, which is safety. AgentSessions
assumes that the event loop delivers what is due: weak fairness of `SpawnError`,
`Close`, `Escalate` and `StreamDone`, each only while the server runs. Node delivers
`error` and `close` of a child that is gone once its pipes are closed (a descendant that keeps
them open would delay that for ever), fires timers
and runs resolved promises. Nothing is assumed of children (they may ignore
SIGTERM), of clients, or of output.
BackgroundLaunch assumes weak fairness of the launcher's, the runner's and the operator's
steps, each as a whole and not of single outcomes: every wait of launcher and runner has a
deadline (readiness, process tree, the child's timeout, which is `Interrupt`), and the
operator polls until there is a row. Their deaths, the child's exit and its report are
not fair, so the two liveness properties hold although a child never ends by itself.

Live asks for fairness part by part, of behaviours of that part only. ForegroundSession:
weak fairness of the machinery (callbacks that are due, the monitor's interval, the cleanup's
steps) and of the timeout; nothing of the child, the operator or the PTY, which may
never tell. ArtifactReviews: of the supervisors' own steps and intervals. GitContext and
SessionPanel: of collections and saves that are under way and of the interval. LiveUpdates: of
the scans that are due, the poller and the ping, which are timers. NativeOperations: of the call's
own steps, its timeout and its kill, for processes that did not leave their group. AgentSessions:
as above.

**Symmetry** is used of the two authorizations in Registry, of requests, analysts and
builders in Tickets, of the phases in Execution and of the callers in Host: nothing orders
them. Live, which checks liveness, uses none.

## Disagreements between code and documentation

The first two are runs with `expect: violation`: TLC finds a behaviour of the code that the
quoted text rules out. The other two no longer have a run; the states they speak of are
states of Capacity and Registry.

| run | the text says | the code does |
|---|---|---|
| DocSigkill | terminate escalates to SIGKILL (comment, session-hub.ts:57) | never, once SIGTERM was delivered: `child.killed` is already true |
| DocStreamClose | the stream is never held open forever (comment, routes/sessions.ts:75) | a stopped session with a running child resolves no stream |
| – | terminal handling finalizes slots and permits (docs/pi-pa.md:794) | the slot release is refused once while a review is reserved and never retried |
| – | a later failure replaces success and partial (comment, pi-pa/deploy.ts:1296) | a recorded partial result counts as a failure and is kept |

Also met while modelling; no run checks them:

- `--force` recovers stale builder evidence for `ppa` and `opa`
  (docs/api/cli-reference.md:199), but a Pi request that meets any lease is refused
  before `force` is looked at.
- A live orchestrator and a live implement deployment may coexist in a linked worktree
  (docs/pi-pa.md:1006), but the second one is refused.
- Uncertain advisory effects retain the writer barrier (comment,
  repository-admission.ts:1627), but a child registers under such an owner.
- Finalization retains a live parent's byte-identical lease
  (docs/runtime-neutral-config.md:161), but a successful child advances its snapshot.
- A stale slot is reconciled through ordinary admission (comment,
  ticket-concurrency.ts:498), but any stale slot refuses every ordinary admission.
- A connection tracks exactly one active session and auto-terminates it on disconnect
  (docs/api/websocket.md:229; comment, agent-api/index.ts:95), but any error answer makes it
  forget its session, two starts may await together, and a close forgets a start that awaits.
- `terminateRunner` signals the runner's process group, which Pi is not in: a runner killed
  250 ms after SIGTERM leaves its child running, and the launcher, which saw the group gone,
  may then give back lease and review reservation under it (the exceptions that
  `AuthorityOutlivesAgent` and `ReservedUntilReviewed` name).
- A runner that throws in its finally block keeps what it took over with a success on
  record; the marker it writes then finds a row and adds nothing.
- A runner publishes "failed" before it gives back. One killed in between is past its signal
  handlers, and `status --wait` looks at "active" and "finalizing" evidence only.
- `end` is the final event of a session (docs/api/websocket.md:406), but a stopped
  session's buffered line follows it.
- A resume in another runtime is rejected before spawn (docs/api/websocket.md:273),
  but after a resume whose spawn throws the runtime is forgotten.
- `registry complete --fallback` skips when a terminal event exists
  (docs/api/cli-reference.md:718), but it reads first and appends later.
- `registry sweep` marks a deployment that has not recorded a pid yet, and
  `registry clean` does not ask whether the process lives; both append after the
  reading, over a result that came in between.
- The OpenCode foreground launcher appends its exit over the result its agent recorded;
  the background runner asks first.
- `computeDeploymentStatuses` takes the first completed event, the projection the last row.
- A failed or crashed terminal wins over success (comment, registry/index.ts:698), but a
  completed event without a status, or a success with a nonzero exit code, is itself such a
  failure: it is kept over a supervisor's failure that follows, and projected as success.
- A failed spawn (session-hub.ts:341) undoes what the session registered, also what was there
  before it; an advisory operation that ends unsettled does not keep a child from registering
  (repository-admission.ts:1624); a publisher that dies between `link` and `unlink` leaves a
  slot (ticket-concurrency.ts:428), a lease (repository-admission.ts:3016) or a journal record
  (prepared-workflow.ts:494) unreadable for ever, and no operation repairs it.
- An interrupted publication whose package is then rejected or revoked leaves an intent that
  bars every package of the ticket; a queueing whose ticket a launch took meanwhile never settles.
- Ticket files, counter and audit are written in place: a crash leaves them torn. A move or a
  hard delete through an alias leaves the aliased ticket (store.ts:199, 215); a crash in a move
  leaves two live copies.
- A launch that dies between "started" and "observed" of its consumption blocks the
  preparation for ever (deploy.ts:474, prepared-workflow.ts:754).
- `resolve` accepts a pass during whose run the worktree changed (execution-native.ts:984);
  the restart of a session whose launcher dies between reserve and bind can never be repeated
  (workflow-resume.ts:118).
- A legacy review is given up without its commands' process groups having settled
  (validation-supervisor.ts:208); a matrix whose supervisor dies after its start is "unknown"
  for ever (workflow-matrix.ts:116).
- A foreground owner's lease is released although its cleanup is unverified
  (pi-pa/deploy.ts:1246); an orchestrator refused because a review holds the checkout keeps
  its permit (ticket-concurrency.ts:277).
- An OpenCode launcher whose registry write fails after its supervisor took the lease releases
  that lease while the agent runs (opencode-pa/deploy.ts:331); a permission that was asked,
  then another asked and only the first answered hides the second (background-runner.ts:242).
- A busy lock at the close of an artifact session leaves a "running" record without server
  (artifacts/supervisor.ts:178); feedback after the last export makes the next a conflict.
- A selected branch that is deleted keeps the Git panel's selector from opening until a new
  session (git-context-ui.ts:111).

## Proofs

All theorems hold for arbitrary sets of deployments and tickets and any bounds,
from `RolesAssumption` and `NoneAssumption` (roles disjoint; OpenCode only at the
primary root, reviews only in linked worktrees; `None` differs from every record)
`CapacityAssumption`, `KindsAssumption`, `SessionsAssumption` or `RegistryAssumption` (types of the constants, disjoint roles,
`None` again), and for the modules that run together from the assumption of each instance, which
the MC module names (`BranchConstants`, `WorkflowConstants`, …) and TLC evaluates. These give the
types of the constants and keep markers apart from members: "free", the mutex that nobody has,
is no session (`DocumentsAssumption`); a key of the repository registry is no path, the registry is
finite, and requests, pool rows and the first registry are well formed (`RequestsAssumption`); the
deployment that an operator prescribes has the name of no launch (`AdmissionAssumption`).

**RepositoryAdmissionProofs.** `TypeCorrect` first. The other invariants are not
inductive alone; `Custody` joins `SoleHolder`, `ReviewExcludesWriters` and
`SettlementFrozen` with the facts that make them so:

- `Launches`: processes start once, a launcher with the started event and a runner
  with the launch of a background deployment.
- `SettlementFrozen` is inductive: an effect needs the record of the one before it, and a record
  its own effect.
- `TokenRetired`: a lease that was handed over keeps its token, and the token's first
  holder has no runner left that could take the lease back. Transfer and release ask
  for the token alone, so this is what stops a late writer.
- `ChildBound`: the lease a child borrows from has reached its last process, so a
  transfer under the child changes nothing; once that lease is closed no process is
  left that could take the child's evidence over. `BorrowedFromParent` follows.

From `Custody` follow `OneSourceHolder`, `ChildHasParent`, `ReviewIsExclusive`,
`SettlementIsFrozen`, and the action properties `LiveOwnerIsKept`,
`LiveChildBars` and `DelegatedAuthorityStands`, one step per action. The last needs `ChildBound`: the
lease of a parent with a live child is at its last process, so only a settlement or a direct
snapshot could move it, and both ask that the child is over. `ReceiptsAdmitOnce` has an
invariant of its own, `ReceiptInv`: the receipts on disk are finitely many, and with the used ones
no more than were published; a use takes one off the disk, which fixes the cardinalities. Their
ids are published and distinct (`PublishedIds`), so that publishing renames no receipt into one in use.

**CustodyProofs.** For TicketCapacity `Invariance` proves `Inv`: `TypeOK`, `PermitsDistinct`,
`CustodyHasCapacity` and

- `HeldWhileLaunching`: while a launch holds capacity one of its processes runs and
  the file names it. Needed because a transfer, a release and a resume all act on
  the *ticket's* file, not on a path of their own.
- `VacantAroundCustody`: nobody takes the lease between what a launch or a release
  observed and what it does. This is what makes the unlocked observation safe.
- `ReleaseInProgress`, `Progress`: the release's process runs and its checks still
  hold; registry, progress and records agree.

`CapacityBounded` uses that `PermitOf` is injective on the occupied tickets and maps
into `1..MaxSlots`. `Retention`, `IntentKept` and `DeadPredecessor` are the action
properties, from `Inv`.

`ExecutionIsSafe` and `ExecutionStepsAreSafe` speak of three parts of MCExecution and rest on `Holds`:

- *Execution custody*, `CustInv`: who works owns the journal alone, and who inherits it succeeds a dead
  owner at rest (`CustOwners`); the operation in flight is of that owner, in direct custody, and began on
  what is known of the worktree (`CustOps`); contents are never used twice, so that what an effect, a
  result and the journal say of a content stays true whatever the operator or an orphan writes later
  (`EffectTrue`, `ResultTrue`, `JournalTrue`). That is why the finish of a check compares the content
  before and after. A lineage has a first deployment: `ExecutionAssumption` says so since the proof needed it.
- *Review admission*, `AdmInv`: `LaunchKnows` says for each place of a launch what it has read,
  reserved, counted and claimed by then, `ClaimBacked` that the claim is of a launch whose journal is
  whole and whose candidate and host were read. What was read stays read although the items drift,
  because each launch rereads its authority before it runs. That the prescribed deployment is no launch's
  was found here: otherwise a launch of that name would share its workspace with it.
- *Review matrix*, `MatInv`: before the executor's loop nothing of a deployment has run (`Untouched`);
  what an entry says of its command's process is true, whichever of exit, death of the group, timeout
  and crash came first (`EntriesTrue`); a deployment that is not reviewed now, or was verified, has no
  process that can write (`OthersQuiet`), and only one deployment of a workflow ever starts
  (`StartedOnce`). `ReleasedQuiet` and `ProvenRan` follow.

**ServerProofs.** The API server and what its host stores: `CapacityIsKept`, `TypeCorrect` and
`EndsAreTold` of AgentSessions, and `ServerIsSafe` of MCHost.

- *Agent sessions.* `CapacityIsKept` for any number of sessions, connections and
  streams, from the conjunction of "the table is finite and within its limit" with one
  lemma on how an action may change the table: the check and the insertion are one
  callback, so it needs nothing of the rest of the state. `TypeCorrect` and `EndsAreTold` rest on
  `HubInv`: the owner of an entry listens to it and nobody does once it is finalized (`Owned`),
  what the owner was told agrees with whether the session is still in the table (`Heard`), a
  connection's active session is its own (`Attached`), and a session without a child is nobody's.
  That a client hears *one* end needs all of them: each `close` relies on what an earlier `error` did.
- *API server*, `ServerInv`: while commands come one at a time, a command that stops a server knows the
  one that listens, and none listens once it goes on (`OneCommand`).
- *Operator documents*, `InboxInv`: a document is in one place (`OnePlace`), the lost ones are no more than
  the ends of the server in the middle of a handler, and without such an end every text that was
  acknowledged is in some document. A handler reads and writes back in one turn of the event loop, which is
  why overlap alone loses nothing.
- *Trash and bulletins*, `StoreInv`: as long as no two commands shared the counter, the identifiers in use are below the
  next one (`NumbersApart`); as long as no restore was overtaken, its way is free (`WayFree`); and for commands that came
  one at a time and lived, where manifest and trash stand at each step of a command, one
  entry per identifier (`LedgerHolds`), and which bulletin a command rewrites (`BulletinHolds`). `ContentKept`
  holds whatever overlaps or dies, up to the hazard it names.

**RegistryProofs.** `RegistryInvariant` proves `RegistryInv`: `TypeOK`,
`StatusIsLastRow`, `ActiveReviews` and

- `NothingUnborn`: no row and no command concerns a deployment that has not started;
  without it a start would publish "running" over an existing row.
- `HeadsKnown`: a started builder has branch evidence, which types the rows of authority.
- `ClaimsDistinct`: a reviewer consumes one authorization.

`Kept` takes the *first* failed row; that one exists is the least-element argument of
`Least`, from the well-foundedness of the naturals, so the number of rows is not
bounded. `ClaimStep` sums up what any step may do to claims: nothing, close those of
one deployment, or consume a fresh one; `AuthorizationsUsedOnce` and
`ReviewsAreExclusive` follow from it. `SupervisorKeepsFailures` and
`ObserverAlwaysYields` are the action properties. `ParentAuthorityIsOneChain` has `AuthorityInv`:
each update starts where the one before it ended, or at the parent's start if only a child's came
before (`Linked`), each child advances its parent once in each way (`OncePerKind`), and a running
parent's head is where the last update left it (`AtEnd`), which is what the next one is compared
with. A parent that has not started has none.

**BackgroundLaunchProofs.** `Invariance` proves `Inv`, `TypeOK` with seven parts, each
step of each by one leaf that names the parts it needs:

- `Sides`: no runner before it is started, none after the launcher verified its group
  gone; `OneSettlerOnly` is its second half.
- `HandedOver`: who works, and what the evidence says, comes after the transfer; also of
  the evidence the launcher *read*, which may be old. This is what a pending launch rests on.
- `Recorded`: the row behind a reported failure and behind "finalized".
- `Supervised`, `Moved`: what the runner believes of its child and of what it took over
  is true, at the points of its program where it acts on it.
- `Returned`, `Reserved`, `Accounted`: the reasons for each return. `CheckoutStaysTaken`,
  `CandidateStaysReserved`, `FailureStays`, `FinalizedEvidence` and `NothingKeptSilently` follow.

`LaunchRefinesCustody` proves the refinement: giving back twice and transferring twice are
stutters (`Returns`, `Passes`), `Accept` needs `HandedOver`, the launcher's failure is its
last step. The kinds of launch are the only constant, so the theorems say what the run
does, for any subset of kinds; what they add is an argument that needs no search.

**LiveProofs.** `ForegroundIsSafe`, `ArtifactIsSafe` and `PanelsAreSafe`, each for the behaviours
of its part. `ForegroundInv`: what says that the child ended is said after its end (`SaidWhenGone`), in whichever
order PTY, marker and timeout tell; only a cleanup signals it (`AskedByCleanup`); an unsettled session
has no result. `ArtifactInv`: a supervisor that serves is named by the record and knows it as it is
(`Knows`), a request waits at one that has served, and what was acknowledged is in the journal, of
which the export is a beginning (`JournalKept`). `GitInv`: a collection of the present session and
revision was asked for what is asked for now (`CollectsCurrent`), what a failed save puts back fits
together, and every selection under way may take one more revision, which bounds a counter by
a cardinality (`RevisionsLeft`); that there is a least obsolete collection is `LeastNatural`. `PanelInv`: the
limiter runs exactly while a collection is under way.

**HostProofs.** `LaunchesAreSafe`, `EvidenceIsSafe` and the action properties of `HostStepsAreSafe`.

- *Pi deployment*, `DeployInv`: until it returns a call knows exactly what it has, and it is of
  its kind (`Knows`); a live runtime was started by its call and is attended to, handed over, or
  left with its cleanup unverified (`AttendedCalls`); stage by stage of `writeTerminal` what stays is told, and
  a child's row is a failure before anything is given back (`ToldCalls`). That a failure is never
  answered with a success row rests on the last: a background launch that comes to `writeTerminal` at all
  asks for a failure, which a success recorded by a sweep or by the agent does not outlive. The three are sets of calls, so
  that `OneCall`, the frame lemma, keeps them for every other call: a step takes custody only from
  nobody or from its own call.
- *OpenCode deployment*, `OpenCodeInv`: nothing runs before it was started and no agent without the process
  that attends to it; a release comes after a result (`ResultFirst`, which gives `ReleasedAfterRow`);
  while nothing was killed and no call failed, who has the repository at each step; and the log behind the watchdog,
  whose time stamps grow and in which every asking of a running agent has a later answer (`Answers`).
- *Evidence files*, `FileInv`: one helper has a worktree's mutex, a record is under its temporary name
  exactly while its writer is about to publish it, and as long as no helper was killed under its
  caller, who works on a worktree has the mutex and finds at the path what it looked at
  (`Undisturbed`). `LiveEvidence` needs that what is quarantined has no live owner.

**TicketsProofs.** `BranchIsSafe` needs one fact besides the type: a head that was *checked*
descends from the base it was checked against, which no step of Git undoes since it speaks of
two commits and not of the branch. `WorkflowIsSafe` rests on `FlowInv`:

- `CallersLive`: a call is of a live deployment, an effect is performed for the coordinator, and
  the one inside the mutex of the ticket store holds it. Coordination is adopted only from a dead
  deployment, whose calls went with it: that makes `LoneCoordinator` inductive.
- `WritesUnproven`: a call that writes performs the pending intent, and the effect is not there
  yet. Needed because another call may settle the same intent; it can only settle what is proven,
  which a call in the middle of a file rules out (the file is torn).
- `InOrder`, `PendingNext`: the steps of a subject complete in order and the pending one is next,
  so that a package with a pending step was approved and no other decision is eligible.

`JournalMoves` (what an event of the journal may do to calls under way), `TicketWritten` and
`CallMoves` are the frame lemmas; each action is one of the three.

`DocumentsIsSafe` rests on `DocInv` and `RepInv`, `PreparedIsSafe` on `PrepInv` and `ReqInv`:

- *Document packages*, `CallHolds`: a call inside an effect has the mutex; what it writes is approved
  by a decision that stands, is announced by the one pending intent, and is there before its result
  is recorded. The operator's revocation is the hard step: it is asked for without the mutex, so it
  takes effect only if the journal has not moved since (`Answering`). The journal is a sequence
  without bound; `RowAppended`, `ApprovalsStand` and `OperationsMove` say what one row changes.
- *Phase reports*: `RepBooks` says that what is listed stands whole in its directory (`Backed`), the
  receipt file after the other four; `Relies` what a call may count on at each of its places, since the
  operator edits the owner's Markdown between any two. A note is kept if it was there when the file
  was compared (`rename` has only what was compared).
- *Prepared workflow*: the capacity row is that of the last action of the journal or of the pending one
  (`RowAccounted`), actions complete in order (`JournalOrdered`), and an action that was performed and is
  not yet in the journal is visible in the row (`PerformedThere`), wherever the call in between dies.
- *Deploy requests*: `LaunchFits` says, stage by stage, where the process is and what was found;
  `EvidenceOf` that evidence is of a leased linked tree of the repository the request was located in,
  although registry, Git and pool are read again at every stage. `ResolveIs` (a resolution is of the
  one entry that names the root) and `SameRepository` are what makes two readings agree.

`TicketsStepsAreSafe` proves the action properties from these invariants: `DocResults`, `BaseStays`,
`PrepAuthorized` and `PlansAreMade`. The proof of `PreparedIsSafe` showed that a child may be called from a
directory inside its linked tree, so that `SameRoot` compares the plan's tree with the *tree* of
the caller's directory; a request of that kind is in the instance since.

**Composites.** A run checks a component's invariants as one conjunction, and a theorem
proves it from those of its parts: `EvidenceAlwaysAgrees`, `CapacityIsSafe`,
`CapacityIsHeld`, `RegistryIsSafe`, `ResultsAreKept`, `LaunchIsSafe`.

**Only model-checked:** `LaunchEnds` and the other liveness properties; `StoreSafe`,
whose `AcknowledgedKept` follows aliases by a recursive function, of which nothing can be proved without
induction over data; `SessionSafe` (the tools, the
operations and the log of a session), whose proofs are planned; the violation runs. **Out of the prover's
reach:** liveness under fairness, ENABLED, induction over data and recursive operators.

## Abstractions

- A Git snapshot is branch, HEAD and cleanliness; the code compares digests of the
  same facts. Ancestry is the order of commits.
- Tokens, capabilities and ids are named by the deployment that created them:
  random 256-bit values do not collide.
- Malformed evidence by outside interference is left out. A torn publication
  (nlink = 2) is treated by admission like any evidence that is not live, and by the
  permits as its own case.
- A launcher that accepts its runner's readiness returns, which is its `Die`.
- In a resume, a failed (not only interrupted) second write leaves the same files
  as a crash and is modelled as one.
- TicketCapacity gives a ticket one worktree, and abstracts the worktree's evidence
  to who holds its lease and whether a review is reserved.
- In AgentSessions a native session is named by the session that created it, output is
  "complete lines" and "an incomplete rest", and a connection has one sink.
- In Registry a result stands for its row: texts, ratings, timestamps and exit codes are
  left out, up to whether a success has a nonzero one (a settlement also refuses the codes 124, 130,
  137 and 143), as are pid, amended and `registry update` rows, which change no status.
  A deployment's branch is materialized from its start. A background supervisor may
  finalize again after it gave back what it held. The two directions of a settlement,
  its evidence files and the rows it publishes, are RepositoryAdmission's and Registry's.
- In BackgroundLaunch the child is the process the runner starts, not its descendants;
  `ready` follows from the state of the evidence; an owner always has a ticket slot; a
  refusal by the repository evidence is an alternative, not derived from that evidence.
  Native executions and prepared workflows, which share the runner, are left out.
- TicketCapacity leaves out the occupancy `uncertain-retained` and the retained restart of
  preparations; PreparedWorkflow has the journal behind them.
- DocumentPackages leaves out intake reuse at ticket creation, discovery, comparison and
  templates. WorkflowRuns takes verification and append of a result for one action, and the
  revocation of decisions on earlier subjects is left out, as is `continues` of its caller check,
  which changes no answer.
- TicketStore: the content of a ticket is the set of changes in it. BranchMaterialization: a
  commit is its position; approvals are parsed elsewhere; legacy links are left out.
- ExecutionCustody leaves out the deadline and the administration and advisory calls; a
  capture with its lease advance, result and link is one action; an edit that is undone
  between two captures is invisible, as in the code. PreparedWorkflow: the Pi host never
  answers "failed"; the contents of sources are a boolean.
- ReviewMatrix: prerequisites, the NixOS gate, parsing and environment checks are a boolean;
  processes that leave their group, and a HEAD that moves, are left out.
- PiDeploy leaves out dry runs, resume, prepared admission and builder modes without a
  ticket; the owner's wait for a live child is one step. OpenCodeDeploy leaves out resume, dry
  runs, activity files and the registration of sessions.
- EvidenceFiles: a record is an inode. ForegroundSession: the child is one process; its
  descendants are left out. Its timeout is always armed, as for advisory launches and retained
  resumes (pi-pa/deploy.ts:1520); other foreground sessions have none, and last as long as their child. ArtifactReviews: no PID reuse, one output file. GitContext: a
  collection reads the repository at once.
- SignalNotes leaves out attachment names; PhaseReports has one phase, takes one call at a time (the
  tool is sequential) and verification for one step; its deadline and an unresolvable
  execution are choices. DeployRequests leaves the slot to PiDeploy, and leaves out structured and retained
  launches and dry-run evidence; a key never equals a path.
- ReviewAdmission: a document is as approved or not. NativeOperations: an operation is a caller
  process of its own, a process outside the group is nobody's custody, diagnostics ask for no
  barrier. AgentActivity: a run has one runtime, arguments and names are one comparison, the policy
  is a choice, Pi executes tools only after their message is over. SessionPanel: one dialog at a
  time, Git's own stale mark is GitContext's. ServerLifecycle: reading the pid file and testing its
  process are one step.

## Not modelled

Text and string processing without state (safety-policy patterns, primer and skill
assembly, formatting), argument parsing, HTTP plumbing, host probes, read-only
reports and the external Treehouse tool. Everything else listed as `not_modelled`
in `PROJECT.json` is planned.

## Plan

Next, in this order:

1. The proof of `SessionSafe`, one part at a time: NativeOperations, AgentActivity, SessionTools.
2. A refinement: RepositoryAdmission's settlement stages and Registry's publication
   implement one exactly-once commit; EvidenceFiles implements the atomic file operations of
   RepositoryAdmission.
3. `deploy/control.ts`, the safety policy and the Agent API's read routes.
