# A TLA+ verification project for ahu

ahu launches coding agents: it composes a prompt from committed files, places the
work in a Git worktree, starts a supervisor process that runs a harness (Claude
Code, Codex, ...) in a process group of its own, records what happens in a task
directory, and lets other processes resume, cancel, approve, inspect and dispatch
children of that task. There is no daemon: every command is a short-lived process,
every supervisor is another one, and they meet only in files and advisory locks.
What is hard to get right is therefore what happens *between* processes: which
durable write comes before which check, who holds which lock meanwhile, and what is
left on disk when a process is killed between two of its writes.

The modules here model that. Paths are relative to the repository (`src/headless.rs`
is the crate's file of that name). `PROJECT.json` maps every definition to the lines
it stands for.

## 1. The system

| Component | Source | State it keeps | Operations | What is hard | What makes it correct |
|---|---|---|---|---|---|
| Headless attempts | `headless.rs`, `headless/admission.rs`, `headless/journal.rs`, `task.rs` | `task.json`, `prompt.txt`, `headless.json`, `resume-journal.json`, `cancel.json`, and per attempt `spawn-intent.json`, `started.json`, `admission-closed.json`, `result.json`; the flocks `owner.lock` and `launch.lock`; the worker's process group | launch, supervise, resume, cancel, result/list, remove | several commands and supervisors at once; a kill between any two writes; a startup timeout racing a late start | one worker per task; no attempt run twice; what runs is what is recorded; a cancellation is honoured; a result proves the worker is gone; attempts end |
| Agent task service | `agent_task/{service,store,v1,inspection}.rs` | one durable entry per task: snapshot with revision, delivery state of every effect, receipts, replay window | register, get, replay, submit/cancel/input, dispatch of start/cancel/input, reconcile | repeated and raced requests, answers lost after publication, controllers dying around a call to the adapter | an effect reaches the adapter at most once; a repeated request gets its first answer; a terminal lifecycle is true; no entry is published that validation refuses |
| Child dispatch | `broker.rs`, parent checks in `headless/admission.rs` | a mailbox per attempt: requests, claims, responses | request, poll, claim, dispatch, cancel tree, drain | a supervisor lost between a claim and the child's launch; children admitted while the parent ends; bounded mailbox | a request is dispatched at most once; no child outlives the admission of its parent unseen; limits hold |
| Approvals | `approval.rs` | request and response files, the record's state, the approval lease, `cancel.json` | request, poll, decide, expire, retire on resume | decisions racing a cancellation, a timeout, a crash and a resume | an approval is consumed once, by the attempt that asked; a rejected or cancelled request is never approved |
| Task handles and index | `task_handles.rs`, `task_index.rs`, `task_ref.rs` | handle files created with `O_EXCL`, one per name and one per task; pointers to tasks of the store | reserve, resolve, register, remove | two launches choosing one name; a kill between creating a file and writing it | a handle never comes to name another task; a launched task is found |
| Migration | `migration.rs` | the four policy and lock documents, a journal with backups, the guard's flock | preview, apply, roll back | a kill between two writes; users and `ahu lock --update` editing meanwhile | a finished journal is true; an unfinished one can be rolled back; edits and backups survive |
| MCP server and MCP tasks | `mcp.rs`, `mcp_tasks.rs`, `mcp_decisions.rs`, `mcp_skills.rs` | durable task records of the MCP surface | create, poll, result, cancel | repeated polls, lost answers | one operation per record |
| Launch pipeline | `launch.rs`, `launcher.rs`, `orchestration.rs`, `snapshot.rs`, `git.rs` | worktree and branch; placement intent; the interactive task's record | compose, place, verify, run, roll back | rollback after a partial placement, a kill before the record | no worktree is lost unnoticed; a record names a checkout that is there |
| Interactive sessions | `interactive/*.rs` | the session an external host keeps; its reference in `task.json` | create, close, ask for liveness | a request whose answer is lost after it was served | nothing is taken back under a session; a cancelled task's session is closed |
| Plugins | `plugin_install.rs`, `plugin_binding.rs`, `plugin_exec.rs`, the cleanup guard in `headless.rs` | one package per pinned version, the committed and the working binding; the flocks a cleanup holds; a child process and its pipes | install, update, enable, disable, remove; exchange | a cleanup beside launches whose request is served late, removals of tasks and resumes; a kill in the middle of a deletion | no package is deleted that a session may still need; no headless task lives through a cleanup |
| State and storage | `state.rs`, `storage.rs`, `private_io.rs` | files replaced atomically; flocks | write, lock | torn writes | a reader sees an old or a new file |
| Telemetry and evaluation | `telemetry.rs`, `eval*.rs`, `otel_report.rs` | reports | export, score | numeric edges | totals are right |
| Harness catalog and selection | `catalog.rs`, `selection.rs`, `models.rs`, `native*.rs`, `hooks.rs`, `auth_binding.rs` | none | probe, select | changed installations | pure checks |
| Context and configuration | `agent*.rs`, `config.rs`, `context_lock.rs`, `drift.rs`, ... | committed files and a lock file | parse, verify | drift | pure checks |
| Command line, host API | `main.rs`, `cli.rs`, `commands.rs`, `crates/ahu-host-api` | none | argument parsing | none | none |

How they meet: a *client* command writes the task directory and spawns a
*supervisor*; supervisor and clients exclude each other with `owner.lock` (one per
task) and `launch.lock` (one per store: admission of tasks and children, and
cancellation of trees); the supervisor polls `cancel.json`, its worker and its
mailbox every 50 ms. The agent task service drives the same operations through an
`ExecutionAdapter` and keeps its own durable entry beside them.

The hazards, each at its line and with the properties that cover it, are listed in
`PROJECT.json`.

## 2. Modules

| Module | Models | Kind |
|---|---|---|
| `TaskWorktree` | what a task promises to whoever uses its worktree | abstract specification |
| `HeadlessAttempt` | the life of a root task, and its refinement mapping to `TaskWorktree` | detailed specification, properties |
| `HeadlessAttemptProofs` | its invariants for all constants, and the refinement | proofs |
| `MC_Attempt` + `MC_Attempt*.cfg` | instances of it | model checking |
| `TaskEffects` | what the agent task service promises about effects | abstract specification |
| `AgentTaskService` | the service, and its refinement mapping to `TaskEffects` | detailed specification, properties |
| `AgentTaskServiceProofs` | its invariant and the refinement, for all constants | proofs |
| `MC_Service` + `MC_Service.cfg` | an instance of it | model checking |
| `ApprovalPromise` | what an approval promises to who asks and to who decides | abstract specification |
| `Approvals` | a task waiting for an operator, the MCP workers that ask, its supervisors and resumes, and its refinement mapping to `ApprovalPromise` | detailed specification, properties |
| `ApprovalsProofs` | its safety properties and the refinement, for all constants | proofs |
| `MC_Approvals` + `MC_Approvals*.cfg` | instances of it | model checking |
| `TaskTree` | a root, its children and theirs: the broker, admission, cancellation of a tree, reconciliation | detailed specification, properties |
| `TaskTreeProofs` | its safety properties for all constants | proofs |
| `MC_TaskTree` + `MC_TaskTree*.cfg` | instances of it | model checking |
| `InteractiveTask` | an interactive task: launcher, session host, run-task, cancel, listing | detailed specification, properties |
| `InteractiveTaskProofs` | its safety properties for all constants | proofs |
| `MC_InteractiveTask` + `.cfg` | an instance of it | model checking |
| `TaskPlacement` | handles, checkouts, launch intents, records, index and removal, for headless and interactive launches | detailed specification, properties |
| `TaskPlacementProofs` | its safety properties for all constants | proofs |
| `MC_TaskPlacement` + `.cfg` | an instance of it | model checking |
| `ContextMigration` | `ahu migrate` beside editing users and `ahu lock --update` | detailed specification, properties |
| `ContextMigrationProofs` | its safety properties for all constants | proofs |
| `MC_ContextMigration` + `.cfg` | an instance of it | model checking |
| `PluginStore` | plugin packages: the commands that install and delete them, the launches, sessions, removals and headless tasks that depend on them | detailed specification, properties |
| `PluginStoreProofs` | its safety properties for all constants | proofs |
| `MC_PluginStore` + `.cfg` | an instance of it | model checking |

`HeadlessAttempt` starts where a headless launch of `TaskPlacement` ends, and `TaskTree`
launches children the same way; `InteractiveTask` refines the interactive launch of
`TaskPlacement` with its session, and `PluginStore` looks at the same launch from the side
of the package its session needs. `TaskPlacement` in turn reduces a supervisor or a
resume to one that owns the task, works, and ends.

### 2.1 HeadlessAttempt and TaskWorktree

*State.* The first group of variables is the task directory; `rec` is `task.json`
reduced to the composition frozen in it (the attempt and the client that composed
it) and the recorded state, `prm` and `spec` are `prompt.txt` and `headless.json`.
`dirs`, `intent`, `started`, `closed` and `result` are the files of each attempt's
directory. `owner` and `admission` are the holders of the two flocks; an flock dies
with its holder, which is why a crash action releases it. `cpc`/`cold`/`catt` and
`spc`/`sdig`/`satt`/`stop` are the local variables of clients and supervisors that
the code keeps across a durable step. `cancelled` is history: the attempts that a
completed `cancel` named.

*Steps.* One action per durable write or lock operation, since a process may be
killed between any two. A resume (`control`, `journal.rs`) is `ResumeBegin`,
`Recover*`, `ResumeChecked` or `ResumeRefused`, `WriteJournal`, `Save*`, `Uncancel`,
all under `owner.lock`, and then `start` without a lock: `MakeAttemptDir`,
`SpawnSupervisor`, `Acknowledge` or `StartFailed`, and on failure `FailLock` and
`Restore`. Cancellation is `CancelBegin`, `CancelWrite` under `launch.lock`.
`ProbeBegin`/`ProbeEnd` is `Lock::is_owned`, which takes the flock to see whether it
can. A supervisor is `CheckDigest`, `OwnAttempt`, `SpawnIntent` (takes `launch.lock`,
checks `cancel.json`, writes the intent), `Spawn`, `WriteStarted`, `SetRunning`, the
loop (`StopFor`, `StopTree`, `KillWorker`, `ChildExited`), `Drain`, `Finish`,
`SetFinal`, and `IOFails`, `WriteError`, `SetFailed` when anything fails.

*Abstractions.* The initial state is what a launch leaves when it releases
`launch.lock`. Only the task's own part of `cancel_tree` is here: children belong to
`TaskTree`, launch and removal to `TaskPlacement`. A probe that finds no lock file yet
fails in the code; here it may take the lock, which only adds interleavings.

*TaskWorktree* knows neither files nor locks nor commands: an attempt has its turn, a
worker starts for it, stops, and the attempt is judged; another attempt has its turn, and
a cancellation is lifted, only when nothing runs and every attempt that ran has its
verdict. It leaves room for what the code does beside the straight line: an attempt may
be judged that never ran, a failure to record the end replaces the verdict while the
attempt has its turn, and a supervisor that fails takes its worker with it in one step.
`cancel.json` is cleared only by a resume that holds `owner.lock`, `headless.json` is
rewritten only by such a one or by its recovery and rollback: this is what makes `Lift` and
`Turn` wait. It is a promise of supervisors that run to their end: one that is killed
leaves a worker behind, and the next owner of the lock does not look for it.

### 2.2 AgentTaskService and TaskEffects

*State.* `life`, `wanted`, `revision`, `delivery`, `receipts` and `changes` are the
entry that `Store::transaction` replaces atomically under the entry's lock; so a
transaction is one action, and the failures it has (busy, unreadable, unwritable, or
failing *after* publication) are `GiveUp`, `Fail`, and the disjuncts of `Accept` and
`ClaimEffect` in which the caller does not learn that it succeeded. `exec` is the
execution lock, `pc`, `eff` and `outcome` the dispatching controller.

*Environment.* `work` is the provider's process: it starts only while a call to
`start` is in flight, and ends at any time. The adapter answers `confirmed`,
`not_started` or `unknown`, and what it confirms is true (the contract stated beside
`ExecutionAdapter` in `v1.rs`); `unknown` promises nothing. `Reconcile` reports
evidence that is true, at any revision.

*TaskEffects* is what a caller relies on: an effect goes from absent to pending to
claimed to called, at most once; one call is in flight at a time; the task does not
end under a call and nothing is called once it is over.

### 2.3 Approvals and ApprovalPromise

*State.* `req` and `resp` are the two files of a checkpoint, `state` and `attempt`
what `task.json` says, `cancel` is `cancel.json`, `slock` is `state.lock` (taken for
the length of one read-modify-write) and `lease` the approval lease that one waiter
holds from request to retirement; `owner` is `owner.lock`, held by a supervisor or a
resume. `status` and `ctx` are the durable MCP jobs. A worker's `wpc`, `wjob`, `wreq` and
`wout` are its local state; `opc` is an operator between the two writes of a decision;
`rpc` a resume, and `rold` and `rnew` the attempt it would restore and the one it
prepares. `grants`, `decisions`, `rejected` and `overtaken` are history.

*Steps.* A request (`request_for_task`) is `TakeLease`, `Admit`, `SetWaiting`, then
`Poll`, `WaitCalledOff`, `Consume`, `Sleep`, `Expire` and `ExpireCancel`, and on the way
out `Retire` and `RetireRequest`: the two unlinks are two steps, and a worker may be
lost between them. A decision (`decide_locked`) is `Decide`, which publishes the
response, and `Decided`, which sets the state or requests the cancellation. The
supervisor's part is `SupOwn`, `Spawn`, `SetRunning`, `EndAttempt` and `SupLost`. A
resume is `ResumeBegin` and `Recover` (`recover_resume`), `ResumeLease`, `ResumeRetire` and
`ResumeRetireRequest` (`retire_for_resume`), `ResumeJournal` and `ResumeSave`, all of this
under `owner.lock`; then, without a lock, `ResumeAcknowledged`. A failed write is taken
back under `owner.lock` (`SaveFails`, `Undo`). A failed start is three steps, as in the
code: `StartFails` looks for the spawn intent, `UndoLock` tries `owner.lock`, and `Undo`
restores the record and `headless.json` without looking again and without `state.lock`. In
between a supervisor may take the task, spawn, have its worker ask, and end or be lost.

*Overtaken.* Then the attempt that ran is replaced by the one before it, under whatever
its worker and an operator are doing: its request stays open while the attempt changes,
and who is between looking at the record and writing it sets an ended task running.
`overtaken` says that `Undo` has restored the record over an attempt that was spawned
and is not the one it restores, and that no resume has cleared the checkpoint since
(`ResumeRetire`, `ResumeRetireRequest`). The properties that relate a request to an
attempt carry it as their only exception; those that relate a request to its decisions
and its answer do not need it.

*ApprovalPromise* knows neither files nor locks nor processes: a request is asked,
approved or rejected, and granted or withdrawn; one is open at a time; the attempt keeps
its turn while one is open; and an attempt in which a rejection took effect is barred. It
suspends what it says about attempts, and only that, while an attempt that began has been
taken back (`Overtake`) and until the checkpoint is cleared (`Clear`). It
leaves room for what the code does when somebody is lost between two writes: an
approval that was never consumed may be withdrawn or taken back, since a waiter that dies
between the removal of the response and that of the request leaves the request to be
decided again. `Phase` reads where a request is off what was ever decided of it.

### 2.4 TaskTree

*State.* `rec` says how much of a task directory is there: nothing, `task.json`
without `headless.json`, or both. `att`, `cancel`, `closed` and `result` are the files
that parents, children and cancellations read of each other. `env` is what the broker
freezes for a child in the environment of its launcher (parent, attempt, request).
`req` and `claim` are the mailbox, which is one directory per task and outlives an
attempt, and the claims, which are kept per attempt. `owner` and `admission` are
`owner.lock` and `launch.lock`. `spc` is a supervisor, `cur` the request it has claimed
and not dispatched, `lpc` a launcher (`ahu @agent --background`, a process of its own),
`thr` the supervisor's thread that waits for it, `todo` what a running `cancel_tree`
has still to write. `marked` is history: the attempts a cancellation wrote into.

*Steps.* A worker is `Submit` and `WorkerExits`. A supervisor is `OwnTask`, `AdmitSpawn`
(under `launch.lock`, with `validate_parent_attempt`), `Spawn`, and then its loop: a
reason to stop (`LookStops`), the exit of the worker (`CloseAdmission`), or the mailbox
(`Refuse`, `Claim` and `Dispatch`). A stop is `StopSelect`, `StopMark` for each task of the
tree, `StopMarked`, `KillWorker`; the end is `Join`, `Reconcile`, `Publish`. A launcher is
`AdmitLaunch`, `SaveTask`, `SaveSpec`, `StartKid`, `Acknowledge`; its thread is
`KillLauncher` and `Answer`. The host has an explicit cancellation (`Cancel*`) and a
resume of the root (`Resume*`).

*Abstractions.* One pass of the loop handles one request (the code takes up to eight
in a pass; each is claimed and dispatched before the next). `admission-closed.json`
and `cancel.json` of one task are written in one step, the tasks of a tree in several.
What a request contains, and which of the broker's checks refuses it, is data: any
request may be refused, and only one that carries the capability of the running
attempt may be claimed. Every reason to stop other than `cancel.json` may occur at any
time. A resume that fails after its save is in `HeadlessAttempt`, where the files it
restores are. The response to a dispatch is read only by the worker and is left out.

### 2.5 InteractiveTask

*State.* `rec` is `task.json` reduced to its state and to whether the session is
recorded; `worktree`, `cancel` and `lockfile` are the other files; `owner` is the flock
of `owner.lock`. `asked` and `session` are the session host's view, `inside` the
run-task that the session started. `lpc` is the launcher, `rpc`, `rout` and `worker` a
run-task process with the outcome it has yet to record and its harness, `cpc`, `seen`
and `report` an `ahu cancel`, `opc` and `oseen` a listing. `ended` is history: what
the last supervisor recorded.

*Steps.* The launcher is `AddWorktree`, `SaveRecord`, `Register`, `CreateSession` (one
frame on the host's pipe; from its first byte on the request counts as dispatched),
`SessionAnswer`, `RecordSession` and `LauncherCloses`, or `Rollback`. The host may serve a
request after the launcher has given up on it (`HostCreates`, `HostRefuses`). A run-task
is `VerifyTask`, `OpenOwner`, `LockOwner`, `VerifyAgain`, `SetRunning`, `LookForCancel`,
`Spawn`, then `SeeExit` or `SeeCancel` (every 100 ms, the exit first), and
`RecordOutcome` or `RecordStartupError`; `Rerun` runs the task again. `ahu cancel` is
`CancelRead`, `CancelWrite`, `CancelPoll`, `CancelSettle`. A listing takes `owner.lock`
for a moment (`ProbeOwner`, `ProbeEnd`) or asks the host (`AskHost`), and then writes
`exited` if the record, loaded again under `state.lock`, is still live.

*Abstractions.* The five seconds that `ahu cancel` waits are one poll at any time.
Every record update reloads under `state.lock` and is one action. The end of a session
kills the run-task in its terminal and the harness in its foreground. Which failure
makes a step fail is data.

### 2.6 TaskPlacement

*State.* `byName` and `byId` are the handle files, each with the binding it holds and
whether its content was written (`ok`); `cand` and `fixed` the name a launch tries and
whether the user asked for it. `lock` and `coord` are `launch.lock` of the headless
store and the coordination lock of interactive launches: the two kinds of launch do not
exclude each other, so the handle files are their only common ground. `intent` is the
launch intent, `wt`, `dir`, `state` and `index` what a launch places. `ino`, `made`,
`flock` and `fd` model `owner.lock` down to its inode: a process may hold the flock of a
file that has been unlinked. `kept` and `removed` are history.

*Steps.* `Acquire`, `Sweep` (the previous launch's intent), `TakeName`, `NameTaken`,
`WriteName`, `TakeId`, `WriteId`, `WriteIntent`, `AddWorktree`, `Materialize`,
`SaveTask`, `SaveSpec`, `DropIntent`, `Register`; `Rollback` (interactive) and
`LaunchEnds` anywhere. A supervisor or resume is `OpenLock`, `TakeLock`, `Own`,
`EndWork`; a removal `OpenLock`, `TakeLock`, `GuardRemoval`, `RemoveWorktree`,
`RemoveInputs` (entry by entry), `Unlink`, `RemoveDirectory`. All may be killed.

*Abstractions.* Generated names are numbered, `base` being 1. The checks that refuse a
removal (branch not merged, session not closable, record changed since it was read)
are the disjuncts in which it stops. The branch follows the checkout. Removal of an
interactive task takes no `owner.lock` in the code and is not in this model. An intent
that cannot be read is left in place or dropped by the code; the model always writes
readable ones.

### 2.7 ContextMigration

*State.* `files` are the four documents with their modes, `jn` the journal (phase,
backups, targets), `guard` the flock. `pc`, `plan` and `step` are a migrator, `upc` and
`ulock` an `ahu lock --update`. `stray` and `late` are history: what somebody else wrote
since the journal was prepared, and between a migrator's comparison and its write.

*Steps.* `Preview`, `TakeGuard`, `Prepare`, then for each of the four files `CheckStep` and
`WriteStep`, and `Complete`; `Fails` leads to the rollback: `Validate`, then `CheckRestore`
and `Restore` for each file in the undo order, and `RolledBack`. `BeginRollback` is
`ahu migrate --rollback`. `Edit` is a user, `StartUpdate` and `WriteUpdate` the lock
update, which looks at the journal but does not take the guard.

*Abstractions.* A policy is its version, a lock the version and the file it pins. A
preview reads everything at once. Identity, HEAD and context that moved are `Fails`.
`matches` compares contents and not modes, as the code does: a `chmod` of a source is
undone without a word.

### 2.8 PluginStore

*State.* `head` and `work` are the plugin's binding as committed and as in the working
tree: the pinned version and whether it is enabled. `store` says of each version's
directory whether it is absent, whole or partly deleted, `litter` whether an unfinished
`.install-*` directory is there. `lock` is the repository's `launch.lock`, `admission`
that of the headless store, `owner` the `owner.lock` of each headless task. `lpc`, `sel`,
`worktree` and `rec` are launches, `asked` and `session` the session host, `cpc`,
`action`, `base` and `todo` plugin commands (`base` is the committed binding that a
command read before it waited for the lock), `rpc` and `task` the removals of tasks.

*Steps.* A command is `Begin`, `TakeLock`, and then one of: `Place` and `Publish`
(install, update); `CheckEdit` and `WriteEdit` (enable); or a cleanup, `Guard`,
`ListTasks`, `RetainOwner` for each ended headless task and `CleanupAllowed`, followed by
the edit (disable) or by `CheckRemoval`, `DeleteSome` directory by directory, and
`DeleteDone` (remove). A launch is `LockLaunch`, `SelectHost`, `AddWorktree`, `SaveRecord`,
`SendRequest`, `TakeAnswer` or `RollBack`, all under the lock. The host serves a request
when it likes (`HostAnswers`). `ahu remove TASK` is `LoadTask`, `VerifyHost`,
`CloseSession`, `RemoveTask` and takes no lock of the repository.

*Abstractions.* A binding's grants and compatibility, and the many checks of a package's
contents, are whether `Authorized` holds or a step stops. The index counts as the working
tree. Every launch uses the plugin. A user who runs a task again by hand, and who takes a
worktree away with Git rather than with `ahu remove`, is not here: the first can record
the end of a task whose session was never seen. Legacy headless stores, whose locks a
cleanup takes as well, are not distinguished from the current one.

## 3. What is checked

Every configuration says `CHECK_DEADLOCK FALSE`: tasks end, and a task whose
clients and supervisors are spent has no further step. Nothing-left-to-do is told
from stuck by the liveness properties.

| Run | Instance | Shows |
|---|---|---|
| `attempt_safety` | 2 clients that resume and cancel, 3 supervisors, 2 attempts, timeouts, failing writes, clients killed | `SpawnOnce`, `CancelBlocksSpawn`, and `TaskWorktree` implemented (`WorktreeKept`) |
| `attempt_faults` | 1 client that resumes and cancels, 3 supervisors, 2 attempts, everybody may be lost, `FairSpec` | `SpawnVerified`, `PastIsFrozen`, `AttemptEnds` |
| `attempt_lost_cancel` | 1 client that resumes, 1 that cancels, 2 supervisors, 3 attempts, nobody lost; a violation is expected | a cancellation is lost to a resume |
| `service` | 1 session, 2 controllers, 2 operations, window 2, 6 revisions | `EntryValid` (with the types), `AnswersAgree`, `ReplayComplete`, `AtMostOnce`, `TerminalMeansOver`, and `TaskEffects` implemented |
| `approvals_race` | 2 workers, 2 jobs, 2 requests, 1 operator, 1 attempt, workers killed | `ApprovedOnce`, `Attributable`, `CancellationWins`, `RejectionStands` |
| `approvals_resume` | 1 worker, 1 job, 2 requests, 1 operator, 1 process that resumes again and again, 2 attempts, everybody may be lost, `FairSpec` | `ApprovalPromise` implemented (`ApprovalKept`), `OnlyResumeRevives`, `WaitEnds` |
| `tree` | a root, 2 children, 2 requests, 1 dispatch in flight, an explicit cancellation, nobody lost | the type invariant with the broker's limits, `SuccessMeansJoined`, `StopReaches` |
| `tree_resume` | a root with 2 attempts, 1 child, 1 request, lost supervisors and cancellations, failing writes, `FairSpec` | `DispatchedOnce`, `SubtreeStaysDown`, `CancelledTreeEnds` |
| `interactive` | 2 run-tasks, 1 cancel, 1 listing, everything may be killed, `FairSpec` | `ConfirmedMeansStopped`, `CancelledSessionClosed`, `OutcomeStands`, `CancelStops` |
| `placement` | 2 headless launches and an interactive one, 2 names, 1 supervisor or resume, 1 removal, 2 inodes of `owner.lock` per task | `HandleStable`, `LaunchedIsFound`, `RecordHasCheckout`, `OrphanCovered`, `OwnersApart` |
| `migration` | 2 migrations or rollbacks, 2 user edits, 1 lock update | `PhaseTruthful`, `Recoverable`, `EditsStand`, `JournalKept` |
| `plugins` | 2 versions, 1 launch, 1 headless task, 1 plugin command after another, 1 removal, everything may be killed | `SessionKeepsPackage`, `HeadlessQuiet` |

Why these bounds: two supervisors are needed for a conflict over a task and a third
lets the loser of one conflict be followed by another. A resume after a resume (a journal
left by one and recovered by the next) needs two attempts when the first resume fails or
is lost, and a third when it succeeds; the runs of two attempts have the former, the
proofs cover any number. Two operations tell an exact repetition from a conflicting one;
a window of 2 with 6 revisions drops the oldest change several times and holds a
whole life (register, submit, claim, start, cancel, acknowledge). One session is
enough because every transaction is atomic under the entry's lock: a second one adds
another request in flight, which the controllers already race. Two jobs and two
requests let a second request meet the first one's response; two attempts let a
decision, a wait and a resume overlap, and let a resume roll back an attempt that a slow
supervisor has started and its worker has asked in. One resume at a time is enough for
that, and the same process recovers what it left when it was lost; two resumes that race
are covered by the proofs, which hold for any set of them. With two children a tree is wide (both below the
root) or deep (one below the other), and a limit of one dispatch in flight is reached
while another request waits; the second attempt of the root meets the requests,
claims and children that the first one left.

Two run-tasks let a session's
own run-task race one started by hand, and the second run what the first recorded. Three
launches and two names make two of them collide and the third run out of names; two
headless ones are a launch and the one that sweeps after it; a second inode of
`owner.lock` is what a resume creates after a removal unlinked the first. Two migrators
are a migration and a rollback, or two of either; two edits are one before and one after
the comparison that should catch it, or an edit and its undoing. Two versions let a launch
freeze one while the binding moves on to the other; a command that ends may begin again
with another action, and `launch.lock` keeps two of them apart.

*Fairness* is used in four runs. In `attempt_faults` a process that is not lost keeps
running (`WF` of each client's and each supervisor's work). The code's scheduling
justifies it: the supervision loop polls every 50 ms against a deadline, so a pass
with a reason to stop comes, and every wait for a lock is bounded by two seconds. It
does not include failing writes or a worker that ends by itself: the properties do
not lean on luck. In `approvals_resume` a waiting worker keeps polling every 100 ms
and its deadline passes; operators, supervisors and resumes owe nothing. In `tree_resume` the
supervisors poll, a `cancel.json` stops them, launchers and dispatch threads go on (a
thread kills its launcher after 30 seconds) and a cancellation that has begun goes on;
workers need neither ask nor exit. In `interactive` a run-task that is not lost goes on, since it
polls every 100 ms and waits for no lock, and a probe of `owner.lock` ends; a harness,
a host, a launcher and a user owe nothing.

### Where the code does something else than it says

* `attempt_lost_cancel`: `resume` publishes the new attempt in `headless.json` and
  *then* removes `cancel.json`, holding `owner.lock` but not `launch.lock`. A
  cancellation that arrives in between names the new attempt, is acknowledged, and
  is deleted; the worker is spawned.

What follows is in the models without a run of its own; each can be seen by checking the
formula that is quoted.

* The replay guard (`headless.rs`, line 2877) looks at `result.json` and `started.json`,
  not at `spawn-intent.json`. A supervisor lost between the spawn and `started.json`
  leaves an attempt that a second supervisor, started with the same digest, spawns
  again beside the first worker: `SpawnOnce` with `Faults = TRUE`, three supervisors and
  three attempts is violated.
* A decision publishes the response before it writes `cancel.json` (`approval.rs`, line
  386). When the second write fails or its process dies, the waiter reports a rejection
  and no cancellation was requested:
  `[][\A w \in Workers : wout[w] # "rejected" /\ wout'[w] = "rejected" => cancel]_vars`
  is violated in `Approvals`, although the reference says that a rejection requests
  cancellation (`docs/reference.md`, line 166).
* `cancel_tree` parses the `headless.json` of the whole store and gives up on the first it
  cannot read (`headless.rs`, line 3798). A launcher that is killed between `task.json`
  and `headless.json` (the broker itself kills one that takes 30 seconds) leaves such a
  directory, and every later cancellation in the store fails, that of a supervisor
  that stops its own worker included. The worker is still killed; its descendants are
  not told: `[][hpc = "idle" /\ hpc' = "failed" => admission # None]_vars` is violated in
  `TaskTree`.
* A resume whose supervisor is not heard of in 15 seconds tests `spawn-intent.json`
  (`headless.rs`, line 4103) before it takes `owner.lock` (line 4104) and does not test
  again. A supervisor that was slow, spawned its worker, wrote `started.json` and ended in
  between is rolled back: `headless.json` returns to the attempt before it, and
  `[][spec' < spec => spec \notin started]_vars` is violated in `HeadlessAttempt`. The
  recovery that a later resume makes from the journal has the same test under the lock,
  and keeps to what `headless/journal.rs` says at line 28.
* That rollback has consequences for approvals (`overtaken` in `Approvals`). The request
  of the attempt that is taken back stays open under the attempt that is put back:
  `[][attempt' # attempt => req = None]_vars` is violated. An approval that was written,
  or a wait that was consumed, before the rollback sets the restored, ended task running
  (`set_state_locked` does not look at the state it replaces):
  `[][~Live(state) /\ Live(state') => \E p \in Resumers : rpc[p] = "save_task"]_vars` is
  violated. And an approval may be answered to a waiter whose attempt is no longer the
  recorded one: `CurrentAttempt` without its exception is violated. `RejectionStands`
  needs the exception for the same reason. The next resume that gets as far as
  `retire_for_resume` removes what is left.
* A listing takes `owner.lock` for a moment to see whether it is held (`ProbeBegin` in
  `HeadlessAttempt`, `ProbeOwner` in `InteractiveTask`), and a supervisor or a run-task
  whose non-blocking acquire meets it exits as if the task were owned.
* `run_task` sets the record to running whatever it says (`launch.rs`, line 1380), so a
  second run of a cancelled task shows it running for a moment, and a launcher that
  records its session in that moment does not close it. `CancelledSessionClosed`
  therefore speaks of a task that is run once.
* A migration compares a file and then writes it; what is written in between is lost
  (`late` in `EditsStand`). And readers of the policy look at the journal once, before
  they read (`ensure_idle`), so one that looked before the journal was prepared may read
  between two steps, although `migration.rs` says at line 125 that every shared reader
  refuses an unfinished transaction.
* `ahu plugins disable` refuses while a task names the plugin, but it edits the working
  binding only, and launches read the committed one. A task launched between the command
  and the user's commit keeps its package (`SessionKeepsPackage`), but once the commit is
  made it can be neither closed nor removed until the binding is enabled and committed
  again: `VerifyHost` is never enabled for it. The reference asks users to finish their
  tasks first (`docs/reference.md`, line 2142).

## 4. What is proved

TLAPS checks the following for every value of the constants that meets the named
assumptions.

`HeadlessAttemptProofs` (assuming `AttemptBound`, `KnownReasons`, `FaultsIsBoolean`,
`ClientRoles`, `ProcessesDistinct`: processes are distinct from each other and from
`None`):

* `Types`: type correctness.
* `Delivery` (`SpawnVerified`) and `History` (`PastIsFrozen`): hold with every
  crash. The argument is that `rec`, `prm` and `spec` are only written under
  `owner.lock`, and that a supervisor between reading and spawning holds it.
* `CancelledStaysDown` (`CancelBlocksSpawn`): from `SpawnIntent` to `Spawn` the
  supervisor holds `launch.lock`, under which `cancel.json` is written.
* `OneWorkerAtATime` (`OneWorker`), `SpawnedOnce` (`SpawnOnce`) and
  `ResultsFollowReaping` (`ResultMeansReaped`): under `~Faults`, that is, while no
  supervisor is lost; with a lost supervisor `SpawnOnce` is false (see above). The
  invariant says that a supervisor between reading `headless.json` and its end holds
  `owner.lock`, that only such a supervisor has a living worker, and that the attempt of
  every worker ever spawned carries a result once its supervisor let go (`Progress`).
* `Refinement` (`WorktreeKept`), also under `~Faults`: every step of `HeadlessAttempt`
  is a step of `TaskWorktree` or leaves its variables alone. Whoever holds `owner.lock`
  finds the worktree settled, but for the worker of a supervisor that holds it itself
  (`SettledByOwner`, `OnlyOwn`); from the spawn on a supervisor has had a worker
  (`Spawned`). With `Faults = TRUE` TLC finds `WorktreeKept` violated.

None of the safety properties is inductive by itself: each is about workers, and
what keeps it is which steps hold which lock. The conjuncts of the invariant are
named in the module, and the proof that a step preserves it has one step per action.

`AgentTaskServiceProofs` (assuming the constants of the module distinct and the
bounds natural):

* `InvokedAtMostOnce` (`AtMostOnce`): an effect is called only from `call`, which a
  controller reaches only by claiming it, and a claimed effect is never pending
  again.
* `NoWorkAfterTheEnd` (`TerminalMeansOver`): the execution lock spans claim, call
  and acknowledgement, and a cancellation dispatches under the same lock.
* `EntriesStayValid` (`EntryValid`), `OneAnswerPerOperation` (`AnswersAgree`) and
  `ReplayMissesNothing` (`ReplayComplete`): one more invariant, `EInv`, about the entry.
  The window is never empty once the entry exists, has at most `Window` changes, is
  numbered up to the revision and ends with the snapshot (`Windowed`); a withdrawal and
  the cancel effect come in one publication (`Withdrawn`); receipts are finitely many,
  within the limit, and name a past revision (`ReceiptsKept`); and every answer given is
  the one its receipt still has (`Recorded`). Every transaction publishes at most once,
  and a publication adds one change and drops at most the first (`Publishes`,
  `WindowMoves`), so no induction over the sequence is needed.
* `Refinement` (`KeepsPromise`): every step of the service is a step of
  `TaskEffects` or leaves its variables alone.

`ApprovalsProofs` (assuming `AttemptBound`, `NoneDistinct`, `ProcessesDistinct`, `NoResponse`):

* `AnsweredOnce` (`ApprovedOnce`) and `ResponsesAttributable` (`Attributable`), with
  workers, operators, supervisors and resumes lost anywhere and attempts overtaken or not.
  The worker that asks holds the approval lease and whoever changes a checkpoint in two
  writes holds `state.lock` (`Leased`, `Locked`); so the request on disk is that worker's
  own, and what was decided of it is what the response says (`Own`); a request that was
  answered has left the disk and its identifier is never used again (`Past`).
* `AnsweredInTime` (`CurrentAttempt`), `RejectionsStand` (`RejectionStands`),
  `EndedStaysEnded` (`OnlyResumeRevives`) and `CancelledJobStays` (`CancellationWins`):
  one more invariant, over attempts, in two parts. The first holds always: a resume that
  touches the task's files owns it (`Owned`); it goes from an attempt that ran and is over
  to one that nobody spawned (`Remembers`); a journal names the only attempt that may be
  current without having been spawned, and none works until that one is (`Journalled`);
  and no request is open between two attempts (`Vacant`). The second (`Timely`) holds
  unless an attempt was overtaken: whoever is about to ask, to decide or to record a wait
  does so for an attempt with a worker that has not ended, also when it looked at the
  state some steps ago (`Active`, `Current`), a rejection of a working attempt comes with
  its cancellation (`Rejected`), and no request is open while a journal may still be
  followed (`Settled`). After an overtaking it is established anew, not preserved: a
  resume that clears the checkpoint has the lease and `state.lock`, so nobody waits or
  decides at that moment (`CRetires`). `CancelledJobStays` needs neither part.
* `Refinement` (`ApprovalKept`): every step of `Approvals` is a step of `ApprovalPromise` or
  leaves its variables alone. It needs `Vacant` and `Settled` for a resume that changes
  the attempt, and that a rejection under way is of the open request, so that none can
  take effect between the consumption of an approval and its answer (`Answering`),
  although `state.lock` is dropped there. With these all safety properties of `Approvals`
  are theorems.

`TaskTreeProofs` (assuming `TreeBounds`, `TreeNames` and `NoneApart`: tasks, requests,
the host and `None` are distinct, and `None` is neither a lock's owner nor a result;
supervisors may be lost and writes may fail):

* `RequestsDispatchedOnce` (`DispatchedOnce`): a dispatching claim is of the one attempt
  that the request's capability binds it to (`Bound`); every child carries a request
  with such a claim (`Accounted`); between claim and dispatch the broker holds a request
  that has no child yet, and no two brokers hold the same one, since a request lies in
  one task's mailbox (`Held`). The argument needs no lock: it is the order of the claim
  and the dispatch, and the capability, that make it true.
* `CancelledSubtreeStaysDown` (`SubtreeStaysDown`): a supervisor between its last look
  and its spawn holds `launch.lock`, and so does whoever marks a tree (`Locked`); a mark
  leaves an `admission-closed.json` for ever and, for a child, a `cancel.json` that no
  resume removes (`Marks`); hence a child in that window is not marked and neither is
  its parent's attempt (`Clear`). `Unstarted` separates the launcher of a child from its
  supervisor, which take the same lock one after the other.
* `SuccessIsJoined` (`SuccessMeansJoined`): an attempt has no children before its
  supervisor runs; a launcher that runs has a thread waiting for it until that supervisor
  is done or lost, and none runs once the threads are joined (`Offspring`); so the set of
  children that the supervisor looks at before it publishes success is the final one, and
  children have one attempt, whose result stands (`Numbered`, `Born`, `Owning`,
  `Succeeding`).
* `LimitsHold` (`TypeOK`): a dispatch begins only below the limit and is counted from then
  on, in the threads that wait (`Limited`); a claim is of an attempt that has begun
  (`Timely`), so a resumed root starts counting from none.
* `StopsReachAll` (`StopReaches`): the set that a cancellation selects under
  `launch.lock` contains, with a task, the recorded children of its attempt (`Reaching`),
  and it is marked completely before the lock is let go. Afterwards no child joins it: a
  launcher that has begun to record a child holds the lock and its parent was open
  (third conjunct of `RInv`), and none of a marked attempt is admitted. So there is, for
  as long as anybody asks, a set with the task in it, closed under recorded children, whose
  attempts are all marked (`Reached`); a resume gives the root an attempt that has no
  children, and its start takes the root's own stop back (`Fenced`). The set `Selected` of
  the model is contained in it, since it is the least (`SelectedTree`).

`InteractiveTaskProofs` (assuming `ActorsDistinct`, `FaultsIsBoolean` and
`NoneIsNoRecord`), with every process killed anywhere:

* `Types`: types, and who holds `owner.lock` when.
* `ConfirmedStops` (`ConfirmedMeansStopped`): a cancelled record and a
  confirmation have a `cancel.json` behind them and nobody on the way to a harness
  (`Cancelled`), since a supervisor kills its harness before it records the cancellation
  and a later run looks for `cancel.json` before it spawns; and only a launcher whose task
  nobody ran removes `cancel.json` (`Placed`).
* `OutcomesStand` (`OutcomeStands`): who holds `owner.lock` is the only one to record an
  outcome, its record is live until then (`Supervised`), and everybody else writes `exited`
  only over a live record.
* `RollbackSpares` (`RollbackSparesSession`): a rollback starts only from a request that
  was not sent or was refused.
* `CancelledIsClosed` (`CancelledSessionClosed`): the session's request is open only while
  the launcher waits for it or gave up (`Requested`), and a launcher that is done with an
  open session has recorded it (`Referenced`); so the record a confirming command saw either
  names the session, and the command closes it, or the launcher records its session
  after the cancellation and closes it itself (`Settled`).

`TaskPlacementProofs` (assuming `NamesBound`, `InodeBound`, `KindsDisjoint`,
`ProcessesDistinct` and `NoneIsNoRecord`), for any number of launches, names, owners and
inodes: `Types`, `HandlesStand` (`HandleStable`), `LaunchedTasksAreFound`
(`LaunchedIsFound`), `RecordsKeepCheckouts` (`RecordHasCheckout`), `OrphansAreCovered`
(`OrphanCovered`), `OwnersStayApart` (`OwnersApart`). The invariant is the conjunction of
the types, `Named` (a launch that got so far owns its two handle files), `Locked` (a lock
is held by the launch in its section), `Intended` (the intent names a launch between
writing and dropping it, or a dead one), `Placed` (what is on disk at each place of a
launch), `Owned` (the flock of the current inode is what a working process holds, and a
removal unlinks only an empty directory), `RecordHasCheckout` and `OrphanCovered`. The
steps of launches, which a lock serialises, and those of owners and removals, which only
touch launched tasks, are treated separately.

`ContextMigrationProofs` (assuming `MaxEditsNat` and `NoneIsNobody`): `BackupsKept`
(`JournalKept`), `JournalTruthful` (`PhaseTruthful`) and `AlwaysRecoverable`
(`Recoverable`), for any number of migrators and edits. The argument: whoever is past the
guard holds it, so the journal and the files it covers are written by one migrator at a
time (`OneAtATime`, `WorkIsPending`); a migrator follows the plan it published
(`OwnPlan`), and a rollback has restored every file before the one in hand (`Undone`).
`EditsSurvive` (`EditsStand`) needs two facts more: the journal's backups are those of the
migrator at work (`OwnBackups`), and the file in hand was compared with what the journal
knows of it and can differ only by a later write of somebody else (`InHandKnown`).

`PluginStoreProofs` (assuming `KindsDistinct`, `FaultsIsBoolean` and `NoneIsNoRecord`), for
any number of versions, launches, headless tasks, commands and removals, with everybody
killed anywhere:

* `Types`: types, and which steps each action of a command passes through.
* `SessionsKeepPackages` (`SessionKeepsPackage`): whoever installs, deletes or launches
  holds `launch.lock` (`Locked`); a launch saves its record before it sends its request,
  and takes it back only when the request was not sent or was refused (`Progress`); a
  removal of a task takes only an ended one and closes its session first (`Removing`); so
  when a cleanup has found no record, none appears and no request is out, and until then
  the version that was selected, or that a record names, stays whole (`Kept`).
* `HeadlessStaysQuiet` (`HeadlessQuiet`): a cleanup past its inventory holds `admission`,
  and each ended task is held or still to be taken (`Shut`); `RetainOwner` looks at the
  state again under the lock, which is what excludes a resume that was quicker.

## 5. What is only model-checked

Liveness (`AttemptEnds`, `WaitEnds`, `CancelledTreeEnds`, `CancelStops`),
which needs fairness and is out of the prover's reach, and the violation run. Every
invariant and every action property that a passing run checks is a theorem.

## 6. Not modelled, and the plan

What would come next, in this order:

1. An abstract specification of a package store, implemented by `PluginStore`, and of a
   cancelled tree, implemented by `TaskTree`.
2. The durable MCP task records beyond approvals, and the plugin exchange.

Left out for good: argument parsing, wording, terminal layout, the harness tables,
probes of installed programs, prompt composition and Git plumbing, which are
sequential and have no state that another process shares; and path confinement,
which is about the file system's names and not about order.
