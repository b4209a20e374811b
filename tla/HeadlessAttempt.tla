--------------------------- MODULE HeadlessAttempt ---------------------------
(***************************************************************************)
(* The life of one headless root task: its directory on disk, the two      *)
(* advisory locks that order access to it, the command-line processes that *)
(* launch, resume, cancel and inspect it, and the supervisors that run its *)
(* attempts.  Every process may stop between any two durable writes.       *)
(*                                                                         *)
(* A submission is identified by the attempt it was composed for and the   *)
(* client that composed it: task.json freezes both (the delivery           *)
(* composition names the attempt, the prompt digest names the prompt),     *)
(* prompt.txt holds the prompt and headless.json the attempt number.       *)
(***************************************************************************)
EXTENDS Naturals, FiniteSets

CONSTANTS
    Clients,          \* processes that run `ahu launch/resume/cancel/result`
    Resumers,         \* those that may run `resume`
    Cancellers,       \* those that may run `cancel` and `result`
    Sups,             \* supervisor processes, each started at most once
    MaxAttempt,       \* bound on attempt numbers (the code has none)
    StopReasons,      \* reasons a supervisor may stop its worker for, besides a cancellation
    Faults,           \* may a supervisor be lost, or fail to record its own failure?
    None              \* no process, no file, no value

Attempts == 1..MaxAttempt

\* The terminal outcomes `resume` accepts as proof of known process ownership.
Resumable == {"succeeded", "failed", "cancelled", "timed_out", "boundary_violation"}
Outcomes == Resumable \cup {"capture_failed", "supervisor_error"}

ASSUME AttemptBound == MaxAttempt \in Nat \ {0}
ASSUME KnownReasons == StopReasons \subseteq {"boundary_violation", "timed_out", "capture_failed"}
ASSUME FaultsIsBoolean == Faults \in BOOLEAN
ASSUME ClientRoles == Resumers \subseteq Clients /\ Cancellers \subseteq Clients
ASSUME ProcessesDistinct == /\ Clients \cap Sups = {}
                            /\ None \notin Clients \cup Sups
                            /\ None \notin Attempts /\ None \notin Outcomes

Submissions == [att : Attempts, by : Clients]
Records == [att : Attempts, by : Clients, state : {"Starting", "Running", "Exited", "Failed"}]
Olds == [rec : Records, prm : Submissions, spec : Attempts]
Journals == [old : Olds, next : Attempts]

VARIABLES
    \* the task directory
    rec,        \* task.json: the composition frozen in it and the recorded state
    prm,        \* prompt.txt
    spec,       \* headless.json: the attempt it prepares
    journal,    \* resume-journal.json, or None
    cancel,     \* does cancel.json exist?
    dirs,       \* attempts whose directory exists
    intent,     \* attempts with spawn-intent.json
    started,    \* attempts with started.json
    closed,     \* attempts with admission-closed.json
    result,     \* result.json of each attempt, or None
    \* the locks, released by the kernel when their holder ends
    owner,      \* holder of owner.lock
    admission,  \* holder of the store's launch.lock
    \* clients
    cpc,        \* where the client is
    cold,       \* the metadata a resume remembers so that it can undo itself
    catt,       \* the attempt the client is working on
    \* supervisors
    spc,        \* where the supervisor is
    sdig,       \* AHU_EXPECTED_DIGEST: the frozen bytes it was started for
    satt,       \* the attempt it read from headless.json once it owned the task
    stop,       \* why it is stopping its worker
    worker,     \* its worker's process group
    cancelled   \* attempts a completed cancellation named (history)

taskFiles == <<rec, prm, spec, journal>>
attemptFiles == <<cancel, dirs, intent, started, closed, result>>
locks == <<owner, admission>>
clientVars == <<cpc, cold, catt>>
supVars == <<spc, sdig, satt, stop, worker>>
vars == <<taskFiles, attemptFiles, locks, clientVars, supVars, cancelled>>

ClientSteps == {"idle", "recover_task", "recover_prompt", "recover_spec", "recover_done", "check",
                "journal", "save_task", "save_prompt", "save_spec", "uncancel",
                "mkdir", "spawn_sup", "poll", "fail_lock",
                "restore_task", "restore_prompt", "restore_spec",
                "cancel_write", "probe"}
SupSteps == {"new", "boot", "lock", "validate", "spawn", "start_file", "set_running",
             "loop", "stop_tree", "stop_write", "stopping", "close",
             "drain_tree", "drain_write", "finish", "set_final", "error", "error_state", "exited"}
WorkerStates == {"none", "running", "exited", "dead"}

TypeOK ==
    /\ rec \in Records /\ prm \in Submissions /\ spec \in Attempts
    /\ journal \in Journals \cup {None}
    /\ cancel \in BOOLEAN
    /\ dirs \subseteq Attempts /\ intent \subseteq Attempts
    /\ started \subseteq Attempts /\ closed \subseteq Attempts
    /\ result \in [Attempts -> Outcomes \cup {None}]
    /\ owner \in Clients \cup Sups \cup {None}
    /\ admission \in Clients \cup Sups \cup {None}
    /\ cpc \in [Clients -> ClientSteps]
    /\ cold \in [Clients -> Olds \cup {None}]
    /\ catt \in [Clients -> Attempts \cup {None}]
    /\ spc \in [Sups -> SupSteps]
    /\ sdig \in [Sups -> (Records \X Attempts) \cup {None}]
    /\ satt \in [Sups -> Attempts \cup {None}]
    /\ stop \in [Sups -> StopReasons \cup {"cancelled", None}]
    /\ worker \in [Sups -> WorkerStates]
    /\ cancelled \subseteq Attempts

Live(state) == state \in {"Starting", "Running"}
Alive(s) == worker[s] \in {"running", "exited"}     \* its process group may still act
Composition(r) == [att |-> r.att, by |-> r.by]
Digest == <<rec, spec>>                             \* frozen_digest
\* set_state: rewrite the record with another state.
SetState(state) == rec' = [att |-> rec.att, by |-> rec.by, state |-> state]

\* A launch has just released admission: the task is prepared, nothing runs.
Init ==
    \E c \in Clients :
        /\ rec = [att |-> 1, by |-> c, state |-> "Starting"]
        /\ prm = [att |-> 1, by |-> c]
        /\ spec = 1
        /\ journal = None
        /\ cancel = FALSE
        /\ dirs = {} /\ intent = {} /\ started = {} /\ closed = {}
        /\ result = [a \in Attempts |-> None]
        /\ owner = None /\ admission = None
        /\ cpc = [d \in Clients |-> IF d = c THEN "mkdir" ELSE "idle"]
        /\ cold = [d \in Clients |-> None]
        /\ catt = [d \in Clients |-> IF d = c THEN 1 ELSE None]
        /\ spc = [s \in Sups |-> "new"]
        /\ sdig = [s \in Sups |-> None]
        /\ satt = [s \in Sups |-> None]
        /\ stop = [s \in Sups |-> None]
        /\ worker = [s \in Sups |-> "none"]
        /\ cancelled = {}

-----------------------------------------------------------------------------
(* Shared shapes of a client step.                                         *)

At(c, step) == cpc[c] = step
Goto(c, step) == cpc' = [cpc EXCEPT ![c] = step]

\* The client forgets everything and ends its command.
Ends(c) ==
    /\ Goto(c, "idle")
    /\ cold' = [cold EXCEPT ![c] = None]
    /\ catt' = [catt EXCEPT ![c] = None]

\* Write the metadata `old` remembers, one file at a time, between two steps.
WriteBack(c, old, taskStep, promptStep, specStep, next) ==
    \/ /\ At(c, taskStep) /\ Goto(c, promptStep)
       /\ rec' = old.rec
       /\ UNCHANGED <<prm, spec, journal>>
    \/ /\ At(c, promptStep) /\ Goto(c, specStep)
       /\ prm' = old.prm
       /\ UNCHANGED <<rec, spec, journal>>
    \/ /\ At(c, specStep) /\ Goto(c, next)
       /\ spec' = old.spec
       /\ UNCHANGED <<rec, prm, journal>>

-----------------------------------------------------------------------------
(* resume: everything up to `drop(_owner)` happens under owner.lock.       *)

\* recover_resume first reads the journal of an interrupted resume.
ResumeBegin(c) ==
    /\ c \in Resumers /\ At(c, "idle") /\ owner = None
    /\ owner' = c
    /\ IF journal # None /\ journal.next \notin intent
       THEN Goto(c, "recover_task") /\ cold' = [cold EXCEPT ![c] = journal.old]
       ELSE Goto(c, IF journal = None THEN "check" ELSE "recover_done") /\ UNCHANGED cold
    /\ UNCHANGED <<taskFiles, attemptFiles, admission, catt, supVars, cancelled>>

\* It puts back what the journal remembers ...
RecoverWrite(c) ==
    /\ WriteBack(c, cold[c], "recover_task", "recover_prompt", "recover_spec", "recover_done")
    /\ UNCHANGED <<attemptFiles, locks, cold, catt, supVars, cancelled>>

\* ... and removes the journal in either case; an error if it is gone by then.
RecoverDone(c) ==
    /\ At(c, "recover_done")
    /\ journal' = None
    /\ IF journal = None
       THEN Ends(c) /\ owner' = None
       ELSE /\ Goto(c, "check") /\ cold' = [cold EXCEPT ![c] = None]
            /\ UNCHANGED <<catt, owner>>
    /\ UNCHANGED <<rec, prm, spec, attemptFiles, admission, supVars, cancelled>>

\* Any refusal (no terminal result, changed configuration, a live record ...).
ResumeRefused(c) ==
    /\ At(c, "check")
    /\ Ends(c) /\ owner' = None
    /\ UNCHANGED <<taskFiles, attemptFiles, admission, supVars, cancelled>>

\* The next attempt number is the first above the recorded one with no directory.
NextAttempt(a) ==
    /\ a > spec /\ a \notin dirs
    /\ \A b \in Attempts : spec < b /\ b < a => b \in dirs

ResumeChecked(c) ==
    /\ At(c, "check")
    /\ result[spec] \in Resumable
    /\ ~Live(rec.state)
    /\ \E a \in Attempts : NextAttempt(a) /\ catt' = [catt EXCEPT ![c] = a]
    /\ cold' = [cold EXCEPT ![c] = [rec |-> rec, prm |-> prm, spec |-> spec]]
    /\ Goto(c, "journal")
    /\ UNCHANGED <<taskFiles, attemptFiles, locks, supVars, cancelled>>

WriteJournal(c) ==
    /\ At(c, "journal") /\ Goto(c, "save_task")
    /\ journal' = [old |-> cold[c], next |-> catt[c]]
    /\ UNCHANGED <<rec, prm, spec, attemptFiles, locks, cold, catt, supVars, cancelled>>

\* task::save writes task.json and then prompt.txt; headless.json follows.
SaveTask(c) ==
    /\ At(c, "save_task") /\ Goto(c, "save_prompt")
    /\ rec' = [att |-> catt[c], by |-> c, state |-> "Starting"]
    /\ UNCHANGED <<prm, spec, journal, attemptFiles, locks, cold, catt, supVars, cancelled>>

SavePrompt(c) ==
    /\ At(c, "save_prompt") /\ Goto(c, "save_spec")
    /\ prm' = [att |-> catt[c], by |-> c]
    /\ UNCHANGED <<rec, spec, journal, attemptFiles, locks, cold, catt, supVars, cancelled>>

SaveSpec(c) ==
    /\ At(c, "save_spec") /\ Goto(c, "uncancel")
    /\ spec' = catt[c]
    /\ UNCHANGED <<rec, prm, journal, attemptFiles, locks, cold, catt, supVars, cancelled>>

\* A write of the transition fails: the same command puts the old metadata back.
SaveFails(c) ==
    /\ cpc[c] \in {"save_task", "save_prompt", "save_spec"}
    /\ Goto(c, "restore_task")
    /\ UNCHANGED <<taskFiles, attemptFiles, locks, cold, catt, supVars, cancelled>>

\* Remove cancel.json and let go of the task.
Uncancel(c) ==
    /\ At(c, "uncancel") /\ Goto(c, "mkdir")
    /\ cancel' = FALSE
    /\ owner' = None
    /\ UNCHANGED <<taskFiles, dirs, intent, started, closed, result, admission,
                   cold, catt, supVars, cancelled>>

-----------------------------------------------------------------------------
(* start: create the attempt directory, spawn its supervisor, and poll for *)
(* started.json.  Nothing here holds a lock.                               *)

MakeAttemptDir(c) ==
    /\ At(c, "mkdir") /\ Goto(c, "spawn_sup")
    /\ dirs' = dirs \cup {catt[c]}
    /\ UNCHANGED <<taskFiles, cancel, intent, started, closed, result, locks,
                   cold, catt, supVars, cancelled>>

SpawnSupervisor(c, s) ==
    /\ At(c, "spawn_sup") /\ Goto(c, "poll")
    /\ spc[s] = "new"
    /\ spc' = [spc EXCEPT ![s] = "boot"]
    /\ sdig' = [sdig EXCEPT ![s] = Digest]
    /\ UNCHANGED <<taskFiles, attemptFiles, locks, cold, catt, satt, stop, worker, cancelled>>

\* started.json is there: the command reports success, a resume first drops
\* the journal.
Acknowledge(c) ==
    /\ At(c, "poll")
    /\ catt[c] \in started
    /\ journal' = IF cold[c] = None THEN journal ELSE None
    /\ Ends(c)
    /\ UNCHANGED <<rec, prm, spec, attemptFiles, locks, supVars, cancelled>>

\* The supervisor could not be spawned, exited first, or took over 15 seconds
\* (a poll that found nothing may be overtaken by started.json).  A launch only
\* reports it; a resume goes on to undo itself when its attempt has no spawn
\* intent.
StartFailed(c) ==
    /\ cpc[c] \in {"spawn_sup", "poll"}
    /\ IF cold[c] = None \/ catt[c] \in intent
       THEN Ends(c)
       ELSE Goto(c, "fail_lock") /\ UNCHANGED <<cold, catt>>
    /\ UNCHANGED <<taskFiles, attemptFiles, locks, supVars, cancelled>>

\* A mutated form of FailLock: the owner is not asked.
FailLockAnyway(c) ==
    /\ At(c, "fail_lock")
    /\ owner' = c /\ Goto(c, "restore_task") /\ UNCHANGED <<cold, catt>>
    /\ UNCHANGED <<taskFiles, attemptFiles, admission, supVars, cancelled>>

\* It does so only if nobody owns the task.
FailLock(c) ==
    /\ At(c, "fail_lock")
    /\ IF owner = None
       THEN owner' = c /\ Goto(c, "restore_task") /\ UNCHANGED <<cold, catt>>
       ELSE Ends(c) /\ UNCHANGED owner
    /\ UNCHANGED <<taskFiles, attemptFiles, admission, supVars, cancelled>>

\* Put the remembered metadata back under owner.lock; the journal stays.
Restore(c) ==
    \/ /\ cpc[c] \in {"restore_task", "restore_prompt"}
       /\ WriteBack(c, cold[c], "restore_task", "restore_prompt", "restore_spec", "idle")
       /\ UNCHANGED <<attemptFiles, locks, cold, catt, supVars, cancelled>>
    \/ /\ At(c, "restore_spec")
       /\ spec' = cold[c].spec
       /\ Ends(c) /\ owner' = None
       /\ UNCHANGED <<rec, prm, journal, attemptFiles, admission, supVars, cancelled>>

-----------------------------------------------------------------------------
(* cancel (the task's own part of cancel_tree) and read-only inspection.   *)

\* Under launch.lock, admission-closed.json is written for the attempt that
\* headless.json records, creating the attempt's directory if need be ...
CancelBegin(c) ==
    /\ c \in Cancellers /\ At(c, "idle") /\ admission = None
    /\ admission' = c
    /\ Goto(c, "cancel_write")
    /\ catt' = [catt EXCEPT ![c] = spec]
    /\ closed' = closed \cup {spec}
    /\ dirs' = dirs \cup {spec}
    /\ UNCHANGED <<taskFiles, cancel, intent, started, result, owner, cold, supVars, cancelled>>

\* ... and then cancel.json.
CancelWrite(c) ==
    /\ At(c, "cancel_write")
    /\ cancel' = TRUE
    /\ cancelled' = cancelled \cup {catt[c]}
    /\ Ends(c) /\ admission' = None
    /\ UNCHANGED <<taskFiles, dirs, intent, started, closed, result, owner, supVars>>

\* Lock::is_owned: an inspection takes owner.lock for a moment to see if it can.
\* (Before the lock file exists it fails instead, which nobody notices.)
ProbeBegin(c) ==
    /\ c \in Cancellers /\ At(c, "idle") /\ owner = None
    /\ owner' = c
    /\ Goto(c, "probe")
    /\ UNCHANGED <<taskFiles, attemptFiles, admission, cold, catt, supVars, cancelled>>

ProbeEnd(c) ==
    /\ At(c, "probe")
    /\ Ends(c) /\ owner' = None
    /\ UNCHANGED <<taskFiles, attemptFiles, admission, supVars, cancelled>>

Release(lock, p) == IF lock = p THEN None ELSE lock

\* A client is killed: the kernel releases its locks, its files stay as they are.
ClientCrash(c) ==
    /\ ~At(c, "idle")
    /\ Ends(c)
    /\ owner' = Release(owner, c)
    /\ admission' = Release(admission, c)
    /\ UNCHANGED <<taskFiles, attemptFiles, supVars, cancelled>>

\* What a client that is not killed does.
ClientWork(c) ==
    \/ ResumeBegin(c) \/ RecoverWrite(c) \/ RecoverDone(c) \/ ResumeRefused(c) \/ ResumeChecked(c)
    \/ WriteJournal(c) \/ SaveTask(c) \/ SavePrompt(c) \/ SaveSpec(c) \/ SaveFails(c) \/ Uncancel(c)
    \/ MakeAttemptDir(c) \/ Acknowledge(c) \/ StartFailed(c) \/ FailLock(c) \/ Restore(c)
    \/ CancelBegin(c) \/ CancelWrite(c) \/ ProbeBegin(c) \/ ProbeEnd(c)
    \/ \E s \in Sups : SpawnSupervisor(c, s)

ClientStep(c) == ClientWork(c) \/ ClientCrash(c)

-----------------------------------------------------------------------------
(* A supervisor: supervise_authorized, then run_attempt.                   *)

SAt(s, step) == spc[s] = step
SGoto(s, step) == spc' = [spc EXCEPT ![s] = step]
SKeeps == UNCHANGED <<sdig, satt, stop, worker>>
Disk == <<taskFiles, attemptFiles>>

\* The frozen bytes are compared before owner.lock is taken.
CheckDigest(s) ==
    /\ SAt(s, "boot")
    /\ SGoto(s, IF sdig[s] = Digest THEN "lock" ELSE "exited")
    /\ sdig' = [sdig EXCEPT ![s] = None]
    /\ UNCHANGED <<Disk, locks, clientVars, satt, stop, worker, cancelled>>

\* Mutated form of OwnAttempt: without the replay guard.
OwnsReplay(s) ==
    /\ SAt(s, "lock")
    /\ owner = None
    /\ owner' = s
    /\ satt' = [satt EXCEPT ![s] = spec]
    /\ SGoto(s, "validate")
    /\ UNCHANGED <<Disk, admission, clientVars, sdig, stop, worker, cancelled>>

\* Take owner.lock, read headless.json and refuse an attempt that already
\* started or ended.
OwnAttempt(s) ==
    /\ SAt(s, "lock")
    /\ owner = None
    /\ spec \notin started /\ result[spec] = None
    /\ owner' = s
    /\ satt' = [satt EXCEPT ![s] = spec]
    /\ SGoto(s, "validate")
    /\ UNCHANGED <<Disk, admission, clientVars, sdig, stop, worker, cancelled>>

\* Somebody owns the task, or the attempt is a replay: the supervisor exits.
OwnRefused(s) ==
    /\ SAt(s, "lock")
    /\ owner # None \/ spec \in started \/ result[spec] # None
    /\ SGoto(s, "exited")
    /\ SKeeps /\ UNCHANGED <<Disk, locks, clientVars, cancelled>>

\* verify_task: the prompt and the composition match the record and the spec.
Consistent(a) == rec.att = a /\ prm = Composition(rec)

\* A mutated form of SpawnIntent: launch.lock is released before the spawn.
SpawnIntentUnheld(s) ==
    /\ SAt(s, "validate") /\ SGoto(s, "spawn")
    /\ Consistent(satt[s])
    /\ admission = None /\ ~cancel
    /\ intent' = intent \cup {satt[s]}
    /\ dirs' = dirs \cup {satt[s]}
    /\ SKeeps
    /\ UNCHANGED <<taskFiles, cancel, started, closed, result, locks, clientVars, cancelled>>

\* Under launch.lock, taken here and held until the worker exists: unless a
\* cancellation stands, record that a worker is about to be spawned.
SpawnIntent(s) ==
    /\ SAt(s, "validate") /\ SGoto(s, "spawn")
    /\ Consistent(satt[s])
    /\ admission = None /\ ~cancel
    /\ admission' = s
    /\ intent' = intent \cup {satt[s]}
    /\ dirs' = dirs \cup {satt[s]}
    /\ SKeeps
    /\ UNCHANGED <<taskFiles, cancel, started, closed, result, owner, clientVars, cancelled>>

\* Any failed check, a busy launch.lock, or a cancellation.
ValidateFails(s) ==
    /\ SAt(s, "validate") /\ SGoto(s, "error")
    /\ SKeeps /\ UNCHANGED <<Disk, locks, clientVars, cancelled>>

Spawn(s) ==
    /\ SAt(s, "spawn") /\ SGoto(s, "start_file")
    /\ worker' = [worker EXCEPT ![s] = "running"]
    /\ admission' = None
    /\ UNCHANGED <<Disk, owner, clientVars, sdig, satt, stop, cancelled>>

SpawnFails(s) ==
    /\ SAt(s, "spawn") /\ SGoto(s, "error")
    /\ intent' = intent \ {satt[s]}
    /\ admission' = None
    /\ SKeeps
    /\ UNCHANGED <<taskFiles, cancel, dirs, started, closed, result, owner, clientVars, cancelled>>

WriteStarted(s) ==
    /\ SAt(s, "start_file") /\ SGoto(s, "set_running")
    /\ started' = started \cup {satt[s]}
    /\ SKeeps
    /\ UNCHANGED <<taskFiles, cancel, dirs, intent, closed, result, locks, clientVars, cancelled>>

SetRunning(s) ==
    /\ SAt(s, "set_running") /\ SGoto(s, "loop")
    /\ SetState("Running")
    /\ SKeeps
    /\ UNCHANGED <<prm, spec, journal, attemptFiles, locks, clientVars, cancelled>>

-----------------------------------------------------------------------------
(* The supervision loop and the orderly end of an attempt.                 *)

\* One pass of the loop finds a reason to stop; a cancellation comes first.
StopFor(s, reason) ==
    /\ SAt(s, "loop") /\ SGoto(s, "stop_tree")
    /\ cancel <=> reason = "cancelled"
    /\ stop' = [stop EXCEPT ![s] = reason]
    /\ UNCHANGED <<Disk, locks, clientVars, sdig, satt, worker, cancelled>>

\* cancel_tree on the supervisor's own task, between two of its steps.
CancelOwn(s, closeStep, writeStep, next) ==
    \/ /\ SAt(s, closeStep) /\ SGoto(s, writeStep)
       /\ admission = None
       /\ admission' = s
       /\ closed' = closed \cup {spec}
       /\ UNCHANGED <<cancel, cancelled>>
    \/ /\ SAt(s, writeStep) /\ SGoto(s, next)
       /\ cancel' = TRUE
       /\ cancelled' = cancelled \cup {spec}
       /\ admission' = None
       /\ UNCHANGED closed

StopTree(s) ==
    /\ CancelOwn(s, "stop_tree", "stop_write", "stopping")
    /\ SKeeps
    /\ UNCHANGED <<taskFiles, dirs, intent, started, result, owner, clientVars>>

\* launch.lock stayed busy for two seconds.
TreeBusy(s) ==
    /\ spc[s] \in {"stop_tree", "drain_tree"}
    /\ admission # None
    /\ SGoto(s, "error")
    /\ SKeeps /\ UNCHANGED <<Disk, locks, clientVars, cancelled>>

\* A mutated form of KillWorker: SIGTERM alone, which the worker ignores.
KillWorkerPolitely(s) ==
    /\ SAt(s, "stopping")
    /\ worker[s] = "running"
    /\ UNCHANGED vars

\* SIGTERM, and SIGKILL two seconds later.
KillWorker(s) ==
    /\ SAt(s, "stopping")
    /\ worker[s] = "running"
    /\ worker' = [worker EXCEPT ![s] = "exited"]
    /\ UNCHANGED <<Disk, locks, clientVars, spc, sdig, satt, stop, cancelled>>

ChildExited(s) ==
    /\ spc[s] \in {"loop", "stopping"}
    /\ worker[s] = "exited"
    /\ SGoto(s, "close")
    /\ SKeeps /\ UNCHANGED <<Disk, locks, clientVars, cancelled>>

\* A mutated form of Drain: the rest of the process group survives.
DrainLeader(s) ==
    /\ SAt(s, "close") /\ SGoto(s, "finish")
    /\ closed' = closed \cup {satt[s]}
    /\ UNCHANGED <<taskFiles, cancel, dirs, intent, started, result, locks, clientVars,
                   sdig, satt, stop, worker, cancelled>>

\* Close child admission, kill what is left of the group, reap it and read the
\* last events: they may still report a write outside the worktree.
Drain(s) ==
    /\ SAt(s, "close")
    /\ closed' = closed \cup {satt[s]}
    /\ worker' = [worker EXCEPT ![s] = "dead"]
    /\ \/ SGoto(s, "finish") /\ UNCHANGED stop
       \/ /\ stop[s] = None /\ "boundary_violation" \in StopReasons
          /\ stop' = [stop EXCEPT ![s] = "boundary_violation"]
          /\ SGoto(s, "drain_tree")
    /\ UNCHANGED <<taskFiles, cancel, dirs, intent, started, result, locks, clientVars,
                   sdig, satt, cancelled>>

DrainTree(s) ==
    /\ CancelOwn(s, "drain_tree", "drain_write", "finish")
    /\ SKeeps
    /\ UNCHANGED <<taskFiles, dirs, intent, started, result, owner, clientVars>>

\* Broker and children are reconciled; the terminal result is written ...
Finish(s) ==
    /\ SAt(s, "finish") /\ SGoto(s, "set_final")
    /\ \E outcome \in IF stop[s] = None THEN {"succeeded", "failed"} ELSE {stop[s]} :
          result' = [result EXCEPT ![satt[s]] = outcome]
    /\ SKeeps
    /\ UNCHANGED <<taskFiles, cancel, dirs, intent, started, closed, locks, clientVars, cancelled>>

\* ... the record becomes terminal, and the supervisor ends.
SetFinal(s) ==
    /\ SAt(s, "set_final") /\ SGoto(s, "exited")
    /\ SetState(IF result[satt[s]] = "succeeded" THEN "Exited" ELSE "Failed")
    /\ owner' = None
    /\ SKeeps
    /\ UNCHANGED <<prm, spec, journal, attemptFiles, admission, clientVars, cancelled>>

\* A durable write or a system call of a running attempt fails.  From set_final,
\* the result is already on disk.
IOFails(s) ==
    /\ spc[s] \in {"start_file", "set_running", "loop", "stop_write", "stopping",
                  "close", "drain_write", "finish", "set_final"}
    /\ SGoto(s, "error")
    /\ admission' = Release(admission, s)
    /\ SKeeps /\ UNCHANGED <<Disk, owner, clientVars, cancelled>>

\* Unwinding kills the worker's group; a supervisor_error result is attempted.
WriteError(s) ==
    /\ SAt(s, "error") /\ SGoto(s, "error_state")
    /\ worker' = [worker EXCEPT ![s] = IF Alive(s) THEN "dead" ELSE @]
    /\ \/ /\ result' = [result EXCEPT ![satt[s]] = "supervisor_error"]
          /\ dirs' = dirs \cup {satt[s]}
       \/ Faults /\ UNCHANGED <<result, dirs>>
    /\ UNCHANGED <<taskFiles, cancel, intent, started, closed, locks, clientVars,
                   sdig, satt, stop, cancelled>>

\* The record is marked failed if it can be, and the supervisor ends.
SetFailed(s) ==
    /\ SAt(s, "error_state") /\ SGoto(s, "exited")
    /\ \/ SetState("Failed")
       \/ UNCHANGED rec
    /\ owner' = None
    /\ SKeeps
    /\ UNCHANGED <<prm, spec, journal, attemptFiles, admission, clientVars, cancelled>>

\* The supervisor is lost: its locks are released, its worker is not signalled.
SupervisorLost(s) ==
    /\ Faults
    /\ spc[s] \notin {"new", "exited"}
    /\ SGoto(s, "exited")
    /\ owner' = Release(owner, s)
    /\ admission' = Release(admission, s)
    /\ SKeeps /\ UNCHANGED <<Disk, clientVars, cancelled>>

\* A worker may end by itself at any time, supervised or not.
WorkerExits(s) ==
    /\ worker[s] = "running"
    /\ worker' = [worker EXCEPT ![s] = "exited"]
    /\ UNCHANGED <<Disk, locks, clientVars, spc, sdig, satt, stop, cancelled>>

\* What a supervisor does whose system calls succeed.
SupWork(s) ==
    \/ CheckDigest(s) \/ OwnAttempt(s) \/ OwnRefused(s) \/ SpawnIntent(s) \/ ValidateFails(s)
    \/ Spawn(s) \/ SpawnFails(s) \/ WriteStarted(s) \/ SetRunning(s)
    \/ \E reason \in StopReasons \cup {"cancelled"} : StopFor(s, reason)
    \/ StopTree(s) \/ TreeBusy(s) \/ KillWorker(s) \/ ChildExited(s)
    \/ Drain(s) \/ DrainTree(s) \/ Finish(s) \/ SetFinal(s)
    \/ WriteError(s) \/ SetFailed(s)

SupStep(s) == SupWork(s) \/ IOFails(s)

Next ==
    \/ \E c \in Clients : ClientStep(c)
    \/ \E s \in Sups : SupStep(s) \/ SupervisorLost(s) \/ WorkerExits(s)

Spec == Init /\ [][Next]_vars

\* Processes that are not lost keep running, and do not count on a failing write
\* to get on.  The supervision loop polls every 50 ms against a deadline, so a
\* pass that finds a reason to stop comes.
FairSpec == /\ Spec
            /\ \A c \in Clients : WF_vars(~At(c, "idle") /\ ClientWork(c))
            /\ \A s \in Sups : WF_vars(SupWork(s))
-----------------------------------------------------------------------------
(* Properties.                                                             *)

\* The supervisors that own the task: from reading headless.json to their end.
Owning == SupSteps \ {"new", "boot", "lock", "exited"}

\* At most one worker process group exists for the task at any time, whatever
\* launches, resumes, cancellations and inspections overlap.
OneWorker == \A s, t \in Sups : Alive(s) /\ Alive(t) => s = t

\* "attempt already started; implicit replay refused": no attempt is given to
\* two workers, even when two supervisors were started for it.
SpawnOnce == \A s, t \in Sups : s # t /\ worker[s] # "none" /\ worker[t] # "none" => satt[s] # satt[t]

Spawns(s) == worker[s] = "none" /\ worker'[s] = "running"

\* A worker receives exactly what is recorded: between verify_task and the
\* spawn, nobody changes task.json, prompt.txt or headless.json.
SpawnVerified == [][\A s \in Sups : Spawns(s) => satt[s] = spec /\ Consistent(spec)]_vars

\* No worker is spawned while a cancellation stands: the check made before the
\* spawn intent is still true at the spawn.
CancelBlocksSpawn == [][\A s \in Sups : Spawns(s) => ~cancel]_vars

\* A cancellation that named an attempt before its spawn stops that spawn.
CancelHonoured == [][\A s \in Sups : Spawns(s) => satt[s] \notin cancelled]_vars

\* A finished attempt is history: once another attempt is recorded, nothing
\* rewrites its result.
PastIsFrozen == [][\A a \in Attempts : a # spec => result'[a] = result[a]]_vars

\* A recorded result proves that the attempt's processes are gone: this is what
\* lets `resume` start the next attempt in the same worktree.
ResultMeansReaped == \A s \in Sups : Alive(s) => result[satt[s]] = None

Worktree == INSTANCE TaskWorktree WITH
    turn <- spec,
    running <- {s \in Sups : Alive(s)},
    spent <- {satt[s] : s \in {t \in Sups : worker[t] # "none"}},
    verdict <- result,
    stopped <- cancel,
    Workers <- Sups

\* As long as no supervisor is lost, supervisors, resumes, cancellations and their
\* rollbacks keep the promise of the worktree between them: one worker at a time
\* and per attempt, no verdict beside a worker, no resume beside either.
WorktreeKept == Worktree!WSpec

\* An attempt whose worker runs ends, and its worker with it, whether it is
\* cancelled, times out, exits or fails: only a lost supervisor, which recorded
\* no result, leaves a worker behind.
AttemptEnds ==
    \A s \in Sups : worker[s] = "running" ~>
        spc[s] = "exited" /\ (worker[s] = "running" => result[satt[s]] = None)
=============================================================================
