--------------------------- MODULE InteractiveTask ---------------------------
(***************************************************************************)
(* The life of an interactive task: a launcher that places it and asks a   *)
(* session host for a session, the run-task processes that the session     *)
(* (or a user) starts, the commands that cancel it and the listings that   *)
(* reconcile its record.  They meet in task.json, cancel.json, owner.lock  *)
(* and in the session host.  Headless tasks are in HeadlessAttempt.        *)
(***************************************************************************)
EXTENDS Naturals, FiniteSets

CONSTANTS
    Runners,        \* run-task processes
    Clients,        \* `ahu cancel` processes
    Listing,        \* the process of a listing that probes or reconciles
    None,
    Faults          \* processes may be killed, signals may be denied

ASSUME ActorsDistinct == Listing \notin Runners /\ None \notin Runners \cup {Listing}
ASSUME FaultsIsBoolean == Faults \in BOOLEAN

VARIABLES
    worktree,       \* the checkout exists
    rec,            \* task.json: its state and whether session_ref is recorded
    cancel,         \* cancel.json exists
    lockfile,       \* owner.lock exists
    owner,          \* who holds the flock of owner.lock
    hosted,         \* a session host was selected (record.session_host)
    asked,          \* create_task_session as the host sees it
    session,        \* the session in the host
    inside,         \* the run-task that the session started
    lpc,            \* the launcher
    rpc, rout,      \* run-task: where it is, the outcome it has yet to record
    worker,         \* the harness each run-task spawned
    cpc, seen, report,  \* cancel: where it is, the record last loaded, its answer
    opc, oseen,     \* a listing: where it is, the record it loaded
    ended           \* history: what the last supervisor recorded

files == <<worktree, rec, cancel, lockfile>>
host == <<asked, session, inside>>
run == <<rpc, rout, worker>>
cmd == <<cpc, seen, report>>
list == <<opc, oseen>>
vars == <<files, owner, hosted, host, lpc, run, cmd, list, ended>>

LiveStates == {"starting", "running"}
States == LiveStates \cup {"exited", "failed", "cancelled"}
Records == [state : States, ref : BOOLEAN]
ASSUME NoneIsNoRecord == None \notin Records
Live(record) == record # None /\ record.state \in LiveStates

Init ==
    /\ worktree = FALSE /\ rec = None /\ cancel = FALSE /\ lockfile = FALSE
    /\ owner = None /\ hosted \in BOOLEAN
    /\ asked = "no" /\ session = "none" /\ inside = None
    /\ lpc = "checkout"
    /\ rpc = [r \in Runners |-> "idle"] /\ rout = [r \in Runners |-> None]
    /\ worker = [r \in Runners |-> "none"]
    /\ cpc = [c \in Clients |-> "read"] /\ seen = [c \in Clients |-> None]
    /\ report = [c \in Clients |-> "none"]
    /\ opc = "idle" /\ oseen = None /\ ended = None

(***************************************************************************)
(* A session that ends takes with it the run-task in its terminal and the  *)
(* harness in the foreground of that terminal.                             *)
(***************************************************************************)
EndSession ==
    LET dies == {r \in Runners : r = inside /\ rpc[r] \notin {"idle", "done", "lost"}}
    IN  /\ session' = "closed"
        /\ rpc' = [r \in Runners |-> IF r \in dies THEN "lost" ELSE rpc[r]]
        /\ worker' = [r \in Runners |-> IF r = inside /\ worker[r] = "alive"
                                         THEN "gone" ELSE worker[r]]
        /\ owner' = IF owner \in dies THEN None ELSE owner
        /\ UNCHANGED <<rout, asked, inside>>

(***************************************************************************)
(* The launcher (launch::execute), which holds the coordination lock up to *)
(* the end of create_task_session.                                         *)
(***************************************************************************)
AddWorktree ==
    /\ lpc = "checkout"
    /\ \/ worktree' = TRUE /\ lpc' = "save"
       \/ worktree' = FALSE /\ lpc' = "done"     \* no host, branch taken, handle taken
    /\ UNCHANGED <<rec, cancel, lockfile, owner, hosted, host, run, cmd, list, ended>>

SaveRecord ==
    /\ lpc = "save"
    /\ \/ rec' = [state |-> "starting", ref |-> FALSE] /\ lpc' = "register"
       \/ rec' = rec /\ lpc' = "rollback"        \* materialize, state directory or save
    /\ UNCHANGED <<worktree, cancel, lockfile, owner, hosted, host, run, cmd, list, ended>>

Register ==
    /\ lpc = "register"
    /\ \/ hosted /\ lpc' = "create" /\ UNCHANGED rpc
       \/ /\ ~hosted /\ lpc' = "done"            \* run_task in this process
          /\ \E r \in Runners : rpc[r] = "idle" /\ rpc' = [rpc EXCEPT ![r] = "verify"]
       \/ lpc' = "rollback" /\ UNCHANGED rpc
    /\ UNCHANGED <<files, owner, hosted, host, rout, worker, cmd, list, ended>>

\* Git refuses to remove a checkout that is not clean; the record goes in any case.
Rollback ==
    /\ lpc = "rollback"
    /\ worktree' \in {FALSE, worktree} /\ rec' = None /\ cancel' = FALSE /\ lockfile' = FALSE
    /\ lpc' = "done"
    /\ UNCHANGED <<owner, hosted, host, run, cmd, list, ended>>

\* One request on the host's pipe: dispatched once a byte of it was written.
CreateSession ==
    /\ lpc = "create"
    /\ \/ asked' = asked /\ lpc' = "rollback"    \* not dispatched: not created
       \/ asked' = "sent" /\ lpc' = "sent"
       \/ asked' = asked /\ lpc' = "unknown"     \* part of the frame
    /\ UNCHANGED <<files, owner, hosted, session, inside, run, cmd, list, ended>>

SessionAnswer ==
    /\ lpc = "sent"
    /\ lpc' \in (IF asked = "created" /\ session = "open" THEN {"publish"} ELSE {})
                  \cup (IF asked = "refused" THEN {"rollback"} ELSE {})
                  \cup {"unknown"}               \* timeout, broken pipe, invalid answer
    /\ UNCHANGED <<files, owner, hosted, host, run, cmd, list, ended>>

\* The record with another state, or with its session.
WithState(state) == [state |-> state, ref |-> rec.ref]
WithSession == [state |-> rec.state, ref |-> TRUE]

\* Mutated form of RecordSession: the launcher does not look for a cancellation.
RecordSessionOnly ==
    /\ lpc = "publish" /\ lpc' = "done"
    /\ rec' = IF rec = None THEN None ELSE WithSession
    /\ UNCHANGED <<worktree, cancel, lockfile, owner, hosted, host, run, cmd, list, ended>>

\* update_task_record_locked: reloads under state.lock before it writes.
RecordSession ==
    /\ lpc = "publish"
    /\ \/ /\ rec # None
          /\ rec' = WithSession
          /\ lpc' = IF rec.state = "cancelled" THEN "close" ELSE "done"
       \/ rec' = rec /\ lpc' = "unrecorded"
    /\ UNCHANGED <<worktree, cancel, lockfile, owner, hosted, host, run, cmd, list, ended>>

LauncherCloses ==
    /\ lpc = "close"
    /\ \/ session = "open" /\ EndSession /\ lpc' = "done"
       \/ session # "open" /\ lpc' = "done" /\ UNCHANGED <<host, run, owner>>
       \/ Faults /\ lpc' = "lost" /\ UNCHANGED <<host, run, owner>>  \* the host fails
    /\ UNCHANGED <<files, hosted, cmd, list, ended>>

LauncherLost ==
    /\ Faults /\ lpc \notin {"done", "lost", "unknown", "unrecorded"}
    /\ lpc' = "lost"
    /\ UNCHANGED <<files, owner, hosted, host, run, cmd, list, ended>>

(***************************************************************************)
(* The session host.  A request that reached it may be served after the    *)
(* launcher gave up on the answer.                                         *)
(***************************************************************************)
HostCreates(r) ==
    /\ asked = "sent" /\ rpc[r] = "idle"
    /\ asked' = "created" /\ session' = "open" /\ inside' = r
    /\ rpc' = [rpc EXCEPT ![r] = "verify"]
    /\ UNCHANGED <<files, owner, hosted, lpc, rout, worker, cmd, list, ended>>

HostRefuses ==
    /\ asked = "sent" /\ asked' = "refused"
    /\ UNCHANGED <<files, owner, hosted, session, inside, lpc, run, cmd, list, ended>>

SessionEnds ==
    /\ session = "open" /\ EndSession
    /\ UNCHANGED <<files, hosted, lpc, cmd, list, ended>>

(***************************************************************************)
(* run-task.                                                               *)
(***************************************************************************)
Step(r, to) == rpc' = [rpc EXCEPT ![r] = to]

\* Another run of the same task, by a host that restores its sessions or by hand.
Rerun(r) ==
    /\ rec # None /\ rpc[r] = "idle"
    /\ \E q \in Runners : rpc[q] \in {"done", "lost"}
    /\ Step(r, "verify")
    /\ UNCHANGED <<files, owner, hosted, host, lpc, rout, worker, cmd, list, ended>>

VerifyTask(r) ==
    /\ rpc[r] = "verify"
    /\ Step(r, IF rec # None /\ worktree THEN "open" ELSE "done")
    /\ UNCHANGED <<files, owner, hosted, host, lpc, rout, worker, cmd, list, ended>>

OpenOwner(r) ==
    /\ rpc[r] = "open" /\ Step(r, "lock")
    /\ lockfile' = (rec # None)
    /\ UNCHANGED <<worktree, rec, cancel, owner, hosted, host, lpc, rout, worker, cmd, list, ended>>

\* Not waited for: whoever finds the lock taken leaves, and records nothing.
LockOwner(r) ==
    /\ rpc[r] = "lock"
    /\ \/ owner = None /\ owner' = r /\ Step(r, "reverify")
       \/ owner # None /\ owner' = owner /\ Step(r, "done")
    /\ UNCHANGED <<files, hosted, host, lpc, rout, worker, cmd, list, ended>>

VerifyAgain(r) ==
    /\ rpc[r] = "reverify"
    /\ \/ rec # None /\ worktree /\ Step(r, "prepare") /\ owner' = owner
       \/ Step(r, "done") /\ owner' = None
    /\ UNCHANGED <<files, hosted, host, lpc, rout, worker, cmd, list, ended>>

\* set_state: whatever the record says by now, it is running.
SetRunning(r) ==
    /\ rpc[r] = "prepare"
    /\ \/ /\ rec # None /\ rec' = WithState("running")
          /\ ended' = None /\ Step(r, "look")
       \/ rec' = rec /\ ended' = ended /\ Step(r, "failing")
    /\ UNCHANGED <<worktree, cancel, lockfile, owner, hosted, host, lpc, rout, worker, cmd, list>>

Record(state) ==
    /\ rec' = IF rec = None THEN None ELSE WithState(state)
    /\ ended' = IF rec = None THEN ended ELSE state

LookForCancel(r) ==
    /\ rpc[r] = "look"
    /\ \/ cancel /\ Record("cancelled") /\ Step(r, "done") /\ owner' = None
       \/ ~cancel /\ Step(r, "spawn") /\ UNCHANGED <<rec, ended, owner>>
    /\ UNCHANGED <<worktree, cancel, lockfile, hosted, host, lpc, rout, worker, cmd, list>>

Spawn(r) ==
    /\ rpc[r] = "spawn"
    /\ \/ worker' = [worker EXCEPT ![r] = "alive"] /\ Step(r, "supervise") /\ rout' = rout
       \/ worker' = worker /\ Step(r, "failing") /\ rout' = rout   \* probe, login or exec
       \/ /\ worker' = [worker EXCEPT ![r] = "gone"]               \* no foreground: killed
          /\ rout' = [rout EXCEPT ![r] = "failed"] /\ Step(r, "persist")
    /\ UNCHANGED <<files, owner, hosted, host, lpc, cmd, list, ended>>

HarnessExits(r) ==
    /\ worker[r] = "alive" /\ worker' = [worker EXCEPT ![r] = "gone"]
    /\ UNCHANGED <<files, owner, hosted, host, lpc, rpc, rout, cmd, list, ended>>

\* supervise_harness: the exit is looked at before cancel.json.
SeeExit(r) ==
    /\ rpc[r] = "supervise" /\ worker[r] = "gone"
    /\ \E o \in {"exited", "failed"} : rout' = [rout EXCEPT ![r] = o]
    /\ Step(r, "persist")
    /\ UNCHANGED <<files, owner, hosted, host, lpc, worker, cmd, list, ended>>

\* Mutated form of SeeCancel: the supervisor heeds a request only while the record says
\* that the task is running.
SeeCancelIfRunning(r) ==
    /\ rpc[r] = "supervise" /\ cancel /\ worker[r] = "alive"
    /\ rec # None /\ rec.state = "running"
    /\ worker' = [worker EXCEPT ![r] = "gone"] /\ Step(r, "persist")
    /\ rout' = [rout EXCEPT ![r] = "cancelled"]
    /\ UNCHANGED <<files, owner, hosted, host, lpc, cmd, list, ended>>

SeeCancel(r) ==
    /\ rpc[r] = "supervise" /\ cancel /\ worker[r] = "alive"
    /\ \/ /\ worker' = [worker EXCEPT ![r] = "gone"] /\ Step(r, "persist")
          /\ rout' = [rout EXCEPT ![r] = "cancelled"] /\ owner' = owner
       \/ /\ Faults /\ Step(r, "lost") /\ owner' = None            \* a signal was denied
          /\ UNCHANGED <<worker, rout>>
    /\ UNCHANGED <<files, hosted, host, lpc, cmd, list, ended>>

RecordOutcome(r) ==
    /\ rpc[r] = "persist" /\ Record(rout[r])
    /\ Step(r, "done") /\ owner' = None
    /\ UNCHANGED <<worktree, cancel, lockfile, hosted, host, lpc, rout, worker, cmd, list>>

RecordStartupError(r) ==
    /\ rpc[r] = "failing"
    /\ IF Live(rec) THEN Record(IF cancel THEN "cancelled" ELSE "failed")
                    ELSE UNCHANGED <<rec, ended>>
    /\ Step(r, "done") /\ owner' = None
    /\ UNCHANGED <<worktree, cancel, lockfile, hosted, host, lpc, rout, worker, cmd, list>>

RunnerLost(r) ==
    /\ Faults /\ rpc[r] \notin {"idle", "done", "lost"}
    /\ Step(r, "lost") /\ owner' = IF owner = r THEN None ELSE owner
    /\ UNCHANGED <<files, hosted, host, lpc, rout, worker, cmd, list, ended>>

(***************************************************************************)
(* ahu cancel (cancel_cmd, confirm_interactive_cancellation).              *)
(***************************************************************************)
CancelRead(c) ==
    /\ cpc[c] = "read" /\ rec # None
    /\ IF Live(rec) THEN cpc' = [cpc EXCEPT ![c] = "write"] /\ report' = report
                    ELSE /\ cpc' = [cpc EXCEPT ![c] = "done"]
                         /\ report' = [report EXCEPT ![c] = "already-terminal"]
    /\ UNCHANGED <<files, owner, hosted, host, lpc, run, seen, list, ended>>

CancelWrite(c) ==
    /\ cpc[c] = "write"
    /\ cancel' = (rec # None)
    /\ cpc' = [cpc EXCEPT ![c] = IF rec # None THEN "poll" ELSE "done"]
    /\ UNCHANGED <<worktree, rec, lockfile, owner, hosted, host, lpc, run, seen, report, list, ended>>

\* Mutated form of CancelPoll: any terminal record confirms the cancellation.
PollAnyEnd(c) ==
    /\ cpc[c] = "poll"
    /\ seen' = [seen EXCEPT ![c] = rec]
    /\ report' = [report EXCEPT ![c] =
                    IF rec = None \/ Live(rec) THEN "requested-unconfirmed" ELSE "confirmed"]
    /\ cpc' = [cpc EXCEPT ![c] = "settle"]
    /\ UNCHANGED <<files, owner, hosted, host, lpc, run, list, ended>>

\* The wait ends with an outcome, without a record, or after five seconds.
CancelPoll(c) ==
    /\ cpc[c] = "poll"
    /\ seen' = [seen EXCEPT ![c] = rec]
    /\ report' = [report EXCEPT ![c] =
                    IF rec = None \/ Live(rec) THEN "requested-unconfirmed"
                    ELSE IF rec.state = "cancelled" THEN "confirmed"
                    ELSE "finished-on-its-own"]
    /\ cpc' = [cpc EXCEPT ![c] = "settle"]
    /\ UNCHANGED <<files, owner, hosted, host, lpc, run, list, ended>>

CancelSettle(c) ==
    /\ cpc[c] = "settle" /\ cpc' = [cpc EXCEPT ![c] = "done"]
    /\ IF seen[c] # None /\ seen[c].ref /\ report[c] = "confirmed"
       THEN \/ session = "open" /\ EndSession /\ report' = report
            \/ session # "open" /\ UNCHANGED <<host, run, owner, report>>
            \/ /\ Faults /\ report' = [report EXCEPT ![c] = "close-failed"]
               /\ UNCHANGED <<host, run, owner>>
       ELSE UNCHANGED <<host, run, owner, report>>
    /\ UNCHANGED <<files, hosted, lpc, seen, list, ended>>

(***************************************************************************)
(* A listing: session_state probes owner.lock, reconcile asks the host.    *)
(***************************************************************************)
ListBegin ==
    /\ opc = "idle" /\ Live(rec) /\ oseen' = rec
    /\ \/ lockfile /\ opc' = "probe"
       \/ rec.ref /\ opc' = "ask"
    /\ UNCHANGED <<files, owner, hosted, host, lpc, run, cmd, ended>>

ProbeOwner ==
    /\ opc = "probe"
    /\ \/ owner = None /\ owner' = Listing /\ opc' = "probing" /\ oseen' = oseen
       \/ owner # None /\ owner' = owner /\ opc' = "idle" /\ oseen' = None
    /\ UNCHANGED <<files, hosted, host, lpc, run, cmd, ended>>

ProbeEnd ==
    /\ opc = "probing" /\ owner' = None
    /\ \/ oseen.state # "starting" /\ opc' = "write" /\ oseen' = oseen
       \/ oseen.state = "starting" /\ opc' = "idle" /\ oseen' = None
    /\ UNCHANGED <<files, hosted, host, lpc, run, cmd, ended>>

AskHost ==
    /\ opc = "ask"
    /\ \/ session # "open" /\ opc' = "write" /\ oseen' = oseen
       \/ opc' = "idle" /\ oseen' = None         \* owned, mismatch, or no answer
    /\ UNCHANGED <<files, owner, hosted, host, lpc, run, cmd, ended>>

\* Mutated form of SetExitedIfLive: the record loaded before the probe is written back.
SetExitedStale ==
    /\ opc = "write" /\ opc' = "idle" /\ oseen' = None
    /\ rec' = IF rec = None THEN None ELSE [oseen EXCEPT !.state = "exited"]
    /\ UNCHANGED <<worktree, cancel, lockfile, owner, hosted, host, lpc, run, cmd, ended>>

\* set_exited_if_live reloads the record under state.lock.
SetExitedIfLive ==
    /\ opc = "write" /\ opc' = "idle" /\ oseen' = None
    /\ rec' = IF Live(rec) THEN WithState("exited") ELSE rec
    /\ UNCHANGED <<worktree, cancel, lockfile, owner, hosted, host, lpc, run, cmd, ended>>

RunTask(r) ==
    \/ VerifyTask(r) \/ OpenOwner(r) \/ LockOwner(r) \/ VerifyAgain(r) \/ SetRunning(r)
    \/ LookForCancel(r) \/ Spawn(r) \/ SeeExit(r) \/ SeeCancel(r) \/ RecordOutcome(r)
    \/ RecordStartupError(r)

ListingStep == ProbeOwner \/ ProbeEnd \/ AskHost \/ SetExitedIfLive

Next ==
    \/ AddWorktree \/ SaveRecord \/ Register \/ Rollback \/ CreateSession \/ SessionAnswer
    \/ RecordSession \/ LauncherCloses \/ LauncherLost
    \/ HostRefuses \/ SessionEnds
    \/ \E r \in Runners : \/ HostCreates(r) \/ Rerun(r) \/ RunTask(r) \/ HarnessExits(r)
                          \/ RunnerLost(r)
    \/ \E c \in Clients : CancelRead(c) \/ CancelWrite(c) \/ CancelPoll(c) \/ CancelSettle(c)
    \/ ListBegin \/ ListingStep

Spec == Init /\ [][Next]_vars

\* run-task polls every 100 ms and a probe of owner.lock ends; a harness, a host, a
\* launcher and a user owe nothing.
FairSpec == Spec /\ \A r \in Runners : WF_vars(RunTask(r)) /\ WF_vars(ListingStep)

(***************************************************************************)
(* Properties.                                                             *)
(***************************************************************************)

\* Types; a session runs one run-task, and a listing holds owner.lock only while it
\* probes it.
TypeOK ==
    /\ worktree \in BOOLEAN /\ cancel \in BOOLEAN /\ lockfile \in BOOLEAN
    /\ hosted \in BOOLEAN
    /\ rec \in Records \cup {None}
    /\ owner \in Runners \cup {None, Listing} /\ inside \in Runners \cup {None}
    /\ asked \in {"no", "sent", "created", "refused"}
    /\ session \in {"none", "open", "closed"} /\ (session = "none") = (inside = None)
    /\ lpc \in {"checkout", "save", "register", "rollback", "create", "sent", "unknown",
                "publish", "unrecorded", "close", "done", "lost"}
    /\ rpc \in [Runners -> {"idle", "verify", "open", "lock", "reverify", "prepare", "look",
                            "spawn", "supervise", "persist", "failing", "done", "lost"}]
    /\ rout \in [Runners -> States \cup {None}]
    /\ worker \in [Runners -> {"none", "alive", "gone"}]
    /\ report \in [Clients -> {"none", "already-terminal", "requested-unconfirmed", "confirmed",
                              "finished-on-its-own", "close-failed"}]
    /\ cpc \in [Clients -> {"read", "write", "poll", "settle", "done"}]
    /\ opc \in {"idle", "probe", "probing", "ask", "write"}
    /\ ended \in States \cup {None}
    /\ (owner = Listing) = (opc = "probing")
    /\ \A r \in Runners : (owner = r) =
         (rpc[r] \in {"reverify", "prepare", "look", "spawn", "supervise", "persist", "failing"})

\* A confirmed cancellation means what it says (cancel_cmd): no harness that a
\* supervisor still answers for is running, also when the task is run again.
ConfirmedMeansStopped ==
    (\E c \in Clients : report[c] = "confirmed") =>
        \A r \in Runners : worker[r] = "alive" => rpc[r] = "lost"

\* Of the launcher that records a session and the command that confirms a cancellation
\* one closes the session, whichever takes state.lock first (finish_workspace_launch),
\* as long as the task is run once: a second run sets the record to running again.
CancelledSessionClosed ==
    (/\ \E c \in Clients : cpc[c] = "done" /\ report[c] = "confirmed"
     /\ lpc = "done" /\ \A r \in Runners \ {inside} : rpc[r] = "idle")
        => session # "open"

\* What a supervisor recorded at its end is what the record says until the task is run
\* again: no listing, launcher or later command replaces it.
OutcomeStands == ended # None /\ rec # None => rec.state = ended

\* The launcher takes back a checkout and its record only when no session has come of
\* its request and none will (workspace_creation_failed).
RollbackSparesSession ==
    lpc = "rollback" \/ (lpc = "done" /\ rec = None) =>
        session = "none" /\ asked # "sent" /\ \A r \in Runners : worker[r] # "alive"

\* A cancellation request that is on disk ends every supervised harness for good, also
\* one that is about to be spawned and one that a later run would spawn.
CancelStops ==
    cancel ~> [](\A r \in Runners : worker[r] = "alive" => rpc[r] = "lost")
==============================================================================
