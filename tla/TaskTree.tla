------------------------------- MODULE TaskTree -------------------------------
(***************************************************************************)
(* A root task, the children its workers ask its supervisor's broker for,  *)
(* and their children: src/broker.rs, the admission checks of              *)
(* src/headless/admission.rs, and the parts of src/headless.rs that launch *)
(* a child, cancel a tree and reconcile the children of an attempt.        *)
(*                                                                         *)
(* What one attempt does by itself (journal, digests, rollbacks) is the    *)
(* subject of HeadlessAttempt; here a supervisor is reduced to what its    *)
(* children, its parent and a cancellation see of it.                      *)
(***************************************************************************)
EXTENDS Integers, FiniteSets

CONSTANTS
    Root,          \* the task submitted from the host
    Kids,          \* ids for child tasks (a bound: each is used once)
    Reqs,          \* request nonces (a bound)
    Host,          \* the process of an explicit `ahu cancel`
    MaxAttempt,    \* bound on the root's attempts
    MaxPending,    \* dispatches in flight per broker (8 in the code)
    MaxRequests,   \* requests consumed per attempt (256 in the code)
    MaxActive,     \* active tasks per store (16 in the code)
    MaxTree,       \* tasks per root grant (128 in the code)
    Faults,        \* whether supervisors and cancellers may be lost
    None

ASSUME TreeBounds == /\ MaxAttempt \in Nat \ {0} /\ MaxPending \in Nat \ {0}
                     /\ MaxRequests \in Nat /\ MaxActive \in Nat /\ MaxTree \in Nat
ASSUME FaultsAllowed == Faults \in BOOLEAN
ASSUME TreeNames == /\ Root \notin Kids /\ Host \notin Kids \cup {Root}
                    /\ None \notin Kids \cup Reqs \cup {Root, Host}
ASSUME NoneApart == None \notin {"supervisor", "resume", "succeeded", "failed", "error"}

Tasks == {Root} \cup Kids
Attempts == 1..MaxAttempt

VARIABLES
    \* the task directories
    rec,        \* "none", "half" (task.json without headless.json) or "full"
    att,        \* the attempt of headless.json
    env,        \* a child's parent, its attempt and the request, frozen for the child
    cancel,     \* the tasks that have a cancel.json
    closed,     \* the attempts that have an admission-closed.json
    result,     \* the result.json of every attempt
    \* the mailboxes
    req,        \* <nonce>.request.json: whose mailbox, and the attempt of its capability
    claim,      \* attempt-N/broker/<nonce>.claim.json
    \* locks
    owner,      \* owner.lock of every task
    admission,  \* launch.lock
    \* processes
    spc,        \* the supervisor of every task
    cur,        \* the request its poll has claimed and not yet dispatched
    stop,       \* the tasks whose supervisor has decided to stop its worker
    out,        \* the outcome it computed and has not yet published
    worker,     \* the worker's process group
    lpc,        \* the launcher (`ahu @agent --background`) of every child
    thr,        \* the broker's thread that waits for it; then its response
    todo,       \* what a running cancel_tree has still to write
    hpc,        \* the explicit cancellation
    rpc,        \* a resume of the root
    marked      \* history: the attempts a cancellation has reached

dirs    == <<rec, att, env, cancel, closed, result>>
mailbox == <<req, claim>>
locks   == <<owner, admission>>
sups    == <<spc, cur, stop, out, worker>>
kidProcs == <<lpc, thr>>
hosts   == <<hpc, rpc>>
vars == <<dirs, mailbox, locks, sups, kidProcs, todo, hosts, marked>>

Claims(t) == {r \in Reqs : req[r] # None /\ req[r].task = t /\ claim[r][att[t]] # "none"}
Pending(t) == {c \in Kids : thr[c] = "waiting" /\ env[c].parent = t}
KidsOf(t, a) == {c \in Kids : rec[c] # "none" /\ env[c].parent = t /\ env[c].patt = a}
Running(c) == lpc[c] \in {"spawned", "admitted", "half", "recorded", "starting"}

TypeOK ==
    /\ rec \in [Tasks -> {"none", "half", "full"}]
    /\ att \in [Tasks -> Attempts]
    /\ env \in [Kids -> [parent : Tasks, patt : Attempts, req : Reqs] \cup {None}]
    /\ cancel \subseteq Tasks
    /\ closed \subseteq Tasks \X Attempts
    /\ marked \subseteq Tasks \X Attempts
    /\ result \in [Tasks -> [Attempts -> {None, "succeeded", "failed", "error"}]]
    /\ req \in [Reqs -> [task : Tasks, att : Attempts] \cup {None}]
    /\ claim \in [Reqs -> [Attempts -> {"none", "refused", "dispatching"}]]
    /\ owner \in [Tasks -> {None, "supervisor", "resume"}]
    /\ admission \in Tasks \cup {Host, None}
    /\ spc \in [Tasks -> {"none", "boot", "owned", "admitted", "look", "dispatch",
                          "select", "mark", "drain", "join", "reconcile", "publish",
                          "error", "done", "lost"}]
    /\ cur \in [Tasks -> Reqs \cup {None}]
    /\ stop \subseteq Tasks
    /\ out \in [Tasks -> {None, "succeeded", "failed"}]
    /\ worker \in [Tasks -> {"none", "alive", "exited"}]
    /\ lpc \in [Kids -> {"none", "spawned", "admitted", "half", "recorded", "starting",
                         "ended"}]
    /\ thr \in [Kids -> {"none", "waiting", "done"}]
    /\ todo \in [Tasks \cup {Host} -> SUBSET (Tasks \X Attempts)]
    /\ hpc \in {"idle", "mark", "done", "failed", "lost"}
    /\ rpc \in {"idle", "save", "uncancel"}
    /\ \A t \in Tasks : /\ Cardinality(Claims(t)) <= MaxRequests
                        /\ Cardinality(Pending(t)) <= MaxPending

\* The root has been launched and its supervisor started.
Init ==
    /\ rec = [t \in Tasks |-> IF t = Root THEN "full" ELSE "none"]
    /\ att = [t \in Tasks |-> 1]
    /\ env = [c \in Kids |-> None]
    /\ cancel = {} /\ closed = {} /\ marked = {}
    /\ result = [t \in Tasks |-> [a \in Attempts |-> None]]
    /\ req = [r \in Reqs |-> None]
    /\ claim = [r \in Reqs |-> [a \in Attempts |-> "none"]]
    /\ owner = [t \in Tasks |-> None] /\ admission = None
    /\ spc = [t \in Tasks |-> IF t = Root THEN "boot" ELSE "none"]
    /\ cur = [t \in Tasks |-> None] /\ stop = {}
    /\ out = [t \in Tasks |-> None] /\ worker = [t \in Tasks |-> "none"]
    /\ lpc = [c \in Kids |-> "none"] /\ thr = [c \in Kids |-> "none"]
    /\ todo = [p \in Tasks \cup {Host} |-> {}]
    /\ hpc = "idle" /\ rpc = "idle"

SAt(t, l) == spc[t] = l
SGoto(t, l) == spc' = [spc EXCEPT ![t] = l]
Result(t) == result[t][att[t]]

-----------------------------------------------------------------------------
(* Admission of a child (validate_parent_attempt).                         *)

ParentOpen(t) ==
    t # Root =>
    /\ env[t].patt = att[env[t].parent]
    /\ env[t].parent \notin cancel
    /\ <<env[t].parent, env[t].patt>> \notin closed
    /\ Result(env[t].parent) = None
    /\ owner[env[t].parent] # None
    /\ claim[env[t].req][env[t].patt] = "dispatching"

-----------------------------------------------------------------------------
(* The worker.                                                             *)

\* A worker asks for a child: it puts a request under its capability into the
\* task's mailbox. Nothing is asked of a task that is being cancelled.
Submit(t, r) ==
    /\ worker[t] = "alive" /\ t \notin cancel /\ req[r] = None
    /\ req' = [req EXCEPT ![r] = [task |-> t, att |-> att[t]]]
    /\ UNCHANGED <<dirs, claim, locks, sups, kidProcs, todo, hosts, marked>>

WorkerExits(t) ==
    /\ worker[t] = "alive"
    /\ worker' = [worker EXCEPT ![t] = "exited"]
    /\ UNCHANGED <<dirs, mailbox, locks, spc, cur, stop, out, kidProcs, todo, hosts, marked>>

-----------------------------------------------------------------------------
(* The supervisor, up to the spawn of its worker.                          *)

OwnTask(t) ==
    /\ SAt(t, "boot")
    /\ IF owner[t] = None /\ Result(t) = None
       THEN owner' = [owner EXCEPT ![t] = "supervisor"] /\ SGoto(t, "owned")
       ELSE UNCHANGED owner /\ SGoto(t, "done")
    /\ UNCHANGED <<dirs, mailbox, admission, cur, stop, out, worker, kidProcs, todo, hosts,
                   marked>>

\* Mutated form of AdmitSpawn: only the parent's cancellation is looked at.
AdmitSpawnOwnUnseen(t) ==
    /\ SAt(t, "owned") /\ admission = None /\ ParentOpen(t)
    /\ admission' = t
    /\ SGoto(t, "admitted")
    /\ UNCHANGED <<dirs, mailbox, owner, cur, stop, out, worker, kidProcs, todo, hosts, marked>>

\* "Serialize the final parent/cancellation check with admission and explicit
\* cancellation": take launch.lock, which stays held until the worker is spawned.
AdmitSpawn(t) ==
    /\ SAt(t, "owned") /\ admission = None
    /\ t \notin cancel /\ ParentOpen(t)
    /\ admission' = t
    /\ SGoto(t, "admitted")
    /\ UNCHANGED <<dirs, mailbox, owner, cur, stop, out, worker, kidProcs, todo, hosts, marked>>

SpawnRefused(t) ==
    /\ SAt(t, "owned")
    /\ admission # None \/ t \in cancel \/ ~ParentOpen(t)
    /\ SGoto(t, "error")
    /\ UNCHANGED <<dirs, mailbox, locks, cur, stop, out, worker, kidProcs, todo, hosts, marked>>

Spawn(t) ==
    /\ SAt(t, "admitted")
    /\ worker' = [worker EXCEPT ![t] = "alive"]
    /\ admission' = None
    /\ SGoto(t, "look")
    /\ UNCHANGED <<dirs, mailbox, owner, cur, stop, out, kidProcs, todo, hosts, marked>>

-----------------------------------------------------------------------------
(* Cancelling a tree (cancel_tree), by a supervisor that stops its worker  *)
(* or by an explicit `ahu cancel`.                                         *)

ChildOf(c, x) == c \in Kids /\ rec[c] = "full" /\ env[c].parent = x /\ env[c].patt = att[x]

\* Mutated form of Selected: the descendants are left alone.
SelectedAlone(t) == {t}

\* The task and its recorded descendants, each through the attempt its parent
\* has now: the least set that contains t and is closed under ChildOf.
Selected(t) ==
    {x \in Tasks : \A S \in SUBSET Tasks :
        t \in S /\ (\A y \in S, c \in Kids : ChildOf(c, y) => c \in S) => x \in S}

\* The whole store is parsed first: a task directory whose headless.json is not
\* there fails the cancellation.
Parsable == \A t \in Tasks : rec[t] # "half"

TreeSelect(p, t) ==
    /\ admission = None /\ Parsable
    /\ admission' = p
    /\ todo' = [todo EXCEPT ![p] = {<<x, att[x]>> : x \in Selected(t)}]

\* The lock is only awaited for two seconds.
TreeFails == admission # None \/ ~Parsable

\* Parents come before their children.
TreeMark(p, x) ==
    /\ x \in todo[p]
    /\ x[1] # Root => \A y \in todo[p] : y[1] # env[x[1]].parent
    /\ closed' = closed \cup {x}
    /\ cancel' = cancel \cup {x[1]}
    /\ marked' = marked \cup {x}
    /\ todo' = [todo EXCEPT ![p] = @ \ {x}]

-----------------------------------------------------------------------------
(* The supervisor's loop (run_attempt) and its broker (Broker::poll).      *)

\* One pass: a reason to stop comes first (a cancel.json; or, at any time, a
\* timeout, a boundary violation, a full disk, a mailbox over its limits), then
\* the exit of the worker, then the mailbox.
LookStops(t) ==
    /\ SAt(t, "look")
    /\ SGoto(t, "select")
    /\ UNCHANGED <<dirs, mailbox, locks, cur, stop, out, worker, kidProcs, todo, hosts, marked>>

\* A cancellation that comes between the two looks of one pass is as good as one
\* that comes after both.
CloseAdmission(t) ==
    /\ \/ SAt(t, "look") /\ t \notin cancel
       \/ SAt(t, "drain")
    /\ worker[t] = "exited"
    /\ closed' = closed \cup {<<t, att[t]>>}
    /\ SGoto(t, "join")
    /\ UNCHANGED <<rec, att, env, cancel, result, mailbox, locks, cur, stop, out, worker,
                   kidProcs, todo, hosts, marked>>

\* A write outside the worktree that the last events reported is found only after
\* the worker is gone, and before the dispatches are joined.
LateBoundary(t) ==
    /\ SAt(t, "join") /\ t \notin stop
    /\ SGoto(t, "select")
    /\ UNCHANGED <<dirs, mailbox, locks, cur, stop, out, worker, kidProcs, todo, hosts, marked>>

\* Mutated form of Unclaimed: one dispatch too many is let in.
UnclaimedCrowded(t, r) ==
    /\ SAt(t, "look") /\ Cardinality(Pending(t)) <= MaxPending
    /\ req[r] # None /\ req[r].task = t /\ claim[r][att[t]] = "none"

\* The checks come before the mailbox in a pass, and everything may change in
\* between: a request can be consumed whatever is true by then.
Unclaimed(t, r) ==
    /\ SAt(t, "look") /\ Cardinality(Pending(t)) < MaxPending
    /\ req[r] # None /\ req[r].task = t /\ claim[r][att[t]] = "none"

\* Writing the child's prompt or input fails: the claim stays, nothing is
\* dispatched, and the next pass stops the worker as capture_failed.
DispatchFails(t) ==
    /\ SAt(t, "dispatch")
    /\ cur' = [cur EXCEPT ![t] = None]
    /\ SGoto(t, "select")
    /\ UNCHANGED <<dirs, mailbox, locks, stop, out, worker, kidProcs, todo, hosts, marked>>

\* A request that is not bound to this attempt by its capability, or is outside
\* the frozen grant, is claimed and refused.
Refuse(t, r) ==
    /\ Unclaimed(t, r) /\ Cardinality(Claims(t)) < MaxRequests
    /\ claim' = [claim EXCEPT ![r][att[t]] = "refused"]
    /\ UNCHANGED <<dirs, req, locks, sups, kidProcs, todo, hosts, marked>>

\* Mutated form of Claim: the capability is not compared.
ClaimUnbound(t, r) ==
    /\ Unclaimed(t, r) /\ Cardinality(Claims(t)) < MaxRequests
    /\ claim' = [claim EXCEPT ![r][att[t]] = "dispatching"]
    /\ cur' = [cur EXCEPT ![t] = r]
    /\ SGoto(t, "dispatch")
    /\ UNCHANGED <<dirs, req, locks, stop, out, worker, kidProcs, todo, hosts, marked>>

\* "Persist before dispatch; a lost supervisor never replays a claim."
Claim(t, r) ==
    /\ Unclaimed(t, r) /\ Cardinality(Claims(t)) < MaxRequests
    /\ req[r].att = att[t]
    /\ claim' = [claim EXCEPT ![r][att[t]] = "dispatching"]
    /\ cur' = [cur EXCEPT ![t] = r]
    /\ SGoto(t, "dispatch")
    /\ UNCHANGED <<dirs, req, locks, stop, out, worker, kidProcs, todo, hosts, marked>>

\* Start a launcher that will create task c, and a thread that waits for it.
Dispatch(t, c) ==
    /\ SAt(t, "dispatch") /\ lpc[c] = "none"
    /\ env' = [env EXCEPT ![c] = [parent |-> t, patt |-> att[t], req |-> cur[t]]]
    /\ lpc' = [lpc EXCEPT ![c] = "spawned"]
    /\ thr' = [thr EXCEPT ![c] = "waiting"]
    /\ cur' = [cur EXCEPT ![t] = None]
    /\ SGoto(t, "look")
    /\ UNCHANGED <<rec, att, cancel, closed, result, mailbox, locks, stop, out, worker,
                   todo, hosts, marked>>

\* cancel_tree of a supervisor that stops. When it fails, the attempt fails and
\* the guard kills the worker, but no descendant is cancelled.
StopSelect(t) ==
    /\ SAt(t, "select") /\ TreeSelect(t, t)
    /\ SGoto(t, "mark")
    /\ UNCHANGED <<dirs, mailbox, owner, cur, stop, out, worker, kidProcs, hosts, marked>>

StopFails(t) ==
    /\ SAt(t, "select") /\ TreeFails
    /\ SGoto(t, "error")
    /\ worker' = [worker EXCEPT ![t] = "exited"]
    /\ UNCHANGED <<dirs, mailbox, locks, cur, stop, out, kidProcs, todo, hosts, marked>>

StopMark(t, x) ==
    /\ SAt(t, "mark") /\ TreeMark(t, x)
    /\ UNCHANGED <<rec, att, env, result, mailbox, locks, sups, kidProcs, hosts>>

StopMarked(t) ==
    /\ SAt(t, "mark") /\ todo[t] = {}
    /\ admission' = None
    /\ stop' = stop \cup {t}
    /\ SGoto(t, "drain")
    /\ UNCHANGED <<dirs, mailbox, owner, cur, out, worker, kidProcs, todo, hosts, marked>>

\* SIGTERM, and SIGKILL after two seconds.
KillWorker(t) ==
    /\ SAt(t, "drain") /\ worker[t] = "alive"
    /\ worker' = [worker EXCEPT ![t] = "exited"]
    /\ UNCHANGED <<dirs, mailbox, locks, spc, cur, stop, out, kidProcs, todo, hosts, marked>>

-----------------------------------------------------------------------------
(* The end of an attempt: join the dispatches, reconcile the children,     *)
(* publish the result.                                                     *)

\* Mutated form of Join: the dispatch threads are left behind.
JoinNothing(t) ==
    /\ SAt(t, "join")
    /\ SGoto(t, "reconcile")
    /\ UNCHANGED <<dirs, mailbox, locks, cur, stop, out, worker, kidProcs, todo, hosts, marked>>

Join(t) ==
    /\ SAt(t, "join") /\ Pending(t) = {}
    /\ SGoto(t, "reconcile")
    /\ UNCHANGED <<dirs, mailbox, locks, cur, stop, out, worker, kidProcs, todo, hosts, marked>>

\* Every task of the store is read, and the result of every child of this
\* attempt; one that is not there, of a child whose supervisor never created
\* owner.lock, cannot even be called interrupted.
Readable(t) ==
    /\ Parsable
    /\ \A c \in KidsOf(t, att[t]) : Result(c) # None \/ spc[c] \notin {"none", "boot"}

\* A child of this attempt that has not succeeded fails its parent.
Reconcile(t) ==
    /\ SAt(t, "reconcile") /\ Readable(t)
    /\ \E o \in {"succeeded", "failed"} :
          /\ o = "succeeded" => /\ t \notin stop
                                /\ \A c \in KidsOf(t, att[t]) : Result(c) = "succeeded"
          /\ out' = [out EXCEPT ![t] = o]
    /\ SGoto(t, "publish")
    /\ UNCHANGED <<dirs, mailbox, locks, cur, stop, worker, kidProcs, todo, hosts, marked>>

ReconcileFails(t) ==
    /\ SAt(t, "reconcile") /\ ~Readable(t)
    /\ SGoto(t, "error")
    /\ UNCHANGED <<dirs, mailbox, locks, cur, stop, out, worker, kidProcs, todo, hosts, marked>>

\* The supervisor exits after it has published: its threads end with it, the
\* launchers they waited for do not.
Exits(t) ==
    /\ owner' = [owner EXCEPT ![t] = None]
    /\ thr' = [c \in Kids |-> IF c \in Pending(t) THEN "done" ELSE thr[c]]

Publish(t) ==
    /\ SAt(t, "publish")
    /\ result' = [result EXCEPT ![t][att[t]] = out[t]]
    /\ Exits(t)
    /\ SGoto(t, "done")
    /\ UNCHANGED <<rec, att, env, cancel, closed, mailbox, admission, cur, stop, out, worker,
                   lpc, todo, hosts, marked>>

PublishError(t) ==
    /\ SAt(t, "error")
    /\ result' = [result EXCEPT ![t][att[t]] = "error"]
    /\ Exits(t)
    /\ SGoto(t, "done")
    /\ UNCHANGED <<rec, att, env, cancel, closed, mailbox, admission, cur, stop, out, worker,
                   lpc, todo, hosts, marked>>

\* A write, a lock or a read of the supervisor fails: the guard kills the worker,
\* and the dispatches are not joined.
IOFails(t) ==
    /\ Faults /\ spc[t] \in {"owned", "admitted", "look", "mark", "drain", "join", "reconcile"}
    /\ admission' = IF admission = t THEN None ELSE admission
    /\ todo' = [todo EXCEPT ![t] = {}]
    /\ worker' = [worker EXCEPT ![t] = IF @ = "alive" THEN "exited" ELSE @]
    /\ SGoto(t, "error")
    /\ UNCHANGED <<dirs, mailbox, owner, cur, stop, out, kidProcs, hosts, marked>>

\* A supervisor is killed: the kernel releases its locks, its worker and its
\* launchers live on.
SupervisorLost(t) ==
    /\ Faults /\ spc[t] \notin {"none", "boot", "done", "lost"}
    /\ Exits(t)
    /\ admission' = IF admission = t THEN None ELSE admission
    /\ todo' = [todo EXCEPT ![t] = {}]
    /\ cur' = [cur EXCEPT ![t] = None]
    /\ SGoto(t, "lost")
    /\ UNCHANGED <<dirs, mailbox, stop, out, worker, lpc, hosts, marked>>

-----------------------------------------------------------------------------
(* The launcher of a child (headless::launch), in a process group of its   *)
(* own, and the broker's thread that waits for it (bounded_dispatch).      *)

LAt(c, l) == lpc[c] = l
LGoto(c, l) == lpc' = [lpc EXCEPT ![c] = l]
\* Tasks whose headless.json can be read; the others count for nothing.
Active == {t \in Tasks : rec[t] = "full" /\ Result(t) = None}
Recorded == {t \in Tasks : rec[t] = "full"}

Admissible(c) ==
    /\ admission = None /\ ParentOpen(c)
    /\ Cardinality(Recorded) < MaxTree /\ Cardinality(Active) < MaxActive

\* Mutated form of AdmitLaunch: the lock is dropped after the checks.
AdmitLaunchUnheld(c) ==
    /\ LAt(c, "spawned") /\ Admissible(c)
    /\ LGoto(c, "admitted")
    /\ UNCHANGED <<dirs, mailbox, locks, sups, thr, todo, hosts, marked>>

AdmitLaunch(c) ==
    /\ LAt(c, "spawned") /\ Admissible(c)
    /\ admission' = c
    /\ LGoto(c, "admitted")
    /\ UNCHANGED <<dirs, mailbox, owner, sups, thr, todo, hosts, marked>>

LaunchRefused(c) ==
    /\ LAt(c, "spawned") /\ ~Admissible(c)
    /\ LGoto(c, "ended")
    /\ UNCHANGED <<dirs, mailbox, locks, sups, thr, todo, hosts, marked>>

\* Placing the worktree, or writing the record, fails under the lock.
LaunchFails(c) ==
    /\ LAt(c, "admitted") \/ LAt(c, "half")
    /\ admission' = None
    /\ LGoto(c, "ended")
    /\ UNCHANGED <<dirs, mailbox, owner, sups, thr, todo, hosts, marked>>

\* task.json and prompt.txt come first, headless.json completes the record.
SaveTask(c) ==
    /\ LAt(c, "admitted")
    /\ rec' = [rec EXCEPT ![c] = "half"]
    /\ LGoto(c, "half")
    /\ UNCHANGED <<att, env, cancel, closed, result, mailbox, locks, sups, thr, todo, hosts,
                   marked>>

SaveSpec(c) ==
    /\ LAt(c, "half")
    /\ rec' = [rec EXCEPT ![c] = "full"]
    /\ admission' = None
    /\ LGoto(c, "recorded")
    /\ UNCHANGED <<att, env, cancel, closed, result, mailbox, owner, sups, thr, todo, hosts,
                   marked>>

StartKid(c) ==
    /\ LAt(c, "recorded")
    /\ SGoto(c, "boot")
    /\ LGoto(c, "starting")
    /\ UNCHANGED <<dirs, mailbox, locks, cur, stop, out, worker, thr, todo, hosts, marked>>

\* started.json is there, or the supervisor exited, or 15 seconds passed.
Acknowledge(c) ==
    /\ LAt(c, "starting")
    /\ LGoto(c, "ended")
    /\ UNCHANGED <<dirs, mailbox, locks, sups, thr, todo, hosts, marked>>

\* The thread kills the launcher when admission closes, the task is cancelled, or
\* 30 seconds have passed.
KillLauncher(c) ==
    /\ thr[c] = "waiting" /\ Running(c)
    /\ admission' = IF admission = c /\ lpc[c] \in {"admitted", "half"} THEN None ELSE admission
    /\ LGoto(c, "ended")
    /\ UNCHANGED <<dirs, mailbox, owner, sups, thr, todo, hosts, marked>>

\* The response says how the launcher ended; only the worker reads it.
Answer(c) ==
    /\ thr[c] = "waiting" /\ ~Running(c)
    /\ thr' = [thr EXCEPT ![c] = "done"]
    /\ UNCHANGED <<dirs, mailbox, locks, sups, lpc, todo, hosts, marked>>

-----------------------------------------------------------------------------
(* Host commands: an explicit cancellation of any task, and a resume of    *)
(* the root (children cannot be resumed).                                  *)

CancelSelect(t) ==
    /\ hpc = "idle" /\ rec[t] = "full" /\ TreeSelect(Host, t)
    /\ hpc' = "mark"
    /\ UNCHANGED <<dirs, mailbox, owner, sups, kidProcs, rpc, marked>>

CancelFails ==
    /\ hpc = "idle" /\ TreeFails
    /\ hpc' = "failed"
    /\ UNCHANGED <<dirs, mailbox, locks, sups, kidProcs, todo, rpc, marked>>

CancelMark(x) ==
    /\ hpc = "mark" /\ TreeMark(Host, x)
    /\ UNCHANGED <<rec, att, env, result, mailbox, locks, sups, kidProcs, hosts>>

CancelDone ==
    /\ hpc = "mark" /\ todo[Host] = {}
    /\ admission' = None
    /\ hpc' = "done"
    /\ UNCHANGED <<dirs, mailbox, owner, sups, kidProcs, todo, rpc, marked>>

CancelLost ==
    /\ Faults /\ hpc = "mark"
    /\ admission' = None
    /\ todo' = [todo EXCEPT ![Host] = {}]
    /\ hpc' = "lost"
    /\ UNCHANGED <<dirs, mailbox, owner, sups, kidProcs, rpc, marked>>

ResumeBegin ==
    /\ rpc = "idle" /\ owner[Root] = None /\ att[Root] < MaxAttempt
    /\ Result(Root) \in {"succeeded", "failed"}
    /\ owner' = [owner EXCEPT ![Root] = "resume"]
    /\ rpc' = "save"
    /\ UNCHANGED <<dirs, mailbox, admission, sups, kidProcs, todo, hpc, marked>>

ResumeSave ==
    /\ rpc = "save"
    /\ att' = [att EXCEPT ![Root] = @ + 1]
    /\ rpc' = "uncancel"
    /\ UNCHANGED <<rec, env, cancel, closed, result, mailbox, locks, sups, kidProcs, todo,
                   hpc, marked>>

\* cancel.json is removed, owner.lock released, and a supervisor started.
ResumeStart ==
    /\ rpc = "uncancel"
    /\ cancel' = cancel \ {Root}
    /\ owner' = [owner EXCEPT ![Root] = None]
    /\ SGoto(Root, "boot")
    /\ stop' = stop \ {Root}
    /\ out' = [out EXCEPT ![Root] = None]
    /\ worker' = [worker EXCEPT ![Root] = "none"]
    /\ rpc' = "idle"
    /\ UNCHANGED <<rec, att, env, closed, result, mailbox, admission, cur, kidProcs, todo,
                   hpc, marked>>

-----------------------------------------------------------------------------

SupWork(t) ==
    \/ OwnTask(t) \/ AdmitSpawn(t) \/ SpawnRefused(t) \/ Spawn(t)
    \/ CloseAdmission(t) \/ DispatchFails(t)
    \/ \E r \in Reqs : Refuse(t, r) \/ Claim(t, r)
    \/ \E c \in Kids : Dispatch(t, c)
    \/ StopSelect(t) \/ StopFails(t) \/ StopMarked(t) \/ KillWorker(t)
    \/ \E x \in Tasks \X Attempts : StopMark(t, x)
    \/ Join(t) \/ Reconcile(t) \/ ReconcileFails(t)
    \/ Publish(t) \/ PublishError(t)

LauncherWork(c) ==
    \/ AdmitLaunch(c) \/ LaunchRefused(c) \/ SaveTask(c) \/ SaveSpec(c)
    \/ StartKid(c) \/ Acknowledge(c)

ThreadWork(c) == KillLauncher(c) \/ Answer(c)

HostWork ==
    \/ \E t \in Tasks : CancelSelect(t)
    \/ CancelFails \/ CancelDone \/ CancelLost
    \/ \E x \in Tasks \X Attempts : CancelMark(x)
    \/ ResumeBegin \/ ResumeSave \/ ResumeStart

Next ==
    \/ \E t \in Tasks : \/ \E r \in Reqs : Submit(t, r)
                        \/ WorkerExits(t) \/ SupWork(t) \/ LookStops(t)
                        \/ LateBoundary(t) \/ IOFails(t) \/ SupervisorLost(t)
    \/ \E c \in Kids : LauncherWork(c) \/ LaunchFails(c) \/ ThreadWork(c)
    \/ HostWork

Spec == Init /\ [][Next]_vars

\* The loop polls every 50 ms, and stops as soon as it sees a cancel.json; the
\* dispatch threads poll too; a cancellation that has begun goes on.
Fairness ==
    /\ \A t \in Tasks : WF_vars(SupWork(t) \/ (t \in cancel /\ LookStops(t)))
    /\ \A c \in Kids : WF_vars(LauncherWork(c)) /\ WF_vars(ThreadWork(c))
    /\ WF_vars(CancelDone \/ \E x \in Tasks \X Attempts : CancelMark(x))
FairSpec == Spec /\ Fairness

-----------------------------------------------------------------------------
(* Properties.                                                             *)

\* A request starts at most one child, although the mailbox outlives the
\* attempt, supervisors are lost between claim and dispatch, and a resumed root
\* scans old requests again: "a lost supervisor never replays a claim".
DispatchedOnce ==
    /\ \A r \in Reqs, a, b \in Attempts :
          claim[r][a] = "dispatching" /\ claim[r][b] = "dispatching" => a = b
    /\ \A c, d \in Kids : c # d /\ env[c] # None /\ env[d] # None => env[c].req # env[d].req

\* "Failed or unjoined registered children from its current attempt prevent
\* parent success": also those that were being launched when the worker ended.
SuccessMeansJoined ==
    \A t \in Tasks, a \in Attempts : result[t][a] = "succeeded" =>
        \A c \in KidsOf(t, a) : result[c][1] = "succeeded"

Above(c) == <<env[c].parent, env[c].patt>>

\* Once a cancellation has reached an attempt, its worker is not spawned and no
\* child of it is, whoever was being launched and whatever is resumed later.
SubtreeStaysDown ==
    [][\A c \in Kids : worker[c] = "none" /\ worker'[c] = "alive" =>
         <<c, att[c]>> \notin marked /\ Above(c) \notin marked]_vars

\* A supervisor that stopped its worker leaves no descendant that is neither
\* finished nor told to stop: "automatic timeout/capture failure and explicit
\* cancellation stop registered descendants of the current attempt".
StopReaches ==
    \A t \in stop : spc[t] = "done" =>
        \A c \in Selected(t) \ {t} : c \in cancel \/ Result(c) # None

\* A running child that a cancellation reached, or whose parent's attempt it
\* reached, ends and publishes its result: no launcher, lock, thread or child keeps
\* it waiting. The exceptions: somebody was lost, or the parent failed while it was
\* still writing the cancellations of its descendants.
CancelledTreeEnds ==
    \A c \in Kids :
        (worker[c] = "alive" /\ (<<c, att[c]>> \in marked \/ Above(c) \in marked))
            ~> \/ spc[c] = "done"
               \/ hpc = "lost" \/ \E t \in Tasks : spc[t] = "lost"
               \/ /\ env[c] # None /\ <<c, att[c]>> \notin marked
                  /\ result[env[c].parent][env[c].patt] = "error"
=============================================================================
