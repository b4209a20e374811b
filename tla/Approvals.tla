------------------------------ MODULE Approvals ------------------------------
(***************************************************************************)
(* Human approval checkpoints of one task: durable jobs of an MCP server   *)
(* that ask for an approval, operators who decide, the supervisor that     *)
(* ends the attempt, and the resumes that start the next one.              *)
(*                                                                         *)
(* request_for_task, decide and the state changes of the supervisor work   *)
(* under state.lock.  A cancellation and a resume's own writes do not: a   *)
(* resume relies on the approval lease and on owner.lock instead, which it *)
(* drops before its supervisor starts.  Every process may stop between any *)
(* two durable writes.                                                     *)
(***************************************************************************)
EXTENDS Naturals, FiniteSets

CONSTANTS
    Workers,        \* worker threads of MCP servers
    Jobs,           \* durable approval jobs
    Operators,      \* processes that run `ahu approve` or `ahu reject`
    Resumers,       \* processes that run `ahu resume`
    Reqs,           \* request identifiers (fresh nonces in the code)
    MaxAttempt,     \* bound on attempt numbers (the code has none)
    None            \* no process, no job, no file

Attempts == 1..MaxAttempt

ASSUME AttemptBound == MaxAttempt \in Nat \ {0}
ASSUME NoneDistinct == None \notin Workers \cup Jobs \cup Operators \cup Resumers \cup Reqs \cup Attempts
ASSUME ProcessesDistinct ==
    /\ Workers \cap Operators = {} /\ Workers \cap Resumers = {} /\ Operators \cap Resumers = {}
    /\ "supervisor" \notin Workers \cup Operators \cup Resumers

Responses == [id : Reqs, decision : {"approve", "reject"}]
Journals == [old : Attempts, next : Attempts]
Processes == Workers \cup Operators \cup Resumers \cup {"supervisor"}

ASSUME NoResponse == None \notin Responses \cup Journals \cup Processes

VARIABLES
    \* the task directory
    state,      \* the state recorded in task.json
    attempt,    \* the attempt in headless.json
    cancel,     \* does cancel.json exist?
    req,        \* the request in approval-request.json, or None
    resp,       \* approval-response.json, or None
    journal,    \* resume-journal.json, or None
    intent,     \* attempts with spawn-intent.json
    over,       \* attempts with a terminal result.json
    \* locks, released by the kernel when their holder ends
    slock,      \* holder of state.lock
    owner,      \* holder of owner.lock: a supervisor or a resume
    lease,      \* holder of approval.worker
    running,    \* holder of each job's execution lease
    \* jobs
    status,     \* the job's stored status
    ctx,        \* the attempt frozen when the job was created
    called_off, \* jobs with a cancellation file
    \* processes
    wpc,        \* where a worker is
    wjob,       \* the job it works on
    wreq,       \* the request it published
    wout,       \* how its request ends
    late,       \* workers whose deadline has passed
    opc,        \* where an operator is
    rpc,        \* where a resume is
    rold,       \* the attempt it found, and would restore
    rnew,       \* the attempt it prepared
    \* history
    asked,      \* requests ever published
    decisions,  \* every decision written for a request
    grants,     \* how often a request was answered by an approval
    rejected,   \* attempts with a completed rejection
    overtaken   \* has a rollback taken back an attempt that was spawned, with no
                \* resume since that cleared the checkpoint?

task == <<state, attempt, cancel, journal, intent, over>>
checkpoint == <<req, resp>>
jobs == <<running, status, ctx, called_off>>
worker == <<wpc, wjob, wreq, wout, late>>
history == <<asked, decisions, grants, rejected>>
resumes == <<owner, rpc, rold, rnew, overtaken>>
vars == <<task, checkpoint, slock, lease, jobs, worker, opc, resumes, history>>

Live(s) == s # "ended"

\* The first attempt's worker has just been spawned.
Init ==
    /\ state = "starting" /\ attempt = 1 /\ cancel = FALSE
    /\ req = None /\ resp = None /\ journal = None /\ intent = {1} /\ over = {}
    /\ slock = None /\ lease = None /\ owner = "supervisor"
    /\ running = [j \in Jobs |-> None]
    /\ status = [j \in Jobs |-> "absent"]
    /\ ctx = [j \in Jobs |-> None] /\ called_off = {}
    /\ wpc = [w \in Workers |-> "idle"] /\ wjob = [w \in Workers |-> None]
    /\ wreq = [w \in Workers |-> None] /\ wout = [w \in Workers |-> "none"]
    /\ late = {}
    /\ opc = [o \in Operators |-> "idle"] /\ rpc = [p \in Resumers |-> "idle"]
    /\ rold = [p \in Resumers |-> None] /\ rnew = [p \in Resumers |-> None] /\ overtaken = FALSE
    /\ asked = {} /\ decisions = [r \in Reqs |-> {}]
    /\ grants = [r \in Reqs |-> 0] /\ rejected = {}

-----------------------------------------------------------------------------
(* Jobs: created, cancelled by their client, taken and published by workers. *)

\* tools/call freezes the attempt that asks.
CreateJob(j) ==
    /\ status[j] = "absent"
    /\ status' = [status EXCEPT ![j] = "working"]
    /\ ctx' = [ctx EXCEPT ![j] = attempt]
    /\ UNCHANGED <<task, checkpoint, slock, lease, running, called_off, worker, opc, resumes, history>>

\* tasks/cancel writes the cancellation file, then the status; it may fail between.
CancelJob(j) ==
    /\ status[j] = "working"
    /\ called_off' = called_off \cup {j}
    /\ status' \in {status, [status EXCEPT ![j] = "cancelled"]}
    /\ UNCHANGED <<task, checkpoint, slock, lease, running, ctx, worker, opc, resumes, history>>

\* A worker takes a job nobody executes; it may be one that a lost worker began.
TakeJob(w, j) ==
    /\ wpc[w] = "idle" /\ status[j] = "working" /\ running[j] = None
    /\ running' = [running EXCEPT ![j] = w]
    /\ wjob' = [wjob EXCEPT ![w] = j]
    /\ wpc' = [wpc EXCEPT ![w] = "lease"]
    /\ UNCHANGED <<task, checkpoint, slock, lease, status, ctx, called_off, wreq, wout, late, opc, resumes,
                   history>>

\* The worker forgets its request and job and looks for another.
Idle(w) ==
    /\ wpc' = [wpc EXCEPT ![w] = "idle"]
    /\ wjob' = [wjob EXCEPT ![w] = None]
    /\ wreq' = [wreq EXCEPT ![w] = None]
    /\ wout' = [wout EXCEPT ![w] = "none"]
    /\ late' = late \ {w}

\* A mutated form of PublishJob: the stored job is not read again.
PublishStale(w) ==
    /\ wpc[w] = "publish"
    /\ status' = [status EXCEPT ![wjob[w]] = IF wout[w] = "approved" THEN "completed" ELSE "failed"]
    /\ running' = [running EXCEPT ![wjob[w]] = None]
    /\ Idle(w)
    /\ UNCHANGED <<task, checkpoint, slock, lease, ctx, called_off, opc, resumes, history>>

\* The outcome is stored unless the job was cancelled meanwhile.
PublishJob(w) ==
    /\ wpc[w] = "publish"
    /\ status' = [status EXCEPT ![wjob[w]] = IF @ # "working" THEN @
                                             ELSE IF wout[w] = "approved" THEN "completed" ELSE "failed"]
    /\ running' = [running EXCEPT ![wjob[w]] = None]
    /\ Idle(w)
    /\ UNCHANGED <<task, checkpoint, slock, lease, ctx, called_off, opc, resumes, history>>

-----------------------------------------------------------------------------
(* request_for_task.                                                       *)

WGoto(w, step) == wpc' = [wpc EXCEPT ![w] = step]
Release(lock, p) == IF lock = p THEN None ELSE lock

\* The function returns: both locks are dropped.
Returns(w, out) ==
    /\ WGoto(w, "publish")
    /\ wout' = [wout EXCEPT ![w] = out]
    /\ lease' = Release(lease, w) /\ slock' = Release(slock, w)

\* "another approval request is already pending", or an error.
LeaseRefused(w) ==
    /\ wpc[w] = "lease" /\ Returns(w, "error")
    /\ UNCHANGED <<task, checkpoint, jobs, wjob, wreq, late, opc, resumes, history>>

TakeLease(w) ==
    /\ wpc[w] = "lease" /\ lease = None
    /\ lease' = w
    /\ WGoto(w, "admit")
    /\ UNCHANGED <<task, checkpoint, slock, jobs, wjob, wreq, wout, late, opc, resumes, history>>

\* Anything that refuses the request, a busy state.lock included.
AdmitRefused(w) ==
    /\ wpc[w] = "admit" /\ Returns(w, "error")
    /\ UNCHANGED <<task, checkpoint, jobs, wjob, wreq, late, opc, resumes, history>>

\* Under state.lock: the request belongs to the current, running attempt, and no
\* checkpoint is left over; publish it.
Admit(w) ==
    /\ wpc[w] = "admit" /\ slock = None
    /\ attempt = ctx[wjob[w]] /\ state = "running" /\ ~cancel
    /\ req = None /\ resp = None
    /\ slock' = w
    /\ \E r \in Reqs \ asked :
          /\ req' = r /\ wreq' = [wreq EXCEPT ![w] = r]
          /\ asked' = asked \cup {r}
    /\ WGoto(w, "set_waiting")
    /\ UNCHANGED <<task, resp, lease, jobs, wjob, wout, late, opc, resumes, decisions, grants, rejected>>

SetWaiting(w) ==
    /\ wpc[w] = "set_waiting"
    /\ \/ /\ state' = "waiting" /\ slock' = None /\ WGoto(w, "poll")
          /\ UNCHANGED <<req, lease, wout>>
       \/ req' = None /\ UNCHANGED state /\ Returns(w, "error")
    /\ UNCHANGED <<attempt, cancel, journal, intent, over, resp, jobs, wjob, wreq, late, opc, resumes, history>>

\* One pass of the loop starts under state.lock with the attempt and cancel.json.
Poll(w) ==
    /\ wpc[w] = "poll" /\ slock = None
    /\ attempt = ctx[wjob[w]] /\ Live(state) /\ ~cancel
    /\ slock' = w /\ WGoto(w, "look")
    /\ UNCHANGED <<task, checkpoint, lease, jobs, wjob, wreq, wout, late, opc, resumes, history>>

\* A pass ends the wait, and drops state.lock.
EndsWait(w, out) ==
    /\ WGoto(w, "retire")
    /\ wout' = [wout EXCEPT ![w] = out]
    /\ slock' = Release(slock, w)

\* The task stopped or was cancelled, state.lock is busy, or a write fails.
WaitFails(w) ==
    /\ wpc[w] \in {"poll", "look", "expire"}
    /\ wpc[w] = "poll" => attempt # ctx[wjob[w]] \/ ~Live(state) \/ cancel \/ slock # None
    /\ EndsWait(w, "error")
    /\ UNCHANGED <<task, checkpoint, lease, jobs, wjob, wreq, late, opc, resumes, history>>

\* The client's cancellation comes before the operator's decision.
WaitCalledOff(w) ==
    /\ wpc[w] = "look" /\ wjob[w] \in called_off
    /\ state' = "running" /\ EndsWait(w, "error")
    /\ UNCHANGED <<attempt, cancel, journal, intent, over, checkpoint, lease, jobs, wjob, wreq, late, opc, resumes,
                   history>>

\* A mutated form of Consume: the response is not matched with the request, and
\* its decision is not read.
ConsumeAny(w) ==
    /\ wpc[w] = "look" /\ wjob[w] \notin called_off /\ resp # None
    /\ state' = "running" /\ EndsWait(w, "approved")
    /\ UNCHANGED <<attempt, cancel, journal, intent, over, checkpoint, lease, jobs, wjob, wreq, late, opc, resumes,
                   history>>

\* The decision of this request is there.
Consume(w) ==
    /\ wpc[w] = "look" /\ wjob[w] \notin called_off /\ resp # None
    /\ \/ /\ resp = [id |-> wreq[w], decision |-> "approve"]
          /\ state' = "running" /\ EndsWait(w, "approved")
       \/ /\ resp = [id |-> wreq[w], decision |-> "reject"]
          /\ EndsWait(w, "rejected") /\ UNCHANGED state
    /\ UNCHANGED <<attempt, cancel, journal, intent, over, checkpoint, lease, jobs, wjob, wreq, late, opc, resumes,
                   history>>

\* A mutated form of Sleep: the deadline is not looked at.
SleepOn(w) ==
    /\ wpc[w] = "look" /\ wjob[w] \notin called_off /\ resp = None
    /\ slock' = None /\ WGoto(w, "poll")
    /\ UNCHANGED <<task, checkpoint, lease, jobs, wjob, wreq, wout, late, opc, resumes, history>>

\* No decision yet: sleep.
Sleep(w) ==
    /\ wpc[w] = "look" /\ wjob[w] \notin called_off /\ resp = None
    /\ w \notin late
    /\ slock' = None /\ WGoto(w, "poll")
    /\ UNCHANGED <<task, checkpoint, lease, jobs, wjob, wreq, wout, late, opc, resumes, history>>

\* Thirty minutes have passed since the request was published.
DeadlinePasses(w) ==
    /\ wpc[w] \in {"poll", "look"} /\ w \notin late
    /\ late' = late \cup {w}
    /\ UNCHANGED <<task, checkpoint, slock, lease, jobs, wpc, wjob, wreq, wout, opc, resumes, history>>

\* A decision may be written: the request waits and nothing has resolved it.
Undecided == req # None /\ resp = None /\ state = "waiting" /\ ~cancel

\* The response that decides the request.
Decision(d) ==
    /\ resp' = [id |-> req, decision |-> d]
    /\ decisions' = [decisions EXCEPT ![req] = @ \cup {d}]

\* The worker itself rejects a request that is overdue: first the response ...
Expire(w) ==
    /\ wpc[w] = "look" /\ wjob[w] \notin called_off /\ w \in late
    /\ Undecided /\ Decision("reject")
    /\ WGoto(w, "expire")
    /\ UNCHANGED <<task, req, slock, lease, jobs, wjob, wreq, wout, late, opc, resumes,
                   asked, grants, rejected>>

\* ... then cancel.json.
ExpireCancel(w) ==
    /\ wpc[w] = "expire"
    /\ cancel' = TRUE /\ rejected' = rejected \cup {attempt}
    /\ EndsWait(w, "error")
    /\ UNCHANGED <<state, attempt, journal, intent, over, checkpoint, lease, jobs, wjob, wreq, late,
                   opc, resumes, asked, decisions, grants>>

\* retire_checkpoint: nothing is removed unless all that is there belongs to r.
Mine(r) == req \in {r, None} /\ (resp # None => resp.id = r)

Retires(w) ==
    /\ Returns(w, wout[w])
    /\ grants' = IF wout[w] = "approved" THEN [grants EXCEPT ![wreq[w]] = @ + 1] ELSE grants

\* A mutated form of Retire: the request is removed before its response.
RetireBackwards(w) ==
    /\ wpc[w] = "retire" /\ slock = None /\ Mine(wreq[w])
    /\ req' = None
    /\ IF resp = None
       THEN Retires(w) /\ UNCHANGED resp
       ELSE /\ slock' = w /\ WGoto(w, "retire_request")
            /\ UNCHANGED <<resp, lease, wout, grants>>
    /\ UNCHANGED <<task, jobs, wjob, wreq, late, opc, resumes, asked, decisions, rejected>>

\* Under state.lock the response is removed, then the request: a request left
\* behind can still be attributed.
Retire(w) ==
    /\ wpc[w] = "retire" /\ slock = None /\ Mine(wreq[w])
    /\ IF resp = None
       THEN req' = None /\ Retires(w) /\ UNCHANGED resp
       ELSE /\ resp' = None /\ slock' = w /\ WGoto(w, "retire_request")
            /\ UNCHANGED <<req, lease, wout, grants>>
    /\ UNCHANGED <<task, jobs, wjob, wreq, late, opc, resumes, asked, decisions, rejected>>

RetireRequest(w) ==
    /\ wpc[w] = "retire_request"
    /\ req' = None /\ Retires(w)
    /\ UNCHANGED <<task, resp, jobs, wjob, wreq, late, opc, resumes, asked, decisions, rejected>>

\* state.lock is busy, something is not ours, or a removal fails: no answer.
RetireFails(w) ==
    /\ wpc[w] \in {"retire", "retire_request"} /\ Returns(w, "error")
    /\ UNCHANGED <<task, checkpoint, jobs, wjob, wreq, late, opc, resumes, history>>

\* The worker's process is lost; its job stays "working" and is taken again.
WorkerLost(w) ==
    /\ wpc[w] # "idle"
    /\ running' = [running EXCEPT ![wjob[w]] = None]
    /\ Idle(w)
    /\ lease' = Release(lease, w) /\ slock' = Release(slock, w)
    /\ UNCHANGED <<task, checkpoint, status, ctx, called_off, opc, resumes, history>>

WorkerWork(w) ==
    \/ \E j \in Jobs : TakeJob(w, j)
    \/ LeaseRefused(w) \/ TakeLease(w) \/ AdmitRefused(w) \/ Admit(w) \/ SetWaiting(w)
    \/ Poll(w) \/ WaitFails(w) \/ WaitCalledOff(w) \/ Consume(w) \/ Sleep(w)
    \/ Expire(w) \/ ExpireCancel(w) \/ Retire(w) \/ RetireRequest(w) \/ RetireFails(w)
    \/ PublishJob(w)

-----------------------------------------------------------------------------
(* Operators: decide, under state.lock.                                    *)

\* A mutated form of Decide: the task's state is not looked at.
DecideLate(o, d) ==
    /\ opc[o] = "idle" /\ slock = None
    /\ req # None /\ resp = None /\ ~cancel /\ Decision(d)
    /\ slock' = o
    /\ opc' = [opc EXCEPT ![o] = d]
    /\ UNCHANGED <<task, req, lease, jobs, worker, resumes, asked, grants, rejected>>

\* The response is published first ...
Decide(o, d) ==
    /\ opc[o] = "idle" /\ slock = None
    /\ Undecided /\ Decision(d)
    /\ slock' = o
    /\ opc' = [opc EXCEPT ![o] = d]
    /\ UNCHANGED <<task, req, lease, jobs, worker, resumes, asked, grants, rejected>>

\* A mutated form of Decided: a rejection only answers the request.
DecidedQuietly(o) ==
    /\ \/ opc[o] = "approve" /\ state' = "running" /\ UNCHANGED rejected
       \/ opc[o] = "reject" /\ rejected' = rejected \cup {attempt} /\ UNCHANGED state
    /\ slock' = None
    /\ opc' = [opc EXCEPT ![o] = "idle"]
    /\ UNCHANGED <<attempt, cancel, journal, intent, over, checkpoint, lease, jobs, worker, resumes,
                   asked, decisions, grants>>

\* ... and then what it means for the task.
Decided(o) ==
    /\ \/ opc[o] = "approve" /\ state' = "running" /\ UNCHANGED <<cancel, rejected>>
       \/ opc[o] = "reject" /\ cancel' = TRUE /\ rejected' = rejected \cup {attempt}
          /\ UNCHANGED state
    /\ slock' = None
    /\ opc' = [opc EXCEPT ![o] = "idle"]
    /\ UNCHANGED <<attempt, journal, intent, over, checkpoint, lease, jobs, worker, resumes,
                   asked, decisions, grants>>

\* The second write fails, or the operator's process is lost before it.
DecideFails(o) ==
    /\ opc[o] # "idle"
    /\ slock' = None
    /\ opc' = [opc EXCEPT ![o] = "idle"]
    /\ UNCHANGED <<task, checkpoint, lease, jobs, worker, resumes, history>>

-----------------------------------------------------------------------------
(* The rest of the task: cancellation takes no lock here, the supervisor   *)
(* records states under state.lock.                                        *)

Cancel ==
    /\ ~cancel /\ cancel' = TRUE
    /\ UNCHANGED <<state, attempt, journal, intent, over, checkpoint, slock, lease, jobs, worker, opc, resumes,
                   history>>

\* A supervisor of the current attempt, however long ago it was started: it takes
\* owner.lock and finds that the attempt has no result and has not been acknowledged.
SupOwn ==
    /\ owner = None /\ attempt \notin over
    /\ attempt \in intent => state = "starting"
    /\ owner' = "supervisor"
    /\ UNCHANGED <<task, checkpoint, slock, lease, jobs, worker, opc, rpc, rold, rnew, overtaken, history>>

Spawn ==
    /\ owner = "supervisor" /\ attempt \notin intent /\ state = "starting" /\ ~cancel
    /\ intent' = intent \cup {attempt}
    /\ UNCHANGED <<state, attempt, cancel, journal, over, checkpoint, slock, lease, jobs, worker, opc,
                   resumes, history>>

SetRunning ==
    /\ owner = "supervisor" /\ slock = None /\ attempt \in intent \ over
    /\ state = "starting"
    /\ state' = "running"
    /\ UNCHANGED <<attempt, cancel, journal, intent, over, checkpoint, slock, lease, jobs, worker, opc,
                   resumes, history>>

\* The result and the record's last state, also of an attempt that was refused a worker.
EndAttempt ==
    /\ owner = "supervisor" /\ slock = None
    /\ state' = "ended" /\ over' = over \cup {attempt} /\ owner' = None
    /\ UNCHANGED <<attempt, cancel, journal, intent, checkpoint, slock, lease, jobs, worker, opc,
                   rpc, rold, rnew, overtaken, history>>

\* The supervisor's process is lost, or it gives up before it has written anything.
SupLost ==
    /\ owner = "supervisor" /\ owner' = None
    /\ UNCHANGED <<task, checkpoint, slock, lease, jobs, worker, opc, rpc, rold, rnew, overtaken, history>>

-----------------------------------------------------------------------------
(* resume: under owner.lock until the next attempt is prepared, then        *)
(* without any lock until it knows whether that attempt started.           *)

RGoto(p, step) == rpc' = [rpc EXCEPT ![p] = step]

\* It returns or is lost: its locks are dropped.
ResumeEnds(p) ==
    /\ RGoto(p, "idle")
    /\ rold' = [rold EXCEPT ![p] = None] /\ rnew' = [rnew EXCEPT ![p] = None]
    /\ owner' = Release(owner, p) /\ lease' = Release(lease, p) /\ slock' = Release(slock, p)

\* Metadata of a resume that never spawned a worker is restored first.
ResumeBegin(p) ==
    /\ rpc[p] = "idle" /\ owner = None
    /\ owner' = p
    /\ IF journal # None /\ journal.next \notin intent
       THEN RGoto(p, "recover_state") /\ rold' = [rold EXCEPT ![p] = journal.old] /\ UNCHANGED journal
       ELSE RGoto(p, "lease") /\ journal' = None /\ UNCHANGED rold
    /\ UNCHANGED <<state, attempt, cancel, intent, over, checkpoint, slock, lease, jobs, worker, opc, rnew,
                   overtaken, history>>

\* recover_resume.  It fails if the journal is gone by then: a resume that finished
\* late removes whatever journal it finds.
Recover(p) ==
    /\ \/ /\ rpc[p] = "recover_state" /\ RGoto(p, "recover_attempt")
          /\ state' = "ended"
          /\ UNCHANGED <<attempt, journal, slock, lease, owner, rold, rnew>>
       \/ /\ rpc[p] = "recover_attempt"
          /\ attempt' = rold[p] /\ journal' = None
          /\ IF journal = None THEN ResumeEnds(p)
             ELSE RGoto(p, "lease") /\ UNCHANGED <<slock, lease, owner, rold, rnew>>
          /\ UNCHANGED state
    /\ UNCHANGED <<cancel, intent, over, checkpoint, jobs, worker, opc, overtaken, history>>

\* A mutated form of ResumeLease: the workers' lease is not taken.
ResumeUnleased(p) ==
    /\ rpc[p] = "lease" /\ attempt \in over \cap intent
    /\ RGoto(p, "retire") /\ rold' = [rold EXCEPT ![p] = attempt]
    /\ UNCHANGED <<task, checkpoint, slock, lease, jobs, worker, opc, owner, rnew, overtaken, history>>

\* retire_for_resume, for an attempt that ran and has a result: the approval lease,
\* held until the next attempt is prepared.
ResumeLease(p) ==
    /\ rpc[p] = "lease" /\ attempt \in over \cap intent /\ lease = None
    /\ lease' = p
    /\ RGoto(p, "retire") /\ rold' = [rold EXCEPT ![p] = attempt]
    /\ UNCHANGED <<task, checkpoint, slock, jobs, worker, opc, owner, rnew, overtaken, history>>

\* Under state.lock, an abandoned checkpoint is removed, whatever was decided.
ResumeRetire(p) ==
    /\ rpc[p] = "retire" /\ slock = None /\ ~Live(state) /\ Mine(req)
    /\ IF resp = None
       THEN req' = None /\ RGoto(p, "journal") /\ overtaken' = FALSE /\ UNCHANGED <<resp, slock>>
       ELSE resp' = None /\ RGoto(p, "retire_request") /\ slock' = p /\ UNCHANGED <<req, overtaken>>
    /\ UNCHANGED <<task, lease, jobs, worker, opc, owner, rold, rnew, history>>

ResumeRetireRequest(p) ==
    /\ rpc[p] = "retire_request" /\ RGoto(p, "journal")
    /\ req' = None /\ slock' = None /\ overtaken' = FALSE
    /\ UNCHANGED <<task, resp, lease, jobs, worker, opc, owner, rold, rnew, history>>

\* The next attempt takes a number that no worker was spawned for.
ResumeJournal(p) ==
    /\ rpc[p] = "journal" /\ RGoto(p, "save_task")
    /\ \E a \in Attempts \ intent :
          a > attempt /\ rnew' = [rnew EXCEPT ![p] = a] /\ journal' = [old |-> rold[p], next |-> a]
    /\ UNCHANGED <<state, attempt, cancel, intent, over, checkpoint, slock, lease, jobs, worker, opc, owner,
                   rold, overtaken, history>>

\* task.json, headless.json and cancel.json are written without state.lock; then both
\* the lease and owner.lock are dropped.
ResumeSave(p) ==
    /\ \/ /\ rpc[p] = "save_task" /\ RGoto(p, "save_attempt")
          /\ state' = "starting" /\ UNCHANGED <<attempt, cancel, lease, owner>>
       \/ /\ rpc[p] = "save_attempt" /\ RGoto(p, "uncancel")
          /\ attempt' = rnew[p] /\ UNCHANGED <<state, cancel, lease, owner>>
       \/ /\ rpc[p] = "uncancel" /\ RGoto(p, "start")
          /\ cancel' = FALSE /\ lease' = None /\ owner' = None /\ UNCHANGED <<state, attempt>>
    /\ UNCHANGED <<journal, intent, over, checkpoint, slock, jobs, worker, opc, rold, rnew, overtaken, history>>

\* A write of the new metadata fails: it is taken back at once, under owner.lock.
SaveFails(p) ==
    /\ rpc[p] \in {"save_task", "save_attempt"} /\ RGoto(p, "undo_state")
    /\ UNCHANGED <<task, checkpoint, slock, lease, jobs, worker, opc, owner, rold, rnew, overtaken, history>>

\* The supervisor cannot be started, exits or is not heard of in time, and the worker
\* was not spawned when the resume looks.
StartFails(p) ==
    /\ rpc[p] = "start" /\ rnew[p] \notin intent /\ RGoto(p, "undo_lock")
    /\ UNCHANGED <<task, checkpoint, slock, lease, jobs, worker, opc, owner, rold, rnew, overtaken, history>>

\* Only then does it try owner.lock, and it does not look again.
UndoLock(p) ==
    /\ rpc[p] = "undo_lock"
    /\ IF owner = None
       THEN owner' = p /\ RGoto(p, "undo_state") /\ UNCHANGED <<slock, lease, rold, rnew>>
       ELSE ResumeEnds(p)
    /\ UNCHANGED <<task, checkpoint, jobs, worker, opc, overtaken, history>>

\* The metadata the resume remembers is put back, without state.lock, and the journal
\* stays.  A supervisor may have spawned the attempt and be gone since StartFails.
Undo(p) ==
    /\ \/ /\ rpc[p] = "undo_state" /\ RGoto(p, "undo_attempt")
          /\ state' = "ended"
          /\ IF attempt \in intent \ {rold[p]} THEN overtaken' = TRUE ELSE UNCHANGED overtaken
          /\ UNCHANGED <<attempt, slock, lease, owner, rold, rnew>>
       \/ /\ rpc[p] = "undo_attempt" /\ ResumeEnds(p)
          /\ attempt' = rold[p] /\ UNCHANGED <<state, overtaken>>
    /\ UNCHANGED <<cancel, journal, intent, over, checkpoint, jobs, worker, opc, history>>

\* The attempt started: the journal is removed, without a lock, whoever wrote it.
ResumeAcknowledged(p) ==
    /\ rpc[p] = "start" /\ rnew[p] \in intent
    /\ journal' = None /\ ResumeEnds(p)
    /\ UNCHANGED <<state, attempt, cancel, intent, over, checkpoint, jobs, worker, opc, overtaken, history>>

\* The resume is refused, fails or is lost: what it wrote stays.
ResumeStops(p) ==
    /\ rpc[p] # "idle" /\ ResumeEnds(p)
    /\ UNCHANGED <<task, checkpoint, jobs, worker, opc, overtaken, history>>

Resume(p) ==
    \/ ResumeBegin(p) \/ Recover(p) \/ ResumeLease(p) \/ ResumeRetire(p) \/ ResumeRetireRequest(p)
    \/ ResumeJournal(p) \/ ResumeSave(p) \/ SaveFails(p) \/ StartFails(p) \/ UndoLock(p) \/ Undo(p)
    \/ ResumeAcknowledged(p) \/ ResumeStops(p)

Next ==
    \/ \E j \in Jobs : CreateJob(j) \/ CancelJob(j)
    \/ \E w \in Workers : WorkerWork(w) \/ DeadlinePasses(w) \/ WorkerLost(w)
    \/ \E o \in Operators : Decided(o) \/ DecideFails(o) \/ \E d \in {"approve", "reject"} : Decide(o, d)
    \/ Cancel \/ SupOwn \/ Spawn \/ SetRunning \/ EndAttempt \/ SupLost
    \/ \E p \in Resumers : Resume(p)

Spec == Init /\ [][Next]_vars

\* A worker that is not lost keeps polling every 100 ms, and time passes.
FairSpec == Spec /\ \A w \in Workers : WF_vars(WorkerWork(w)) /\ WF_vars(DeadlinePasses(w))

-----------------------------------------------------------------------------
(* Properties.                                                             *)

\* A request is answered with an approval at most once, and only if that very
\* request was approved and never rejected, whoever races, dies or retries:
\* "a new request must never steal an approved response from an existing waiter",
\* "never silently replay an operation after a server crash".
ApprovedOnce ==
    \A r \in Reqs : grants[r] <= 1 /\ (grants[r] = 1 => decisions[r] = {"approve"})

\* A response never outlives its request: otherwise retire_for_resume refuses
\* the task for ever ("approval response has no attributable request").
Attributable == resp # None => req = resp.id

\* An approval is answered while the attempt that asked for it is current, even
\* though the task may be resumed as soon as it has ended; unless a rollback has
\* taken that attempt back (overtaken).
CurrentAttempt ==
    [][\A w \in Workers : wreq[w] # None /\ grants'[wreq[w]] > grants[wreq[w]]
                              => attempt = ctx[wjob[w]] \/ overtaken]_vars

\* Once an operator or the deadline rejected a request, nothing asked later in
\* the same attempt is approved; unless a rollback put a rejected attempt back under a
\* wait of the next one (overtaken).
RejectionStands ==
    [][\A w \in Workers : wout[w] # "approved" /\ wout'[w] = "approved"
                              => attempt \notin rejected \/ overtaken]_vars

\* A late decision, a client's cancellation or a finishing wait never brings an
\* ended task back to life: only a resume does.  The exception is a decision or a wait
\* under which a rollback has ended the task (overtaken): it was not asked, and nobody
\* who records a state looks again at what is recorded.
OnlyResumeRevives ==
    [][~Live(state) /\ Live(state') => overtaken \/ \E p \in Resumers : rpc[p] = "save_task"]_vars

\* "cancellation can win while inspection runs": a job its client saw cancelled
\* is never completed by the worker that was executing it.
CancellationWins == [][\A j \in Jobs : status[j] = "cancelled" => status'[j] = "cancelled"]_vars

\* Where a request is, from what was ever decided of it and answered.
Phase(r) ==
    IF r \notin asked THEN "new"
    ELSE IF grants[r] > 0 THEN (IF grants[r] = 1 THEN "granted" ELSE "granted again")
    ELSE IF decisions[r] = {} THEN "asked"
    ELSE IF decisions[r] = {"approve"} THEN "approved"
    ELSE "rejected"

Approval == INSTANCE ApprovalPromise WITH
    phase <- [r \in Reqs |-> Phase(r)],
    open <- req,
    turn <- attempt,
    barred <- rejected,
    overtaken <- overtaken

\* Workers, operators, the deadline, supervisors and resumes keep the promise of
\* an approval between them: one request open at a time, granted once and only
\* approved, and no attempt but its own has its turn while it is open, although
\* the state lock is dropped between an approval and its consumption; until a rollback
\* takes back an attempt that was spawned, and again once a resume has cleared up.
ApprovalKept == Approval!PSpec

\* Nobody waits for ever, whatever operators do.
WaitEnds == \A w \in Workers : wpc[w] = "poll" ~> wpc[w] = "idle"
=============================================================================
