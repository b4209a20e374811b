---------------------------- MODULE ApprovalsProofs ----------------------------
(***************************************************************************)
(* Theorems about Approvals, for every number of workers, operators,       *)
(* requests and attempts.  The argument: the approval lease makes one      *)
(* request at a time somebody's own, state.lock makes every change of a    *)
(* checkpoint one step of its holder, and request identifiers are fresh.   *)
(***************************************************************************)
EXTENDS Approvals, TLAPS

\* A worker that holds the approval lease, that has published its request, and
\* that is inside state.lock.
Leasing == {"admit", "set_waiting", "poll", "look", "expire", "retire", "retire_request"}
Asking == Leasing \ {"admit"}
Inside == {"set_waiting", "look", "expire", "retire_request"}
\* The same for a resume that holds the lease, and one that holds owner.lock.
ResumeLeasing == {"retire", "retire_request", "journal", "save_task", "save_attempt", "uncancel"}
Owning == ResumeLeasing \cup {"recover_state", "recover_attempt", "lease", "undo_state", "undo_attempt"}

WorkerSteps == {"idle", "lease", "admit", "set_waiting", "poll", "look", "expire", "retire",
                "retire_request", "publish"}
ResumeSteps == {"idle", "recover_state", "recover_attempt", "lease", "retire", "retire_request",
                "journal", "save_task", "save_attempt", "uncancel", "start",
                "undo_lock", "undo_state", "undo_attempt"}

\* The types the argument needs.
Typed ==
    /\ req \in Reqs \cup {None} /\ resp \in Responses \cup {None}
    /\ wpc \in [Workers -> WorkerSteps] /\ wreq \in [Workers -> Reqs \cup {None}]
    /\ wout \in [Workers -> {"none", "approved", "rejected", "error"}]
    /\ opc \in [Operators -> {"idle", "approve", "reject"}] 
    /\ rpc \in [Resumers -> ResumeSteps]
    /\ asked \subseteq Reqs
    /\ decisions \in [Reqs -> SUBSET {"approve", "reject"}]
    /\ grants \in [Reqs -> Nat]

Leased ==
    /\ \A w \in Workers : wpc[w] \in Leasing => lease = w
    /\ \A p \in Resumers : rpc[p] \in ResumeLeasing => lease = p

Locked ==
    /\ \A w \in Workers : wpc[w] \in Inside => slock = w
    /\ \A o \in Operators : opc[o] # "idle" => slock = o
    /\ \A p \in Resumers : rpc[p] = "retire_request" => slock = p

\* Nothing is decided while a request is being published or removed.
Unanswered ==
    /\ \A w \in Workers : wpc[w] \in {"set_waiting", "retire_request"} => resp = None
    /\ \A p \in Resumers : rpc[p] = "retire_request" => resp = None

\* The request of the worker that asks is the one on disk, and what was decided
\* of it is what the response says.
Own ==
    \A w \in Workers : wpc[w] \in Asking =>
        /\ req = wreq[w] /\ req # None /\ grants[req] = 0
        /\ resp # None => decisions[req] = {resp.decision}
        /\ resp = None /\ wpc[w] # "retire_request" => decisions[req] = {}

\* An approval that was consumed has been given, and no other decision.
Consumed ==
    \A w \in Workers : wout[w] = "approved" =>
        /\ wpc[w] = "retire" => resp # None /\ resp.decision = "approve"
        /\ wpc[w] = "retire_request" => decisions[wreq[w]] = {"approve"}

\* An answered request has left the disk, and is never asked again.
Past ==
    /\ req # None => req \in asked
    /\ \A r \in Reqs :
          /\ r \notin asked => decisions[r] = {} /\ grants[r] = 0
          /\ grants[r] # 0 => grants[r] = 1 /\ decisions[r] = {"approve"} /\ req # r

AInv == Typed /\ Leased /\ Locked /\ Unanswered /\ Attributable /\ Own /\ Consumed /\ Past

-----------------------------------------------------------------------------
LEMMA Initially == Init => AInv
  BY NoneDistinct, NoResponse
     DEF Init, AInv, Typed, WorkerSteps, ResumeSteps, Responses, Leased, Leasing, ResumeLeasing,
         Locked, Inside, Unanswered, Attributable, Own, Asking, Consumed, Past

\* Jobs, time, the supervisor and a cancellation leave every checkpoint alone.
LEMMA Bystanders ==
    ASSUME AInv,
           \/ \E j \in Jobs : CreateJob(j) \/ CancelJob(j) \/ \E w \in Workers : TakeJob(w, j)
           \/ \E w \in Workers : LeaseRefused(w) \/ AdmitRefused(w) \/ DeadlinePasses(w)
           \/ Cancel \/ SupOwn \/ Spawn \/ SetRunning \/ EndAttempt \/ SupLost
    PROVE  AInv'
<1> USE NoneDistinct, NoResponse, ProcessesDistinct
       DEF AInv, Typed, Leased, Leasing, Asking, Inside, ResumeLeasing, Locked,
           task, checkpoint, jobs, worker, history, resumes,
           WGoto, Release, Returns,
           CreateJob, CancelJob, TakeJob, LeaseRefused, AdmitRefused, DeadlinePasses,
           Cancel, SupOwn, Spawn, SetRunning, EndAttempt, SupLost
<1>1. Typed'
  BY DEF WorkerSteps, ResumeSteps
<1>2. Leased' /\ Locked'
  OBVIOUS
<1>3. Unanswered' /\ Attributable'
  BY DEF Unanswered, Attributable
<1>4. Own' /\ Consumed' /\ Past'
  BY DEF Unanswered, Attributable, Own, Consumed, Past
<1>5. QED
  BY <1>1, <1>2, <1>3, <1>4

\* A request is published by the holder of the lease, under an identifier nobody used.
LEMMA Asks ==
    ASSUME AInv,
           \E w \in Workers : TakeLease(w) \/ Admit(w) \/ SetWaiting(w)
    PROVE  AInv'
<1> USE NoneDistinct, NoResponse, ProcessesDistinct
       DEF AInv, Typed, Leased, Leasing, Asking, Inside, ResumeLeasing, Locked,
           task, checkpoint, jobs, worker, history, resumes,
           WGoto, Release, Returns, Processes, TakeLease, Admit, SetWaiting
<1>1. Typed'
  BY DEF WorkerSteps, ResumeSteps
<1>2. Leased' /\ Locked'
  OBVIOUS
<1>3. Unanswered' /\ Attributable'
  BY DEF Unanswered, Attributable
<1>4. Own' /\ Consumed' /\ Past'
  BY DEF Unanswered, Attributable, Own, Consumed, Past
<1>5. QED
  BY <1>1, <1>2, <1>3, <1>4

\* The wait reads the response of its own request, and changes neither.
LEMMA Waits ==
    ASSUME AInv,
           \E w \in Workers : Poll(w) \/ WaitFails(w) \/ WaitCalledOff(w) \/ Consume(w) \/ Sleep(w)
                                \/ ExpireCancel(w)
    PROVE  AInv'
<1> USE NoneDistinct, NoResponse, ProcessesDistinct
       DEF AInv, Typed, Leased, Leasing, Asking, Inside, ResumeLeasing, Locked,
           task, checkpoint, jobs, worker, history, resumes,
           WGoto, Release, EndsWait, Responses,
           Poll, WaitFails, WaitCalledOff, Consume, Sleep, ExpireCancel
<1>1. Typed'
  BY DEF WorkerSteps, ResumeSteps
<1>2. Leased' /\ Locked'
  OBVIOUS
<1>3. Unanswered' /\ Attributable'
  BY DEF Unanswered, Attributable
<1>4. Own' /\ Consumed' /\ Past'
  BY DEF Unanswered, Attributable, Own, Consumed, Past
<1>5. QED
  BY <1>1, <1>2, <1>3, <1>4

\* What is removed is the worker's own; the approval it counts is the response it read.
LEMMA Retired ==
    ASSUME AInv,
           \E w \in Workers : Retire(w) \/ RetireRequest(w) \/ RetireFails(w)
    PROVE  AInv'
<1> USE NoneDistinct, NoResponse, ProcessesDistinct
       DEF AInv, Typed, Leased, Leasing, Asking, Inside, ResumeLeasing, Locked,
           task, checkpoint, jobs, worker, history, resumes,
           WGoto, Release, Returns, Retires, Mine,
           Retire, RetireRequest, RetireFails
<1>1. Typed'
  BY DEF WorkerSteps, ResumeSteps
<1>2. Leased' /\ Locked'
  OBVIOUS
<1>3. Unanswered' /\ Attributable'
  BY DEF Unanswered, Attributable
<1>4. Own' /\ Consumed' /\ Past'
  BY DEF Unanswered, Attributable, Own, Consumed, Past
<1>5. QED
  BY <1>1, <1>2, <1>3, <1>4

\* A worker that is done, or lost, leaves the checkpoint as it is.
LEMMA Leaves ==
    ASSUME AInv,
           \E w \in Workers : PublishJob(w) \/ WorkerLost(w)
    PROVE  AInv'
<1> USE NoneDistinct, NoResponse, ProcessesDistinct
       DEF AInv, Typed, Leased, Leasing, Asking, Inside, ResumeLeasing, Locked,
           task, checkpoint, jobs, worker, history, resumes,
           Idle, Release, PublishJob, WorkerLost
<1>1. Typed'
  BY DEF WorkerSteps, ResumeSteps
<1>2. Leased' /\ Locked'
  OBVIOUS
<1>3. Unanswered' /\ Attributable'
  BY DEF Unanswered, Attributable
<1>4. Own' /\ Consumed' /\ Past'
  BY DEF Unanswered, Attributable, Own, Consumed, Past
<1>5. QED
  BY <1>1, <1>2, <1>3, <1>4

\* A decision is written inside state.lock for a request that has none.
LEMMA Decides ==
    ASSUME AInv,
           \/ \E w \in Workers : Expire(w)
           \/ \E o \in Operators, d \in {"approve", "reject"} : Decide(o, d)
           \/ \E o \in Operators : Decided(o) \/ DecideFails(o)
    PROVE  AInv'
<1> USE NoneDistinct, NoResponse, ProcessesDistinct
       DEF AInv, Typed, Leased, Leasing, Asking, Inside, ResumeLeasing, Locked,
           task, checkpoint, jobs, worker, history, resumes,
           WGoto, Decision, Undecided, Responses, Processes,
           Expire, Decide, Decided, DecideFails
<1>1. Typed'
  BY DEF WorkerSteps, ResumeSteps
<1>2. Leased' /\ Locked'
  OBVIOUS
<1>3. Unanswered' /\ Attributable'
  BY DEF Unanswered, Attributable
<1>4. Own' /\ Consumed' /\ Past'
  BY DEF Unanswered, Attributable, Own, Consumed, Past
<1>5. QED
  BY <1>1, <1>2, <1>3, <1>4

\* A resume removes a checkpoint under the lease, when no worker asks.
LEMMA Resumes ==
    ASSUME AInv, NEW p \in Resumers, Resume(p)
    PROVE  AInv'
<1> USE NoneDistinct, NoResponse, ProcessesDistinct
       DEF AInv, Typed, Leased, Leasing, Asking, Inside, ResumeLeasing, Locked,
           task, checkpoint, jobs, worker, history, RGoto, ResumeEnds, Release, Mine
<1>1. CASE ResumeRetire(p) \/ ResumeRetireRequest(p)
  <2> USE DEF ResumeRetire, ResumeRetireRequest
  <2>1. Typed'
    BY <1>1 DEF ResumeSteps
  <2>2. Leased' /\ Locked'
    BY <1>1
  <2>3. Unanswered' /\ Attributable'
    BY <1>1 DEF Unanswered, Attributable
  <2>4. Own' /\ Consumed' /\ Past'
    BY <1>1 DEF Unanswered, Attributable, Own, Consumed, Past
  <2>5. QED
    BY <2>1, <2>2, <2>3, <2>4
<1>2. CASE UNCHANGED <<checkpoint, worker, opc, asked, decisions, grants>>
  <2>1. Typed' /\ Leased' /\ Locked' /\ Unanswered'
    <3> USE DEF ResumeSteps, Unanswered
    <3>1. CASE ResumeBegin(p) \/ Recover(p)
      BY <1>2, <3>1 DEF ResumeBegin, Recover
    <3>2. CASE ResumeLease(p) \/ ResumeJournal(p) \/ ResumeSave(p)
      BY <1>2, <3>2 DEF ResumeLease, ResumeJournal, ResumeSave
    <3>3. CASE ResumeRetire(p) \/ ResumeRetireRequest(p)
      BY <1>2, <3>3 DEF ResumeRetire, ResumeRetireRequest
    <3>4. CASE SaveFails(p) \/ StartFails(p) \/ UndoLock(p)
      BY <1>2, <3>4 DEF SaveFails, StartFails, UndoLock
    <3>5. CASE Undo(p) \/ ResumeAcknowledged(p) \/ ResumeStops(p)
      BY <1>2, <3>5 DEF Undo, ResumeAcknowledged, ResumeStops
    <3>6. QED
      BY <3>1, <3>2, <3>3, <3>4, <3>5 DEF Resume
  <2>2. Attributable' /\ Own' /\ Consumed' /\ Past'
    BY <1>2 DEF Attributable, Own, Consumed, Past
  <2>3. QED
    BY <2>1, <2>2
<1>3. QED
  BY <1>1, <1>2 DEF Resume, ResumeBegin, Recover, ResumeLease, ResumeJournal, ResumeSave, SaveFails,
                    StartFails, UndoLock, Undo, ResumeAcknowledged, ResumeStops

LEMMA AInductive == AInv /\ [Next]_vars => AInv'
<1> SUFFICES ASSUME AInv, [Next]_vars PROVE AInv'
  OBVIOUS
<1>1. CASE UNCHANGED vars
  BY <1>1 DEF vars, task, checkpoint, jobs, worker, history, resumes, AInv, Typed, Leased, Locked,
              Unanswered, Attributable, Own, Consumed, Past
<1>2. CASE Next
  BY <1>2, Bystanders, Asks, Waits, Retired, Leaves, Decides, Resumes DEF Next, WorkerWork
<1>3. QED
  BY <1>1, <1>2

\* No request is answered with an approval twice, and none that was not approved
\* or was also rejected, whoever races, dies or retries.
THEOREM AnsweredOnce == Spec => []ApprovedOnce
<1>1. AInv => ApprovedOnce
  <2> SUFFICES ASSUME AInv, NEW r \in Reqs
               PROVE  grants[r] <= 1 /\ (grants[r] = 1 => decisions[r] = {"approve"})
    BY DEF ApprovedOnce
  <2>1. grants[r] = 0 \/ (grants[r] = 1 /\ decisions[r] = {"approve"})
    BY DEF AInv, Past
  <2>2. QED
    BY <2>1
<1>2. QED
  BY Initially, AInductive, <1>1, PTL DEF Spec

\* A response never outlives its request, so no resume is refused for one that
\* belongs to nothing.
THEOREM ResponsesAttributable == Spec => []Attributable
<1>1. AInv => Attributable
  BY DEF AInv
<1>2. QED
  BY Initially, AInductive, <1>1, PTL DEF Spec

-----------------------------------------------------------------------------
(* Attempts: what a resume, a decision and a wait may find each other in.   *)

\* The current attempt has a worker that has not ended.
Working == attempt \in intent \ over

\* The types this argument needs; jobs that are worked on exist.
Recorded ==
    /\ attempt \in Attempts /\ intent \subseteq Attempts /\ over \subseteq Attempts
    /\ journal \in Journals \cup {None} /\ rejected \subseteq intent
    /\ state \in {"starting", "running", "waiting", "ended"}
    /\ rold \in [Resumers -> Attempts \cup {None}] /\ rnew \in [Resumers -> Attempts \cup {None}]
    /\ status \in [Jobs -> {"absent", "working", "cancelled", "completed", "failed"}]
    /\ ctx \in [Jobs -> Attempts \cup {None}] /\ wjob \in [Workers -> Jobs \cup {None}]
    /\ \A w \in Workers : wpc[w] # "idle" => wjob[w] \in Jobs /\ status[wjob[w]] # "absent"

\* No two workers have the same request.
Apart ==
    \A w \in Workers : wreq[w] # None =>
        wreq[w] \in asked /\ \A u \in Workers : wreq[u] = wreq[w] => u = w

\* A resume that touches the task's files holds owner.lock.
Owned == \A p \in Resumers : rpc[p] \in Owning => owner = p

\* What a resume remembers: it goes from an attempt that ran and is over to one that
\* nobody spawned before its files are complete.
Remembers ==
    \A p \in Resumers :
        /\ rpc[p] \notin {"idle", "lease"} => rold[p] \in over \cap intent
        /\ rpc[p] \in ResumeLeasing \ {"uncancel"} => attempt = rold[p]
        /\ rpc[p] \in {"save_task", "save_attempt", "uncancel"} => rnew[p] \in Attempts \ intent
        /\ rpc[p] \in {"save_task", "save_attempt"} /\ journal # None => journal.next = rnew[p]
        /\ rpc[p] = "uncancel" => attempt = rnew[p]
        /\ rpc[p] = "retire_request" => ~Live(state)
        /\ rpc[p] \in {"journal", "save_task", "save_attempt", "uncancel"} => ~overtaken
        /\ rpc[p] \in {"start", "undo_lock", "undo_state", "undo_attempt"} => rnew[p] \in Attempts
        /\ rpc[p] \in {"recover_state", "recover_attempt"} => ~Working
        /\ rpc[p] = "undo_attempt" => overtaken \/ attempt \notin intent \ {rold[p]}

\* A journal names an attempt that is over and the only one that may be current without
\* having been spawned; until that one is spawned no attempt works.
Journalled ==
    /\ journal # None => journal.old \in over \cap intent /\ attempt \in intent \cup {journal.next}
    /\ journal # None /\ journal.next \notin intent => ~Working
    /\ overtaken => attempt \in intent

\* A state that can be asked in or decided in is that of a working attempt, also for
\* those who looked and have not written yet.
Active ==
    /\ state \in {"running", "waiting"} => Working
    /\ \A o \in Operators : opc[o] # "idle" => Working /\ Live(state)
    /\ \A w \in Workers : wpc[w] \in {"set_waiting", "look", "expire"} => Working /\ Live(state)

\* The attempt of a worker that asks stays the current one.
Current ==
    \A w \in Workers : wpc[w] \in Asking =>
        attempt = ctx[wjob[w]] /\ attempt \in intent /\ state # "starting"

\* A rejection of a working attempt comes with its cancellation.
Rejected ==
    /\ Working /\ attempt \in rejected => cancel
    /\ \A w \in Workers : wpc[w] = "look" => attempt \notin rejected

\* Between two attempts no request is open: a resume removed it first.
Vacant ==
    /\ attempt \notin intent => req = None
    /\ \A p \in Resumers :
          rpc[p] \in {"journal", "save_task", "save_attempt", "uncancel"} => req = None

\* And none while a journal may still be followed.
Settled ==
    /\ journal # None /\ journal.next \notin intent => req = None
    /\ \A p \in Resumers : rpc[p] \in {"recover_state", "recover_attempt"} => req = None

\* What holds of attempts unless one was overtaken.
Timely == Active /\ Current /\ Rejected /\ Settled

CInv == AInv /\ Recorded /\ Apart /\ Owned /\ Remembers /\ Journalled /\ Vacant /\ (overtaken \/ Timely)

\* What a step promises: the four action properties.
Promises ==
    /\ \A w \in Workers : wreq[w] # None /\ grants'[wreq[w]] > grants[wreq[w]]
                              => attempt = ctx[wjob[w]] \/ overtaken
    /\ \A w \in Workers : wout[w] # "approved" /\ wout'[w] = "approved"
                              => attempt \notin rejected \/ overtaken
    /\ ~Live(state) /\ Live(state') => overtaken \/ \E p \in Resumers : rpc[p] = "save_task"
    /\ \A j \in Jobs : status[j] = "cancelled" => status'[j] = "cancelled"

CNext ==
    /\ Recorded' /\ Apart' /\ Owned' /\ Remembers' /\ Journalled' /\ Vacant'
    /\ overtaken' \/ Timely'
    /\ Promises

LEMMA CInitially == Init => CInv
<1> SUFFICES ASSUME Init PROVE CInv
  OBVIOUS
<1> USE AttemptBound, NoneDistinct DEF Init
<1>1. Recorded /\ Apart
  <2>1. attempt \in Attempts /\ intent \subseteq Attempts
    BY DEF Attempts
  <2>2. QED
    BY <2>1 DEF Recorded, Apart
<1>2. Owned /\ Remembers
  BY DEF Owned, Owning, ResumeLeasing, Remembers
<1>3. Journalled /\ Vacant
  BY DEF Journalled, Vacant
<1>4. Timely
  BY DEF Timely, Active, Current, Rejected, Settled, Working, Asking, Leasing, Live
<1>5. QED
  BY Initially, <1>1, <1>2, <1>3, <1>4 DEF CInv

\* Jobs, time and a cancellation know no attempt; the supervisor runs one that no resume is at.
LEMMA CBystanders ==
    ASSUME CInv,
           \/ \E j \in Jobs : CreateJob(j) \/ CancelJob(j) \/ \E w \in Workers : TakeJob(w, j)
           \/ \E w \in Workers : LeaseRefused(w) \/ AdmitRefused(w) \/ DeadlinePasses(w)
           \/ Cancel \/ SupOwn \/ Spawn \/ SetRunning \/ EndAttempt \/ SupLost
    PROVE  CNext
<1> USE AttemptBound, NoneDistinct, NoResponse, ProcessesDistinct
       DEF CInv, AInv, Typed, Leased, Leasing, Asking, Inside, ResumeLeasing, Locked,
           task, checkpoint, jobs, worker, history, resumes, Working, Live,
           WGoto, Release, Returns, CreateJob, CancelJob, TakeJob, LeaseRefused, AdmitRefused, DeadlinePasses,
           Cancel, SupOwn, Spawn, SetRunning, EndAttempt, SupLost
<1>1. Recorded'
  BY DEF Recorded, WorkerSteps, Remembers, Journalled, Timely, Active, Current, Journals
<1>2. Apart' /\ Owned'
  BY DEF Apart, Owned, Owning
<1>3. Remembers' /\ Journalled' /\ Vacant'
  BY DEF Recorded, Owned, Owning, Remembers, Journalled, Vacant, Timely, Active, Current, Journals
<1>4. ASSUME ~overtaken PROVE Active' /\ Current'
  BY <1>4 DEF Recorded, Owned, Owning, Remembers, Journalled, Vacant, Timely, Active, Current
<1>5. ASSUME ~overtaken PROVE Rejected' /\ Settled'
  BY <1>5 DEF Recorded, Owned, Owning, Remembers, Journalled, Vacant, Timely, Active, Current, Rejected, Settled,
              Journals
<1>6. Promises
  BY DEF Recorded, Apart, Timely, Active, Current, Rejected, Promises
<1> QED
  BY <1>1, <1>2, <1>3, <1>4, <1>5, <1>6 DEF CNext, Timely

\* A request is of the working attempt: the state says so, and no resume is under way.
LEMMA CAsks ==
    ASSUME CInv,
           \E w \in Workers : TakeLease(w) \/ Admit(w) \/ SetWaiting(w)
    PROVE  CNext
<1> USE AttemptBound, NoneDistinct, NoResponse, ProcessesDistinct
       DEF CInv, AInv, Typed, Leased, Leasing, Asking, Inside, ResumeLeasing, Locked,
           task, checkpoint, jobs, worker, history, resumes, Working, Live,
           WGoto, Release, Returns, TakeLease, Admit, SetWaiting
<1>1. Recorded'
  BY DEF Recorded, WorkerSteps, Remembers, Journalled, Timely, Active, Current, Journals
<1>2. Apart' /\ Owned'
  BY DEF Apart, Owned, Owning
<1>3. Remembers' /\ Journalled' /\ Vacant'
  BY DEF Recorded, Owned, Owning, Remembers, Journalled, Vacant, Timely, Active, Current, Journals
<1>4. ASSUME ~overtaken PROVE Active' /\ Current'
  BY <1>4 DEF Recorded, Owned, Owning, Remembers, Journalled, Vacant, Timely, Active, Current
<1>5. ASSUME ~overtaken PROVE Rejected' /\ Settled'
  BY <1>5 DEF Recorded, Owned, Owning, Remembers, Journalled, Vacant, Timely, Active, Current, Rejected, Settled,
              Journals
<1>6. Promises
  BY DEF Recorded, Apart, Timely, Active, Current, Rejected, Promises
<1> QED
  BY <1>1, <1>2, <1>3, <1>4, <1>5, <1>6 DEF CNext, Timely

\* Inside state.lock neither the end of the attempt nor a rejection comes in between.
LEMMA CWaits ==
    ASSUME CInv,
           \E w \in Workers : Poll(w) \/ WaitFails(w) \/ WaitCalledOff(w) \/ Consume(w) \/ Sleep(w)
                                \/ ExpireCancel(w)
    PROVE  CNext
<1> USE AttemptBound, NoneDistinct, NoResponse, ProcessesDistinct
       DEF CInv, AInv, Typed, Leased, Leasing, Asking, Inside, ResumeLeasing, Locked,
           task, checkpoint, jobs, worker, history, resumes, Working, Live,
           WGoto, Release, EndsWait, Poll, WaitFails, WaitCalledOff, Consume, Sleep, ExpireCancel
<1>1. Recorded'
  BY DEF Recorded, WorkerSteps, Remembers, Journalled, Timely, Active, Current, Journals
<1>2. Apart' /\ Owned'
  BY DEF Apart, Owned, Owning
<1>3. Remembers' /\ Journalled' /\ Vacant'
  BY DEF Recorded, Owned, Owning, Remembers, Journalled, Vacant, Timely, Active, Current, Journals
<1>4. ASSUME ~overtaken PROVE Active' /\ Current'
  BY <1>4 DEF Recorded, Owned, Owning, Remembers, Journalled, Vacant, Timely, Active, Current
<1>5. ASSUME ~overtaken PROVE Rejected' /\ Settled'
  BY <1>5 DEF Recorded, Owned, Owning, Remembers, Journalled, Vacant, Timely, Active, Current, Rejected, Settled,
              Journals
<1>6. Promises
  BY DEF Recorded, Apart, Timely, Active, Current, Rejected, Promises
<1> QED
  BY <1>1, <1>2, <1>3, <1>4, <1>5, <1>6 DEF CNext, Timely

\* The approval that is counted is of the attempt that asked.
LEMMA CRetired ==
    ASSUME CInv,
           \E w \in Workers : Retire(w) \/ RetireRequest(w) \/ RetireFails(w)
    PROVE  CNext
<1> USE AttemptBound, NoneDistinct, NoResponse, ProcessesDistinct
       DEF CInv, AInv, Typed, Leased, Leasing, Asking, Inside, ResumeLeasing, Locked,
           task, checkpoint, jobs, worker, history, resumes, Working, Live,
           WGoto, Release, Returns, Retires, Mine, Retire, RetireRequest, RetireFails
<1>1. Recorded'
  BY DEF Recorded, WorkerSteps, Remembers, Journalled, Timely, Active, Current, Journals
<1>2. Apart' /\ Owned'
  BY DEF Apart, Owned, Owning
<1>3. Remembers' /\ Journalled' /\ Vacant'
  BY DEF Recorded, Owned, Owning, Remembers, Journalled, Vacant, Timely, Active, Current, Journals
<1>4. ASSUME ~overtaken PROVE Active' /\ Current'
  BY <1>4 DEF Recorded, Owned, Owning, Remembers, Journalled, Vacant, Timely, Active, Current
<1>5. ASSUME ~overtaken PROVE Rejected' /\ Settled'
  BY <1>5 DEF Recorded, Owned, Owning, Remembers, Journalled, Vacant, Timely, Active, Current, Rejected, Settled,
              Journals
<1>6. Promises
  BY DEF Recorded, Apart, Timely, Active, Current, Rejected, Promises
<1> QED
  BY <1>1, <1>2, <1>3, <1>4, <1>5, <1>6 DEF CNext, Timely

\* A worker that is done or lost leaves the attempt, and its request, behind.
LEMMA CLeaves ==
    ASSUME CInv,
           \E w \in Workers : PublishJob(w) \/ WorkerLost(w)
    PROVE  CNext
<1> USE AttemptBound, NoneDistinct, NoResponse, ProcessesDistinct
       DEF CInv, AInv, Typed, Leased, Leasing, Asking, Inside, ResumeLeasing, Locked,
           task, checkpoint, jobs, worker, history, resumes, Working, Live,
           Idle, Release, PublishJob, WorkerLost
<1>1. Recorded'
  BY DEF Recorded, WorkerSteps, Remembers, Journalled, Timely, Active, Current, Journals
<1>2. Apart' /\ Owned'
  BY DEF Apart, Owned, Owning
<1>3. Remembers' /\ Journalled' /\ Vacant'
  BY DEF Recorded, Owned, Owning, Remembers, Journalled, Vacant, Timely, Active, Current, Journals
<1>4. ASSUME ~overtaken PROVE Active' /\ Current'
  BY <1>4 DEF Recorded, Owned, Owning, Remembers, Journalled, Vacant, Timely, Active, Current
<1>5. ASSUME ~overtaken PROVE Rejected' /\ Settled'
  BY <1>5 DEF Recorded, Owned, Owning, Remembers, Journalled, Vacant, Timely, Active, Current, Rejected, Settled,
              Journals
<1>6. Promises
  BY DEF Recorded, Apart, Timely, Active, Current, Rejected, Promises
<1> QED
  BY <1>1, <1>2, <1>3, <1>4, <1>5, <1>6 DEF CNext, Timely

\* A decision is about a working attempt, and a rejection cancels it.
LEMMA CDecides ==
    ASSUME CInv,
           \/ \E w \in Workers : Expire(w)
           \/ \E o \in Operators, d \in {"approve", "reject"} : Decide(o, d)
           \/ \E o \in Operators : Decided(o) \/ DecideFails(o)
    PROVE  CNext
<1> USE AttemptBound, NoneDistinct, NoResponse, ProcessesDistinct
       DEF CInv, AInv, Typed, Leased, Leasing, Asking, Inside, ResumeLeasing, Locked,
           task, checkpoint, jobs, worker, history, resumes, Working, Live,
           WGoto, Decision, Undecided, Expire, Decide, Decided, DecideFails
<1>1. Recorded'
  BY DEF Recorded, WorkerSteps, Remembers, Journalled, Timely, Active, Current, Journals
<1>2. Apart' /\ Owned'
  BY DEF Apart, Owned, Owning
<1>3. Remembers' /\ Journalled' /\ Vacant'
  BY DEF Recorded, Owned, Owning, Remembers, Journalled, Vacant, Timely, Active, Current, Journals
<1>4. ASSUME ~overtaken PROVE Active' /\ Current'
  BY <1>4 DEF Recorded, Owned, Owning, Remembers, Journalled, Vacant, Timely, Active, Current
<1>5. ASSUME ~overtaken PROVE Rejected' /\ Settled'
  BY <1>5 DEF Recorded, Owned, Owning, Remembers, Journalled, Vacant, Timely, Active, Current, Rejected, Settled,
              Journals
<1>6. Promises
  BY DEF Recorded, Apart, Timely, Active, Current, Rejected, Promises
<1> QED
  BY <1>1, <1>2, <1>3, <1>4, <1>5, <1>6 DEF CNext, Timely

\* A resume begins, and what an unfinished one left is put back, in an attempt that
\* nobody works or asks in.
LEMMA CRecovers ==
    ASSUME CInv, NEW p \in Resumers,
           ResumeBegin(p) \/ Recover(p)
    PROVE  CNext
<1> USE AttemptBound, NoneDistinct, NoResponse, ProcessesDistinct
       DEF CInv, AInv, Typed, Leased, Leasing, Asking, Inside, ResumeLeasing, Owning, Locked,
           task, checkpoint, jobs, worker, history, Working, Live, RGoto, ResumeEnds, Release,
           ResumeBegin, Recover
<1>1. Recorded' /\ Apart'
  BY DEF Recorded, Apart, Remembers, Journalled, Journals
<1>2. Owned'
  BY DEF Owned
<1>3. Remembers' /\ Journalled' /\ Vacant'
  BY DEF Recorded, Owned, Remembers, Journalled, Vacant, Journals, ResumeSteps
<1>4. ASSUME ~overtaken' PROVE Active' /\ Current'
  BY <1>4 DEF Recorded, Owned, Remembers, Journalled, Vacant, Timely, Active, Current, Settled, Own
<1>5. ASSUME ~overtaken' PROVE Rejected' /\ Settled'
  BY <1>5 DEF Recorded, Owned, Remembers, Journalled, Vacant, Timely, Active, Current, Rejected, Settled, Own,
              Journals
<1>6. Promises
  BY DEF Recorded, Apart, Promises
<1> QED
  BY <1>1, <1>2, <1>3, <1>4, <1>5, <1>6 DEF CNext, Timely

\* The lease and state.lock keep workers and operators out while the checkpoint goes:
\* whatever an overtaken attempt had left is settled then.
LEMMA CRetires ==
    ASSUME CInv, NEW p \in Resumers,
           ResumeLease(p) \/ ResumeRetire(p) \/ ResumeRetireRequest(p)
    PROVE  CNext
<1> USE AttemptBound, NoneDistinct, NoResponse, ProcessesDistinct
       DEF Mine, CInv, AInv, Typed, Leased, Leasing, Asking, Inside, ResumeLeasing, Owning, Locked,
           task, checkpoint, jobs, worker, history, Working, Live, RGoto, ResumeEnds, Release,
           ResumeLease, ResumeRetire, ResumeRetireRequest
<1>1. Recorded' /\ Apart'
  BY DEF Recorded, Apart, Remembers, Journalled, Journals
<1>2. Owned'
  BY DEF Owned
<1>3. Remembers' /\ Journalled' /\ Vacant'
  BY DEF Recorded, Owned, Remembers, Journalled, Vacant, Journals, ResumeSteps
<1>4. ASSUME ~overtaken' PROVE Active' /\ Current'
  <2>1. CASE overtaken' = overtaken
    BY <1>4, <2>1 DEF Remembers, Timely, Active, Current
  <2>2. CASE rpc[p] \in {"retire", "retire_request"}
    <3>1. \A w \in Workers : wpc[w] \notin Leasing
      BY <2>2
    <3>2. \A o \in Operators : opc[o] = "idle"
      BY <2>2
    <3>3. ~Live(state)
      BY <2>2 DEF Remembers
    <3>4. QED
      BY <1>4, <3>1, <3>2, <3>3 DEF Active, Current
  <2>3. QED
    BY <2>1, <2>2
<1>5. ASSUME ~overtaken' PROVE Rejected' /\ Settled'
  BY <1>5 DEF Recorded, Owned, Remembers, Journalled, Vacant, Timely, Active, Current, Rejected, Settled, Own,
              Journals
<1>6. Promises
  BY DEF Recorded, Apart, Promises
<1> QED
  BY <1>1, <1>2, <1>3, <1>4, <1>5, <1>6 DEF CNext, Timely

\* The next attempt is prepared while nobody can ask or decide.
LEMMA CPrepares ==
    ASSUME CInv, NEW p \in Resumers,
           ResumeJournal(p) \/ ResumeSave(p) \/ SaveFails(p)
    PROVE  CNext
<1> USE AttemptBound, NoneDistinct, NoResponse, ProcessesDistinct
       DEF CInv, AInv, Typed, Leased, Leasing, Asking, Inside, ResumeLeasing, Owning, Locked,
           task, checkpoint, jobs, worker, history, Working, Live, RGoto, ResumeEnds, Release,
           ResumeJournal, ResumeSave, SaveFails
<1>1. Recorded' /\ Apart'
  BY DEF Recorded, Apart, Remembers, Journalled, Journals
<1>2. Owned'
  BY DEF Owned
<1>3. Remembers' /\ Journalled' /\ Vacant'
  <2>1. Remembers'
    BY DEF Recorded, Owned, Remembers, Journalled, Vacant, ResumeSteps
  <2>2. Journalled'
    <3>1. CASE ResumeJournal(p)
      <4>1. PICK a \in Attempts \ intent : journal' = [old |-> rold[p], next |-> a]
        BY <3>1
      <4>2. attempt = rold[p] /\ rold[p] \in over \cap intent /\ ~overtaken
        BY <3>1 DEF Remembers
      <4>3. QED
        BY <3>1, <4>1, <4>2 DEF Journalled
    <3>2. CASE ResumeSave(p)
      BY <3>2 DEF Remembers, Journalled
    <3>3. CASE SaveFails(p)
      BY <3>3 DEF Journalled
    <3>4. QED
      BY <3>1, <3>2, <3>3
  <2>3. Vacant'
    BY DEF Recorded, Owned, Remembers, Vacant
  <2>4. QED
    BY <2>1, <2>2, <2>3
<1>4. ASSUME ~overtaken' PROVE Active' /\ Current'
  BY <1>4 DEF Recorded, Owned, Remembers, Journalled, Vacant, Timely, Active, Current, Settled, Own
<1>5. ASSUME ~overtaken' PROVE Rejected' /\ Settled'
  BY <1>5 DEF Recorded, Owned, Remembers, Journalled, Vacant, Timely, Active, Current, Rejected, Settled, Own,
              Journals
<1>6. Promises
  BY DEF Recorded, Apart, Promises
<1> QED
  BY <1>1, <1>2, <1>3, <1>4, <1>5, <1>6 DEF CNext, Timely

\* What is put back replaces an attempt that was never spawned, unless it is overtaken.
LEMMA CUndoes ==
    ASSUME CInv, NEW p \in Resumers,
           StartFails(p) \/ UndoLock(p) \/ Undo(p)
    PROVE  CNext
<1> USE AttemptBound, NoneDistinct, NoResponse, ProcessesDistinct
       DEF CInv, AInv, Typed, Leased, Leasing, Asking, Inside, ResumeLeasing, Owning, Locked,
           task, checkpoint, jobs, worker, history, Working, Live, RGoto, ResumeEnds, Release,
           StartFails, UndoLock, Undo
<1>1. Recorded' /\ Apart'
  BY DEF Recorded, Apart, Remembers, Journalled, Journals
<1>2. Owned'
  BY DEF Owned
<1>3. Remembers' /\ Journalled' /\ Vacant'
  <2>1. Remembers'
    <3>1. CASE StartFails(p) \/ UndoLock(p)
      BY <3>1 DEF Recorded, Remembers, ResumeSteps
    <3>2. CASE Undo(p)
      <4>1. \A q \in Resumers \ {p} : rpc'[q] = rpc[q] /\ rpc[q] \notin Owning
        BY <3>2 DEF Owned
      <4>2. CASE rpc[p] = "undo_state"
        BY <3>2, <4>1, <4>2 DEF Recorded, Remembers, ResumeSteps
      <4>3. CASE rpc[p] = "undo_attempt"
        BY <3>2, <4>1, <4>3 DEF Recorded, Remembers, ResumeSteps
      <4>4. QED
        BY <3>2, <4>2, <4>3
    <3>3. QED
      BY <3>1, <3>2
  <2>2. Journalled'
    <3>1. CASE StartFails(p) \/ UndoLock(p)
      BY <3>1 DEF Journalled
    <3>2. CASE Undo(p)
      <4>1. rold[p] \in over \cap intent
        BY <3>2 DEF Remembers
      <4>2. QED
        BY <3>2, <4>1 DEF Journalled
    <3>3. QED
      BY <3>1, <3>2
  <2>3. Vacant'
    BY DEF Recorded, Owned, Remembers, Vacant
  <2>4. QED
    BY <2>1, <2>2, <2>3
<1>4. ASSUME ~overtaken' PROVE Timely'
  <2>1. CASE StartFails(p) \/ UndoLock(p)
    <3>1. \A q \in Resumers : rpc'[q] \in {"recover_state", "recover_attempt"} => rpc[q] = rpc'[q]
      BY <2>1
    <3>2. QED
      BY <1>4, <2>1, <3>1 DEF Timely, Active, Current, Rejected, Settled
  <2>2. CASE Undo(p)
    <3>1. Timely /\ attempt \notin intent \ {rold[p]} /\ rold[p] \in over \cap intent
      <4>1. CASE rpc[p] = "undo_state"
        BY <1>4, <2>2, <4>1 DEF Remembers
      <4>2. CASE rpc[p] = "undo_attempt"
        BY <1>4, <2>2, <4>2 DEF Remembers
      <4>3. QED
        BY <2>2, <4>1, <4>2
    <3>2. ~Working /\ (attempt \notin intent => req = None)
      BY <3>1 DEF Vacant
    <3>3. Active' /\ Current'
      BY <2>2, <3>1, <3>2 DEF Timely, Active, Current, Own
    <3>4. Rejected' /\ Settled'
      BY <2>2, <3>1, <3>2 DEF Timely, Active, Rejected, Settled
    <3>5. QED
      BY <3>3, <3>4 DEF Timely
  <2>3. QED
    BY <2>1, <2>2
<1>5. Promises
  BY DEF Recorded, Apart, Promises
<1> QED
  BY <1>1, <1>2, <1>3, <1>4, <1>5 DEF CNext

\* A resume that is done leaves the task as it is.
LEMMA CFinishes ==
    ASSUME CInv, NEW p \in Resumers,
           ResumeAcknowledged(p) \/ ResumeStops(p)
    PROVE  CNext
<1> USE AttemptBound, NoneDistinct, NoResponse, ProcessesDistinct
       DEF CInv, AInv, Typed, Leased, Leasing, Asking, Inside, ResumeLeasing, Owning, Locked,
           task, checkpoint, jobs, worker, history, Working, Live, RGoto, ResumeEnds, Release,
           ResumeAcknowledged, ResumeStops
<1>1. Recorded' /\ Apart'
  BY DEF Recorded, Apart, Remembers, Journalled, Journals
<1>2. Owned'
  BY DEF Owned
<1>3. Remembers' /\ Journalled' /\ Vacant'
  BY DEF Recorded, Owned, Remembers, Journalled, Vacant, Journals, ResumeSteps
<1>4. ASSUME ~overtaken' PROVE Active' /\ Current'
  BY <1>4 DEF Recorded, Owned, Remembers, Journalled, Vacant, Timely, Active, Current, Settled, Own
<1>5. ASSUME ~overtaken' PROVE Rejected' /\ Settled'
  BY <1>5 DEF Recorded, Owned, Remembers, Journalled, Vacant, Timely, Active, Current, Rejected, Settled, Own,
              Journals
<1>6. Promises
  BY DEF Recorded, Apart, Promises
<1> QED
  BY <1>1, <1>2, <1>3, <1>4, <1>5, <1>6 DEF CNext, Timely

\* Nothing happens.
LEMMA CStutters ==
    ASSUME CInv, UNCHANGED vars
    PROVE  CNext
<1> USE DEF vars, task, checkpoint, jobs, worker, history, resumes, CInv, AInv, Typed, Working, Live
<1>1. Recorded' /\ Apart' /\ Owned' /\ Remembers' /\ Journalled' /\ Vacant'
  BY DEF Recorded, Apart, Owned, Remembers, Journalled, Vacant
<1>2. overtaken' \/ Timely'
  BY DEF Timely, Active, Current, Rejected, Settled
<1>3. Promises
  BY DEF Promises
<1> QED
  BY <1>1, <1>2, <1>3 DEF CNext

LEMMA CInductive == CInv /\ [Next]_vars => CInv' /\ Promises
<1> SUFFICES ASSUME CInv, [Next]_vars PROVE CInv' /\ Promises
  OBVIOUS
<1>1. AInv'
  BY AInductive DEF CInv
<1>2. CASE UNCHANGED vars
  BY <1>1, <1>2, CStutters DEF CInv, CNext
<1>3. CASE Next
  BY <1>1, <1>3, CBystanders, CAsks, CWaits, CRetired, CLeaves, CDecides,
     CRecovers, CRetires, CPrepares, CUndoes, CFinishes DEF Next, WorkerWork, Resume, CInv, CNext
<1> QED
  BY <1>2, <1>3

\* An approval is answered while the attempt that asked for it is current, unless that
\* attempt was overtaken by a rollback.
THEOREM AnsweredInTime == Spec => CurrentAttempt
<1>1. CInv /\ [Next]_vars => CInv' /\ [\A w \in Workers : wreq[w] # None /\ grants'[wreq[w]] > grants[wreq[w]]
                                          => attempt = ctx[wjob[w]] \/ overtaken]_vars
  BY CInductive DEF Promises
<1> QED
  BY CInitially, <1>1, PTL DEF Spec, CurrentAttempt

\* After a rejection nothing asked in the same attempt is approved, unless the attempt
\* of the wait was overtaken.
THEOREM RejectionsStand == Spec => RejectionStands
<1>1. CInv /\ [Next]_vars => CInv' /\ [\A w \in Workers : wout[w] # "approved" /\ wout'[w] = "approved"
                                          => attempt \notin rejected \/ overtaken]_vars
  BY CInductive DEF Promises
<1> QED
  BY CInitially, <1>1, PTL DEF Spec, RejectionStands

\* Nothing but a resume brings an ended task back to life, unless the task was ended by a
\* rollback under those who decide and wait.
THEOREM EndedStaysEnded == Spec => OnlyResumeRevives
<1>1. CInv /\ [Next]_vars =>
          CInv' /\ [~Live(state) /\ Live(state')
                        => overtaken \/ \E p \in Resumers : rpc[p] = "save_task"]_vars
  BY CInductive DEF Promises
<1> QED
  BY CInitially, <1>1, PTL DEF Spec, OnlyResumeRevives

\* A job that its client saw cancelled is never completed.
THEOREM CancelledJobStays == Spec => CancellationWins
<1>1. CInv /\ [Next]_vars => CInv' /\ [\A j \in Jobs : status[j] = "cancelled" => status'[j] = "cancelled"]_vars
  BY CInductive DEF Promises
<1> QED
  BY CInitially, <1>1, PTL DEF Spec, CancellationWins

-----------------------------------------------------------------------------
(* Approvals implements ApprovalPromise.                                    *)

\* Who is about to reject the attempt has rejected the request, and whoever read an
\* approval reports it in an attempt that is not rejected,
\* unless it was overtaken.
Answering ==
    /\ \A o \in Operators : opc[o] = "reject" => req # None /\ "reject" \in decisions[req]
    /\ \A w \in Workers : wpc[w] = "expire" => "reject" \in decisions[req]
    /\ overtaken \/ \A w \in Workers :
          wpc[w] \in {"retire", "retire_request"} /\ wout[w] = "approved" => attempt \notin rejected

KInv == CInv /\ Answering

Phases == [r \in Reqs |-> Phase(r)]

\* A step of the promise, or none.
Kept == [Approval!PNext]_<<Phases, req, attempt, rejected, overtaken>>

LEMMA KInitially == Init => KInv
  BY CInitially DEF Init, KInv, Answering

LEMMA SamePhases ==
    ASSUME UNCHANGED <<asked, decisions, grants>>
    PROVE  Phases' = Phases
  BY DEF Phases, Phase

\* A step that is about one request moves the phase of that request.
LEMMA OnePhase ==
    ASSUME NEW r \in Reqs, NEW p,
           \A q \in Reqs \ {r} : /\ q \in asked' <=> q \in asked
                                 /\ decisions'[q] = decisions[q] /\ grants'[q] = grants[q],
           Phase(r)' = p
    PROVE  Phases' = [Phases EXCEPT ![r] = p]
<1>1. \A q \in Reqs \ {r} : Phase(q)' = Phase(q)
  BY DEF Phase
<1>2. QED
  BY <1>1 DEF Phases

\* Steps that neither ask, decide, answer, reject nor begin an attempt.
LEMMA StepsAside ==
    ASSUME UNCHANGED <<asked, decisions, grants, req, attempt, rejected, overtaken>>
    PROVE  Kept
  BY SamePhases DEF Kept

LEMMA Withdraws ==
    ASSUME UNCHANGED <<asked, decisions, grants, attempt, rejected, overtaken>>, req' = None
    PROVE  Kept
<1>1. CASE req = None
  BY <1>1, StepsAside
<1>2. CASE req # None
  <2>1. Approval!Withdraw
    BY <1>2, SamePhases DEF Approval!Withdraw, Phases
  <2>2. QED
    BY <2>1 DEF Approval!PNext, Kept
<1>3. QED
  BY <1>1, <1>2

\* Jobs, time, a cancellation and the supervisor have no part in the promise.
LEMMA KBystanders ==
    ASSUME KInv,
           \/ \E j \in Jobs : CreateJob(j) \/ CancelJob(j) \/ \E w \in Workers : TakeJob(w, j)
           \/ \E w \in Workers : LeaseRefused(w) \/ AdmitRefused(w) \/ DeadlinePasses(w)
           \/ Cancel \/ SupOwn \/ Spawn \/ SetRunning \/ EndAttempt \/ SupLost
    PROVE  Answering' /\ Kept
<1> USE NoneDistinct, NoResponse, ProcessesDistinct
       DEF KInv, CInv, AInv, Typed, Leased, Leasing, Asking, Inside, ResumeLeasing, Locked,
           task, checkpoint, jobs, worker, history, resumes,
           WGoto, Release, Returns,
           CreateJob, CancelJob, TakeJob, LeaseRefused, AdmitRefused, DeadlinePasses,
           Cancel, SupOwn, Spawn, SetRunning, EndAttempt, SupLost
<1>1. UNCHANGED <<asked, decisions, grants, req, attempt, rejected, overtaken>>
  OBVIOUS
<1>2. Answering'
  BY DEF Answering
<1>3. QED
  BY <1>1, <1>2, StepsAside

LEMMA KAsks ==
    ASSUME KInv, NEW w \in Workers, TakeLease(w) \/ Admit(w) \/ SetWaiting(w)
    PROVE  Answering' /\ Kept
<1> USE NoneDistinct, NoResponse, ProcessesDistinct
       DEF KInv, CInv, AInv, Typed, Leased, Leasing, Asking, Inside, ResumeLeasing, Locked,
           task, checkpoint, jobs, worker, history, resumes,
           WGoto, Release, Returns, TakeLease, Admit, SetWaiting
<1>1. Answering'
  BY DEF Answering
<1>2. Kept
  <2>1. CASE Admit(w)
    <3>1. PICK r \in Reqs \ asked : req' = r /\ asked' = asked \cup {r}
      BY <2>1
    <3>2. /\ req = None /\ (attempt \notin rejected \/ overtaken)
          /\ UNCHANGED <<decisions, grants, attempt, rejected, overtaken>>
      BY <2>1 DEF Timely, Active, Rejected
    <3>3. decisions[r] = {} /\ grants[r] = 0
      BY <3>1 DEF Past
    <3>4. Phases[r] = "new" /\ Phase(r)' = "asked"
      BY <3>1, <3>2, <3>3 DEF Phases, Phase
    <3>5. Phases' = [Phases EXCEPT ![r] = "asked"]
      BY <3>1, <3>2, <3>4, OnePhase
    <3>6. Approval!Ask(r)
      BY <3>1, <3>2, <3>4, <3>5 DEF Approval!Ask, Phases
    <3>7. QED
      BY <3>6 DEF Approval!PNext, Kept
  <2>2. CASE TakeLease(w) \/ (SetWaiting(w) /\ UNCHANGED req)
    BY <2>2, StepsAside
  <2>3. CASE SetWaiting(w) /\ req' = None
    BY <2>3, Withdraws
  <2>4. QED
    BY <2>1, <2>2, <2>3
<1>3. QED
  BY <1>1, <1>2

\* A wait reads; only the deadline rejects the attempt.
LEMMA KWaits ==
    ASSUME KInv, NEW w \in Workers,
           \/ Poll(w) \/ WaitFails(w) \/ WaitCalledOff(w) \/ Consume(w) \/ Sleep(w)
           \/ ExpireCancel(w)
    PROVE  Answering' /\ Kept
<1> USE NoneDistinct, NoResponse, ProcessesDistinct
       DEF KInv, CInv, AInv, Typed, Leased, Leasing, Asking, Inside, ResumeLeasing, Locked,
           task, checkpoint, jobs, worker, history, resumes,
           WGoto, Release, EndsWait,
           Poll, WaitFails, WaitCalledOff, Consume, Sleep, ExpireCancel
<1>1. Answering'
  BY DEF Answering, Timely, Rejected
<1>2. Kept
  <2>1. CASE ExpireCancel(w)
    <3>1. req \in Reqs /\ req \in asked /\ grants[req] = 0 /\ "reject" \in decisions[req]
      BY <2>1 DEF Own, Past, Answering
    <3>2. Phases[req] = "rejected"
      BY <3>1 DEF Phases, Phase
    <3>3. Approval!Bar
      BY <2>1, <3>1, <3>2, SamePhases DEF Approval!Bar, Phases
    <3>4. QED
      BY <3>3 DEF Approval!PNext, Kept
  <2>2. CASE ~ExpireCancel(w)
    BY <2>2, StepsAside
  <2>3. QED
    BY <2>1, <2>2
<1>3. QED
  BY <1>1, <1>2

\* An approval is granted in the step that removes the request.
LEMMA KRetired ==
    ASSUME KInv, NEW w \in Workers, Retire(w) \/ RetireRequest(w) \/ RetireFails(w)
    PROVE  Answering' /\ Kept
<1> USE NoneDistinct, NoResponse, ProcessesDistinct
       DEF KInv, CInv, AInv, Typed, Leased, Leasing, Asking, Inside, ResumeLeasing, Locked,
           task, checkpoint, jobs, worker, history, resumes,
           WGoto, Release, Returns, Retires, Mine, Retire, RetireRequest, RetireFails
<1>1. Answering'
  BY DEF Answering
<1>2. Kept
  <2>1. CASE RetireFails(w) \/ (Retire(w) /\ resp # None)
    BY <2>1, StepsAside
  <2>2. CASE (Retire(w) /\ resp = None) \/ (RetireRequest(w) /\ wout[w] # "approved")
    <3>1. wout[w] # "approved"
      BY <2>2 DEF Consumed
    <3>2. QED
      BY <2>2, <3>1, Withdraws
  <2>3. CASE RetireRequest(w) /\ wout[w] = "approved"
    <3>1. /\ req = wreq[w] /\ req \in Reqs /\ req \in asked /\ grants[req] = 0
          /\ decisions[req] = {"approve"} /\ (attempt \notin rejected \/ overtaken)
      BY <2>3 DEF Own, Past, Consumed, Answering
    <3>2. /\ req' = None /\ UNCHANGED <<asked, decisions, attempt, rejected, overtaken>>
          /\ grants' = [grants EXCEPT ![req] = 1]
      BY <2>3, <3>1
    <3>3. Phases[req] = "approved"
      BY <3>1 DEF Phases, Phase
    <3>4. Phases' = [Phases EXCEPT ![req] = "granted"]
      <4>1. PICK r \in Reqs : r = req
        BY <3>1
      <4>2. Phase(r)' = "granted"
        BY <3>1, <3>2, <4>1 DEF Phase
      <4>3. QED
        BY <3>2, <4>1, <4>2, OnePhase
    <3>5. Approval!Grant
      BY <3>1, <3>2, <3>3, <3>4 DEF Approval!Grant, Phases
    <3>6. QED
      BY <3>5 DEF Approval!PNext, Kept
  <2>4. QED
    BY <2>1, <2>2, <2>3
<1>3. QED
  BY <1>1, <1>2

LEMMA KLeaves ==
    ASSUME KInv, NEW w \in Workers, PublishJob(w) \/ WorkerLost(w)
    PROVE  Answering' /\ Kept
<1> USE NoneDistinct, NoResponse, ProcessesDistinct
       DEF KInv, CInv, AInv, Typed, Leased, Leasing, Asking, Inside, ResumeLeasing, Locked,
           task, checkpoint, jobs, worker, history, resumes,
           Idle, Release, PublishJob, WorkerLost
<1>1. Answering'
  BY DEF Answering
<1>2. QED
  BY <1>1, StepsAside

\* What is written as the response is the first decision of a request, repeats one
\* that nobody read, or takes back an approval that nobody read.
LEMMA DecisionKept ==
    ASSUME KInv, NEW d \in {"approve", "reject"}, Undecided, Decision(d),
           UNCHANGED <<asked, grants, req, attempt, rejected, overtaken>>
    PROVE  Kept
<1>1. /\ req \in Reqs /\ req \in asked /\ grants[req] = 0
      /\ decisions \in [Reqs -> SUBSET {"approve", "reject"}]
  BY DEF Undecided, KInv, CInv, AInv, Typed, Past
<1>2. attempt \notin rejected \/ overtaken
  BY DEF Undecided, KInv, CInv, Timely, Active, Rejected
<1>3. PICK r \in Reqs : r = req
  BY <1>1
<1>4. /\ decisions'[r] = decisions[r] \cup {d}
      /\ \A q \in Reqs \ {r} : decisions'[q] = decisions[q]
  BY <1>1, <1>3 DEF Decision
<1>5. CASE d = "approve" /\ decisions[r] = {}
  <2>1. Phases[r] = "asked" /\ Phase(r)' = "approved"
    BY <1>1, <1>3, <1>4, <1>5 DEF Phases, Phase
  <2>2. Phases' = [Phases EXCEPT ![r] = "approved"]
    BY <1>4, <2>1, OnePhase
  <2>3. Approval!Approve
    BY <1>1, <1>2, <1>3, <2>1, <2>2, NoneDistinct DEF Approval!Approve, Phases
  <2>4. QED
    BY <2>3 DEF Approval!PNext, Kept
<1>6. CASE d = "reject" /\ "reject" \notin decisions[r]
  <2>1. Phases[r] \in {"asked", "approved"} /\ Phase(r)' = "rejected"
    BY <1>1, <1>3, <1>4, <1>6 DEF Phases, Phase
  <2>2. Phases' = [Phases EXCEPT ![r] = "rejected"]
    BY <1>4, <2>1, OnePhase
  <2>3. Approval!Reject
    BY <1>1, <1>3, <2>1, <2>2, NoneDistinct DEF Approval!Reject, Phases
  <2>4. QED
    BY <2>3 DEF Approval!PNext, Kept
<1>7. CASE d \in decisions[r] \/ "reject" \in decisions[r]
  <2>1. Phase(r)' = Phase(r)
    BY <1>1, <1>3, <1>4, <1>7 DEF Phase
  <2>2. Phases' = [Phases EXCEPT ![r] = Phase(r)]
    BY <1>4, <2>1, OnePhase
  <2>3. QED
    BY <2>2 DEF Phases, Kept
<1>8. QED
  BY <1>1, <1>3, <1>5, <1>6, <1>7

LEMMA KDecides ==
    ASSUME KInv,
           \/ \E w \in Workers : Expire(w)
           \/ \E o \in Operators, d \in {"approve", "reject"} : Decide(o, d)
           \/ \E o \in Operators : Decided(o) \/ DecideFails(o)
    PROVE  Answering' /\ Kept
<1>1. CASE \E w \in Workers : Expire(w)
  <2>1. PICK w \in Workers : Expire(w)
    BY <1>1
  <2>2. /\ wpc[w] = "look" /\ wpc' = [wpc EXCEPT ![w] = "expire"] /\ Undecided /\ Decision("reject")
        /\ UNCHANGED <<asked, grants, req, attempt, rejected, overtaken, opc, wout>>
    BY <2>1 DEF Expire, WGoto, task, resumes
  <2>3. decisions' = [decisions EXCEPT ![req] = @ \cup {"reject"}] /\ req \in Reqs
    BY <2>2 DEF Decision, Undecided, KInv, CInv, AInv, Typed
  <2>4. Answering'
    BY <2>2, <2>3 DEF KInv, CInv, AInv, Typed, Answering
  <2>5. QED
    BY <2>2, <2>4, DecisionKept
<1>2. CASE \E o \in Operators, d \in {"approve", "reject"} : Decide(o, d)
  <2>1. PICK o \in Operators, d \in {"approve", "reject"} : Decide(o, d)
    BY <1>2
  <2>2. /\ opc' = [opc EXCEPT ![o] = d] /\ Undecided /\ Decision(d)
        /\ UNCHANGED <<asked, grants, req, attempt, rejected, overtaken, wpc, wout>>
    BY <2>1 DEF Decide, task, worker, resumes
  <2>3. decisions' = [decisions EXCEPT ![req] = @ \cup {d}] /\ req \in Reqs
    BY <2>2 DEF Decision, Undecided, KInv, CInv, AInv, Typed
  <2>4. Answering'
    BY <2>2, <2>3, NoneDistinct DEF KInv, CInv, AInv, Typed, Answering
  <2>5. QED
    BY <2>2, <2>4, DecisionKept
<1>3. CASE \E o \in Operators : Decided(o) \/ DecideFails(o)
  <2>1. PICK o \in Operators : Decided(o) \/ DecideFails(o)
    BY <1>3
  <2>2. /\ opc' = [opc EXCEPT ![o] = "idle"]
        /\ UNCHANGED <<asked, decisions, grants, req, attempt, overtaken, wpc, wout>>
    BY <2>1 DEF Decided, DecideFails, task, checkpoint, history, worker, resumes
  <2>3. CASE rejected' = rejected
    <3>1. \A p \in Operators : opc'[p] = "reject" => opc[p] = "reject"
      BY <2>2 DEF KInv, CInv, AInv, Typed
    <3>2. Answering'
      BY <2>2, <2>3, <3>1 DEF KInv, Answering
    <3>3. QED
      BY <2>2, <2>3, <3>2, StepsAside
  <2>4. CASE rejected' = rejected \cup {attempt} /\ opc[o] = "reject"
    <3>1. req \in Reqs /\ req \in asked /\ grants[req] = 0 /\ "reject" \in decisions[req]
      BY <2>4 DEF KInv, CInv, AInv, Typed, Past, Answering
    <3>2. \A w \in Workers : ~(wpc[w] \in {"retire", "retire_request"} /\ wout[w] = "approved")
      BY <3>1 DEF KInv, CInv, AInv, Own, Consumed, Asking, Leasing
    <3>3. Answering'
      BY <2>2, <2>4, <3>2 DEF KInv, CInv, AInv, Typed, Answering
    <3>4. Phases[req] = "rejected"
      BY <3>1 DEF Phases, Phase
    <3>5. Approval!Bar
      BY <2>2, <2>4, <3>1, <3>4, SamePhases, NoneDistinct DEF Approval!Bar, Phases
    <3>6. QED
      BY <3>3, <3>5 DEF Approval!PNext, Kept
  <2>5. QED
    BY <2>1, <2>3, <2>4 DEF Decided, DecideFails, history
<1>4. QED
  BY <1>1, <1>2, <1>3

\* Another attempt has its turn where no request is open, or after one was overtaken.
LEMMA TurnTaken ==
    ASSUME KInv', req = None \/ overtaken,
           UNCHANGED <<asked, decisions, grants, req, rejected, overtaken>>
    PROVE  Kept
<1>1. attempt' \in Attempts
  BY DEF KInv, CInv, Recorded
<1>2. Approval!Turn
  BY <1>1, SamePhases DEF Approval!Turn, Phases
<1>3. QED
  BY <1>2 DEF Approval!PNext, Kept

\* A resume clears what is open before it gives another attempt its turn.  What undoes a
\* failed start either replaces an attempt that nobody asked in, or overtakes it.
LEMMA KResumes ==
    ASSUME KInv, KInv', NEW p \in Resumers, Resume(p)
    PROVE  Kept
<1> USE DEF task, checkpoint, history, RGoto, ResumeEnds
<1>1. CASE ResumeRetire(p) \/ ResumeRetireRequest(p)
  <2>1. UNCHANGED <<asked, decisions, grants, attempt, rejected>>
    BY <1>1 DEF ResumeRetire, ResumeRetireRequest
  <2>2. CASE req' = None /\ overtaken' = FALSE
    <3>1. Approval!Clear
      BY <2>1, <2>2, SamePhases DEF Approval!Clear, Phases
    <3>2. QED
      BY <3>1 DEF Approval!PNext, Kept
  <2>3. CASE UNCHANGED <<req, overtaken>>
    BY <2>1, <2>3, StepsAside
  <2>4. QED
    BY <1>1, <2>2, <2>3 DEF ResumeRetire, ResumeRetireRequest
<1>2. CASE Undo(p) /\ rpc[p] = "undo_state"
  <2>1. UNCHANGED <<asked, decisions, grants, req, attempt, rejected>>
    BY <1>2 DEF Undo
  <2>2. CASE overtaken' = TRUE
    <3>1. Approval!Overtake
      BY <2>1, <2>2, SamePhases DEF Approval!Overtake, Phases
    <3>2. QED
      BY <3>1 DEF Approval!PNext, Kept
  <2>3. CASE UNCHANGED overtaken
    BY <2>1, <2>3, StepsAside
  <2>4. QED
    BY <1>2, <2>2, <2>3 DEF Undo
<1>3. CASE attempt' = attempt /\ UNCHANGED <<asked, decisions, grants, req, rejected, overtaken>>
  BY <1>3, StepsAside
<1>4. CASE attempt' # attempt /\ UNCHANGED <<asked, decisions, grants, req, rejected, overtaken>>
  <2>1. CASE rpc[p] \in {"save_attempt", "recover_attempt"}
    BY <1>4, <2>1, TurnTaken DEF KInv, CInv, Timely, Settled, Vacant
  <2>2. CASE rpc[p] = "undo_attempt"
    <3>1. attempt' = rold[p]
      BY <1>4, <2>2 DEF Resume, ResumeBegin, Recover, ResumeLease, ResumeRetire, ResumeRetireRequest,
                        ResumeJournal, ResumeSave, SaveFails, StartFails, UndoLock, Undo,
                        ResumeAcknowledged, ResumeStops
    <3>2. overtaken \/ attempt \notin intent
      BY <1>4, <2>2, <3>1 DEF KInv, CInv, Remembers
    <3>3. QED
      BY <1>4, <3>2, TurnTaken DEF KInv, CInv, Vacant
  <2>3. QED
    BY <1>4, <2>1, <2>2
       DEF Resume, ResumeBegin, Recover, ResumeLease, ResumeRetire, ResumeRetireRequest, ResumeJournal,
           ResumeSave, SaveFails, StartFails, UndoLock, Undo, ResumeAcknowledged, ResumeStops
<1>5. QED
  BY <1>1, <1>2, <1>3, <1>4
     DEF Resume, ResumeBegin, Recover, ResumeLease, ResumeJournal, ResumeSave, SaveFails, StartFails,
         UndoLock, Undo, ResumeAcknowledged, ResumeStops

LEMMA KResuming ==
    ASSUME KInv, CInv', NEW p \in Resumers, Resume(p)
    PROVE  Answering'
<1>1. UNCHANGED <<opc, wpc, wout, wjob, wreq, ctx, decisions, rejected>>
  BY DEF Resume, ResumeBegin, Recover, ResumeLease, ResumeRetire, ResumeRetireRequest, ResumeJournal,
         ResumeSave, SaveFails, StartFails, UndoLock, Undo, ResumeAcknowledged, ResumeStops,
         task, jobs, worker, history
<1>2. \A o \in Operators : opc[o] # "idle" => req' = req
  BY NoneDistinct, ProcessesDistinct
     DEF KInv, CInv, AInv, Locked, Resume, ResumeBegin, Recover, ResumeLease, ResumeRetire,
         ResumeRetireRequest, ResumeJournal, ResumeSave, SaveFails, StartFails, UndoLock, Undo,
         ResumeAcknowledged, ResumeStops, checkpoint
<1>3. \A w \in Workers : wpc[w] \in Asking => req' = req
  BY <1>1 DEF KInv, CInv, AInv, Own
<1>4. ASSUME ~overtaken', NEW w \in Workers, wpc[w] \in Asking PROVE ~overtaken /\ attempt' = attempt
  <2>1. rpc[p] \notin {"retire", "retire_request"}
    BY <1>4, ProcessesDistinct DEF KInv, CInv, AInv, Leased, Leasing, Asking, ResumeLeasing
  <2>2. ~overtaken
    BY <1>4, <2>1 DEF Resume, ResumeBegin, Recover, ResumeLease, ResumeRetire, ResumeRetireRequest,
         ResumeJournal, ResumeSave, SaveFails, StartFails, UndoLock, Undo, ResumeAcknowledged, ResumeStops
  <2>3. QED
    BY <1>1, <1>4, <2>2 DEF KInv, CInv, Timely, Current
<1>5. Answering'
  BY <1>1, <1>2, <1>3, <1>4 DEF KInv, Answering, Asking, Leasing
<1>6. QED
  BY <1>5

LEMMA KInductive == KInv /\ [Next]_vars => KInv' /\ Kept
<1> SUFFICES ASSUME KInv, [Next]_vars PROVE KInv' /\ Kept
  OBVIOUS
<1>1. CInv'
  BY CInductive DEF KInv
<1>2. CASE UNCHANGED vars
  <2>1. Answering'
    BY <1>2 DEF vars, task, checkpoint, worker, history, resumes, KInv, Answering
  <2>2. Kept
    BY <1>2, StepsAside DEF vars, task, checkpoint, history, resumes
  <2>3. QED
    BY <1>1, <2>1, <2>2 DEF KInv
<1>3. CASE \E p \in Resumers : Resume(p)
  <2>1. PICK p \in Resumers : Resume(p)
    BY <1>3
  <2>2. KInv'
    BY <1>1, <2>1, KResuming DEF KInv
  <2>3. QED
    BY <2>1, <2>2, KResumes
<1>4. CASE Next /\ ~\E p \in Resumers : Resume(p)
  BY <1>1, <1>4, KBystanders, KAsks, KWaits, KRetired, KLeaves, KDecides DEF Next, WorkerWork, KInv
<1>5. QED
  BY <1>2, <1>3, <1>4

\* Whatever workers, operators, supervisors and resumes do, together they keep the
\* promise of an approval.
THEOREM Refinement == Spec => ApprovalKept
<1>1. Init => Approval!PInit
  BY AttemptBound DEF Init, Approval!PInit, Phase, Attempts
<1>2. KInv /\ [Next]_vars => KInv' /\ [Approval!PNext]_(Approval!pvars)
  BY KInductive DEF Kept, Phases, Approval!pvars
<1>3. QED
  BY KInitially, <1>1, <1>2, PTL DEF Spec, ApprovalKept, Approval!PSpec
=================================================================================
