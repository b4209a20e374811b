---------------------------- MODULE TaskTreeProofs ----------------------------
(***************************************************************************)
(* Theorems about TaskTree, for every number of tasks, requests and        *)
(* attempts, with lost supervisors and failing writes.  The argument for   *)
(* DispatchedOnce: a request is bound to one attempt, whose claim stands   *)
(* before anything is dispatched for it.  The argument for                 *)
(* SubtreeStaysDown: launch.lock is held from the last look at the parent  *)
(* to the spawn, and a cancellation writes under it.  The argument for     *)
(* SuccessMeansJoined: an attempt's children are recorded only while a     *)
(* thread of its supervisor waits for their launchers, and the supervisor  *)
(* joins the threads before it looks at the children.  The argument for    *)
(* StopReaches: what a cancellation selects and marks is closed under the  *)
(* relation of a task to its recorded children, and no child of a marked   *)
(* attempt is recorded any more.                                           *)
(***************************************************************************)
EXTENDS TaskTree, FiniteSetTheorems, TLAPS

SupLabels == {"none", "boot", "owned", "admitted", "look", "dispatch", "select", "mark",
              "drain", "join", "reconcile", "publish", "error", "done", "lost"}
KidLabels == {"none", "spawned", "admitted", "half", "recorded", "starting", "ended"}
Claimed == {"none", "refused", "dispatching"}

\* Kept folded where no attempt is added, so that no leaf needs arithmetic.
HasNext(a) == a < MaxAttempt

\* The parts of TypeOK the arguments need.
Typed ==
    /\ att \in [Tasks -> Attempts]
    /\ env \in [Kids -> [parent : Tasks, patt : Attempts, req : Reqs] \cup {None}]
    /\ req \in [Reqs -> [task : Tasks, att : Attempts] \cup {None}]
    /\ claim \in [Reqs -> [Attempts -> Claimed]]
    /\ cur \in [Tasks -> Reqs \cup {None}]
    /\ spc \in [Tasks -> SupLabels]
    /\ lpc \in [Kids -> KidLabels]
    /\ worker \in [Tasks -> {"none", "alive", "exited"}]
    /\ rpc = "save" => HasNext(att[Root])

\* A dispatching claim is of the attempt its request is bound to.
Bound ==
    \A r \in Reqs, a \in Attempts :
        claim[r][a] = "dispatching" => req[r] # None /\ req[r].att = a

\* The request is consumed: the attempt it is bound to has a dispatching claim.
Consumed(r) == r \in Reqs /\ req[r] # None /\ claim[r][req[r].att] = "dispatching"

Accounted == \A c \in Kids : env[c] # None => Consumed(env[c].req)

\* Between claim and dispatch the request is consumed and has no child yet.
Held ==
    \A t \in Tasks :
        /\ spc[t] = "dispatch" => cur[t] # None
        /\ cur[t] # None =>
             /\ Consumed(cur[t]) /\ req[cur[t]].task = t
             /\ \A c \in Kids : env[c] # None => env[c].req # cur[t]

Apart == \A c, d \in Kids : c # d /\ env[c] # None /\ env[d] # None => env[c].req # env[d].req

DInv == Typed /\ Bound /\ Accounted /\ Held /\ Apart

-----------------------------------------------------------------------------
(* What the steps leave alone, so that the proofs below are about the      *)
(* steps that matter.                                                      *)

\* A supervisor may drop the request it holds, and nothing else happens to the
\* mailbox or to the children.
Quiet ==
    /\ UNCHANGED <<req, claim, env>>
    /\ \A t \in Tasks : /\ cur'[t] \in {cur[t], None}
                        /\ spc'[t] = "dispatch" => spc[t] = "dispatch" /\ cur'[t] = cur[t]

\* The steps of the supervisor of t that neither claim nor dispatch nor mark, and
\* the end of its worker.
SupStep(t) ==
    \/ OwnTask(t) \/ AdmitSpawn(t) \/ SpawnRefused(t) \/ Spawn(t) \/ WorkerExits(t)
    \/ LookStops(t) \/ CloseAdmission(t) \/ LateBoundary(t) \/ DispatchFails(t)
    \/ StopSelect(t) \/ StopFails(t) \/ StopMarked(t) \/ KillWorker(t)
    \/ Join(t) \/ Reconcile(t) \/ ReconcileFails(t) \/ Publish(t) \/ PublishError(t)
    \/ IOFails(t) \/ SupervisorLost(t)

LEMMA Initially == Init => DInv
  BY TreeBounds DEF Init, DInv, Typed, Bound, Consumed, Accounted, Held, Apart, Attempts,
     SupLabels, KidLabels, Claimed, Tasks

LEMMA QuietSup ==
    ASSUME Typed, NEW t \in Tasks,
           SupStep(t)
    PROVE  Typed' /\ Quiet
<1> USE DEF SAt, SGoto, Typed, Quiet, SupLabels, dirs, mailbox, locks, sups, kidProcs, hosts
<1>1. CASE OwnTask(t) \/ AdmitSpawn(t) \/ SpawnRefused(t) \/ Spawn(t) \/ WorkerExits(t)
  BY <1>1 DEF OwnTask, AdmitSpawn, SpawnRefused, Spawn, WorkerExits
<1>2. CASE LookStops(t) \/ CloseAdmission(t) \/ LateBoundary(t) \/ DispatchFails(t)
  BY <1>2 DEF LookStops, CloseAdmission, LateBoundary, DispatchFails
<1>3. CASE StopSelect(t) \/ StopFails(t) \/ StopMarked(t) \/ KillWorker(t)
  BY <1>3 DEF StopSelect, TreeSelect, StopFails, StopMarked, KillWorker
<1>4. CASE Join(t) \/ Reconcile(t) \/ ReconcileFails(t)
  BY <1>4 DEF Join, Reconcile, ReconcileFails
<1>5. CASE Publish(t) \/ PublishError(t) \/ IOFails(t) \/ SupervisorLost(t)
  BY <1>5 DEF Publish, PublishError, IOFails, SupervisorLost, Exits
<1>6. QED
  BY <1>1, <1>2, <1>3, <1>4, <1>5 DEF SupStep

\* Every step, by the groups the lemmas below are about.
LEMMA StepGroups ==
    ASSUME [Next]_vars
    PROVE  \/ \E t \in Tasks : SupStep(t)
           \/ \E t \in Tasks, r \in Reqs : Submit(t, r)
           \/ \E t \in Tasks, r \in Reqs : Refuse(t, r)
           \/ \E t \in Tasks, r \in Reqs : Claim(t, r)
           \/ \E t \in Tasks, c \in Kids : Dispatch(t, c)
           \/ \E x \in Tasks \X Attempts : CancelMark(x) \/ \E t \in Tasks : StopMark(t, x)
           \/ \E c \in Kids : LauncherWork(c) \/ LaunchFails(c) \/ ThreadWork(c)
           \/ \E t \in Tasks : CancelSelect(t)
           \/ CancelFails \/ CancelDone \/ CancelLost
           \/ ResumeBegin \/ ResumeSave \/ ResumeStart
           \/ UNCHANGED vars
  BY DEF Next, SupWork, HostWork, SupStep

LEMMA QuietMark ==
    ASSUME Typed, NEW x \in Tasks \X Attempts,
           CancelMark(x) \/ \E t \in Tasks : StopMark(t, x)
    PROVE  Typed' /\ Quiet
  BY DEF CancelMark, StopMark, TreeMark, Typed, Quiet, mailbox, sups, kidProcs, hosts

LEMMA QuietLauncher ==
    ASSUME Typed, NEW c \in Kids, LauncherWork(c) \/ LaunchFails(c) \/ ThreadWork(c)
    PROVE  Typed' /\ Quiet
<1> USE DEF LAt, LGoto, SGoto, Typed, Quiet, SupLabels, KidLabels, Tasks,
            dirs, mailbox, locks, sups, kidProcs, hosts
<1>1. CASE AdmitLaunch(c) \/ LaunchRefused(c) \/ LaunchFails(c) \/ SaveTask(c) \/ SaveSpec(c)
  BY <1>1 DEF AdmitLaunch, LaunchRefused, LaunchFails, SaveTask, SaveSpec
<1>2. CASE StartKid(c) \/ Acknowledge(c) \/ KillLauncher(c) \/ Answer(c)
  BY <1>2 DEF StartKid, Acknowledge, KillLauncher, Answer
<1>3. QED
  BY <1>1, <1>2 DEF LauncherWork, ThreadWork

LEMMA QuietHost ==
    ASSUME Typed,
           \/ \E t \in Tasks : CancelSelect(t)
           \/ CancelFails \/ CancelDone \/ CancelLost
           \/ ResumeBegin \/ ResumeSave \/ ResumeStart
    PROVE  Typed' /\ Quiet
<1> USE TreeBounds DEF Typed, Quiet, SupLabels, Tasks, Attempts, SGoto,
        dirs, mailbox, locks, sups, kidProcs, hosts
<1>1. CASE (\E t \in Tasks : CancelSelect(t)) \/ CancelFails \/ CancelDone \/ CancelLost
  BY <1>1 DEF CancelSelect, TreeSelect, CancelFails, CancelDone, CancelLost
<1>2. CASE ResumeBegin
  BY <1>2 DEF ResumeBegin, HasNext
<1>3. CASE ResumeSave
  BY <1>3 DEF ResumeSave, HasNext
<1>4. CASE ResumeStart
  BY <1>4 DEF ResumeStart
<1>5. QED
  BY <1>1, <1>2, <1>3, <1>4

-----------------------------------------------------------------------------
(* A request starts at most one child.                                     *)

LEMMA QuietKeeps ==
    ASSUME DInv, Typed', Quiet
    PROVE  DInv'
<1>1. Bound' /\ Accounted' /\ Apart'
  BY DEF DInv, Quiet, Bound, Accounted, Consumed, Apart
<1>2. Held'
  BY DEF DInv, Quiet, Held, Consumed
<1>3. QED
  BY <1>1, <1>2 DEF DInv

\* A new request has no claim, so nothing that was known is about it.
LEMMA SubmitKeeps ==
    ASSUME DInv, NEW t \in Tasks, NEW r \in Reqs, Submit(t, r)
    PROVE  DInv'
<1> USE DEF DInv
<1>1. /\ req[r] = None /\ req' = [req EXCEPT ![r] = [task |-> t, att |-> att[t]]]
      /\ UNCHANGED <<att, env, claim, cur, spc, lpc, worker, rpc>>
  BY DEF Submit, dirs, sups, kidProcs, hosts
<1>2. Typed'
  BY <1>1 DEF Typed
<1>3. \A q \in Reqs : q # r => req'[q] = req[q]
  BY <1>1 DEF Typed
<1>4. ~Consumed(r) /\ \A a \in Attempts : claim[r][a] # "dispatching"
  BY <1>1 DEF Bound, Consumed
<1>5. \A q : Consumed(q) => q # r /\ Consumed(q)'
  BY <1>1, <1>3, <1>4 DEF Consumed
<1>6. Bound'
  BY <1>1, <1>3, <1>4 DEF Bound
<1>7. Accounted' /\ Apart'
  BY <1>1, <1>5 DEF Accounted, Apart
<1>8. Held'
  BY <1>1, <1>3, <1>5 DEF Held, Consumed
<1>9. QED
  BY <1>2, <1>6, <1>7, <1>8

LEMMA RefuseKeeps ==
    ASSUME DInv, NEW t \in Tasks, NEW r \in Reqs, Refuse(t, r)
    PROVE  DInv'
<1> USE DEF DInv
<1>1. /\ claim[r][att[t]] = "none"
      /\ claim' = [claim EXCEPT ![r][att[t]] = "refused"]
      /\ UNCHANGED <<att, env, req, cur, spc, lpc, worker, rpc>>
  BY DEF Refuse, Unclaimed, dirs, sups, kidProcs, hosts
<1>2. \A q \in Reqs, a \in Attempts : claim'[q][a] = "dispatching" <=> claim[q][a] = "dispatching"
  BY <1>1 DEF Typed
<1>3. Typed'
  BY <1>1 DEF Typed, Claimed
<1>4. Bound'
  BY <1>1, <1>2 DEF Bound
<1>5. \A q \in Reqs : Consumed(q) => Consumed(q)'
  <2> SUFFICES ASSUME NEW q \in Reqs, Consumed(q) PROVE Consumed(q)'
    OBVIOUS
  <2>1. q # r \/ req[q].att # att[t]
    BY <1>1 DEF Consumed
  <2>2. QED
    BY <1>1, <2>1 DEF Consumed, Typed
<1>6. Accounted' /\ Apart' /\ Held'
  BY <1>1, <1>5 DEF Accounted, Apart, Held, Consumed
<1>7. QED
  BY <1>3, <1>4, <1>6

\* The claim is of the attempt the request is bound to, and was not there before:
\* so no child carries this request, and no other broker holds it.
LEMMA ClaimKeeps ==
    ASSUME DInv, NEW t \in Tasks, NEW r \in Reqs, Claim(t, r)
    PROVE  DInv'
<1> USE DEF DInv
<1>1. /\ req[r] # None /\ req[r].task = t /\ req[r].att = att[t] /\ claim[r][att[t]] = "none"
      /\ claim' = [claim EXCEPT ![r][att[t]] = "dispatching"]
      /\ cur' = [cur EXCEPT ![t] = r] /\ spc' = [spc EXCEPT ![t] = "dispatch"]
      /\ UNCHANGED <<att, env, req, lpc, worker, rpc>>
  BY DEF Claim, Unclaimed, SGoto, dirs, kidProcs, hosts
<1>2. Typed'
  BY <1>1 DEF Typed, Claimed, SupLabels
<1>3. \A q \in Reqs, a \in Attempts :
        claim'[q][a] = "dispatching" <=> claim[q][a] = "dispatching" \/ (q = r /\ a = att[t])
  BY <1>1 DEF Typed
<1>4. Bound'
  BY <1>1, <1>3 DEF Bound
<1>5. ~Consumed(r) /\ Consumed(r)'
  BY <1>1 DEF Consumed, Typed
<1>6. \A q \in Reqs : Consumed(q) => Consumed(q)'
  BY <1>1, <1>5 DEF Consumed, Typed
<1>7. Accounted' /\ Apart'
  BY <1>1, <1>6 DEF Accounted, Apart, Consumed
<1>8. Held'
  <2>1. \A c \in Kids : env[c] # None => env[c].req # r
    BY <1>5 DEF Accounted
  <2>2. ASSUME NEW u \in Tasks
        PROVE  /\ spc'[u] = "dispatch" => cur'[u] # None
               /\ cur'[u] # None => /\ Consumed(cur[u])' /\ req'[cur'[u]].task = u
                                    /\ \A c \in Kids : env'[c] # None => env'[c].req # cur'[u]
    <3>1. CASE u = t
      BY <1>1, <1>5, <2>1, <3>1, TreeNames DEF Typed, Consumed
    <3>2. CASE u # t
      BY <1>1, <1>6, <3>2 DEF Typed, Held, Consumed
    <3>3. QED
      BY <3>1, <3>2
  <2>3. QED
    BY <2>2 DEF Held
<1>9. QED
  BY <1>2, <1>4, <1>7, <1>8

\* The new child carries the request its broker held, which no other broker holds:
\* a request is of one task.
LEMMA DispatchKeeps ==
    ASSUME DInv, NEW t \in Tasks, NEW c \in Kids, Dispatch(t, c)
    PROVE  DInv'
<1> USE DEF DInv
<1>1. /\ spc[t] = "dispatch"
      /\ env' = [env EXCEPT ![c] = [parent |-> t, patt |-> att[t], req |-> cur[t]]]
      /\ cur' = [cur EXCEPT ![t] = None] /\ spc' = [spc EXCEPT ![t] = "look"]
      /\ lpc' = [lpc EXCEPT ![c] = "spawned"]
      /\ UNCHANGED <<att, req, claim, worker, rpc>>
  BY DEF Dispatch, SAt, SGoto, mailbox, hosts
<1>2. /\ cur[t] # None /\ Consumed(cur[t]) /\ cur[t] \in Reqs /\ req[cur[t]].task = t
      /\ \A d \in Kids : env[d] # None => env[d].req # cur[t]
  BY <1>1 DEF Held, Consumed
<1>3. Typed'
  BY <1>1, <1>2 DEF Typed, SupLabels, KidLabels
<1>4. Bound' /\ \A q : Consumed(q)' <=> Consumed(q)
  BY <1>1 DEF Bound, Consumed
<1>5. env'[c].req = cur[t] /\ \A d \in Kids : d # c => env'[d] = env[d]
  BY <1>1 DEF Typed
<1>6. Accounted' /\ Apart'
  BY <1>2, <1>4, <1>5 DEF Accounted, Apart
<1>7. Held'
  <2>1. \A u \in Tasks : u # t => cur'[u] = cur[u] /\ (cur[u] # None => cur[u] # cur[t])
    BY <1>1, <1>2 DEF Typed, Held
  <2>2. cur'[t] = None /\ spc'[t] # "dispatch" /\ \A u \in Tasks : u # t => spc'[u] = spc[u]
    BY <1>1 DEF Typed
  <2>3. QED
    BY <1>1, <1>4, <1>5, <2>1, <2>2 DEF Held, Consumed
<1>8. QED
  BY <1>3, <1>4, <1>6, <1>7

LEMMA DispatchInductive == DInv /\ [Next]_vars => DInv'
<1> SUFFICES ASSUME DInv, [Next]_vars PROVE DInv'
  OBVIOUS
<1>1. CASE \E t \in Tasks, r \in Reqs : Submit(t, r) \/ Refuse(t, r) \/ Claim(t, r)
  BY <1>1, SubmitKeeps, RefuseKeeps, ClaimKeeps
<1>2. CASE \E t \in Tasks, c \in Kids : Dispatch(t, c)
  BY <1>2, DispatchKeeps
<1>3. CASE UNCHANGED vars
  <2>1. Typed' /\ Quiet
    BY <1>3 DEF DInv, Typed, Quiet, vars, dirs, mailbox, sups, kidProcs, hosts
  <2>2. QED
    BY <2>1, QuietKeeps
<1>4. CASE ~(UNCHANGED vars)
  BY <1>1, <1>2, <1>4, StepGroups, QuietSup, QuietMark, QuietLauncher, QuietHost, QuietKeeps
     DEF DInv
<1>5. QED
  BY <1>3, <1>4

\* No request starts two children: not after a supervisor was lost between claim
\* and dispatch, and not when a resumed root scans its old mailbox again.
THEOREM RequestsDispatchedOnce == Spec => []DispatchedOnce
<1>1. DInv => DispatchedOnce
  BY DEF DInv, Bound, Apart, DispatchedOnce
<1>2. QED
  BY Initially, DispatchInductive, <1>1, PTL DEF Spec

-----------------------------------------------------------------------------
(* Nothing is spawned below a cancelled attempt.                           *)

\* Who is inside launch.lock.
Locked ==
    /\ \A t \in Tasks : spc[t] \in {"admitted", "mark"} => admission = t
    /\ hpc = "mark" => admission = Host
    /\ \A c \in Kids : lpc[c] \in {"admitted", "half"} => admission = c

\* A child has no supervisor before its launcher starts one.
Unstarted ==
    \A c \in Kids : lpc[c] \in {"none", "spawned", "admitted", "half"} => spc[c] = "none"

\* A mark is an admission-closed.json and, for a child, a cancel.json that stays.
Marks ==
    /\ marked \subseteq closed
    /\ \A c \in Kids, a \in Attempts : <<c, a>> \in marked => c \in cancel

Clear ==
    \A c \in Kids : spc[c] = "admitted" =>
        <<c, att[c]>> \notin marked /\ Above(c) \notin marked

LInv == Locked /\ Unstarted /\ Marks /\ Clear

LEMMA LInitially == Init => LInv
  BY TreeNames DEF Init, LInv, Locked, Unstarted, Marks, Clear, Tasks

\* The steps of the supervisor of t.  One that enters the lock finds it free; one
\* that leaves it, holds it.
LEMMA SupLocks ==
    ASSUME Typed, LInv, NEW t \in Tasks,
           SupStep(t)
    PROVE  Locked' /\ Unstarted'
<1> USE TreeNames DEF SAt, SGoto, Typed, LInv, Locked, Unstarted, Tasks,
                      dirs, mailbox, locks, sups, kidProcs, hosts
<1>1. CASE OwnTask(t) \/ AdmitSpawn(t) \/ SpawnRefused(t) \/ Spawn(t) \/ WorkerExits(t)
  BY <1>1 DEF OwnTask, AdmitSpawn, SpawnRefused, Spawn, WorkerExits
<1>2. CASE LookStops(t) \/ CloseAdmission(t) \/ LateBoundary(t) \/ DispatchFails(t)
  BY <1>2 DEF LookStops, CloseAdmission, LateBoundary, DispatchFails
<1>3. CASE StopSelect(t) \/ StopFails(t) \/ StopMarked(t) \/ KillWorker(t)
  BY <1>3 DEF StopSelect, TreeSelect, StopFails, StopMarked, KillWorker
<1>4. CASE Join(t) \/ Reconcile(t) \/ ReconcileFails(t)
  BY <1>4 DEF Join, Reconcile, ReconcileFails
<1>5. CASE Publish(t) \/ PublishError(t)
  BY <1>5 DEF Publish, PublishError, Exits
<1>6. CASE IOFails(t)
  BY <1>6 DEF IOFails
<1>7. CASE SupervisorLost(t)
  BY <1>7 DEF SupervisorLost, Exits
<1>8. QED
  BY <1>1, <1>2, <1>3, <1>4, <1>5, <1>6, <1>7 DEF SupStep

\* None of these steps marks an attempt, and the only one that comes out of the
\* last look has seen that neither the child nor its parent is marked.
LEMMA SupMarks ==
    ASSUME Typed, LInv, NEW t \in Tasks,
           SupStep(t)
    PROVE  Marks' /\ Clear'
<1> USE DEF SAt, SGoto, Typed, LInv, Marks, Clear, Above, Tasks,
            dirs, mailbox, locks, sups, kidProcs, hosts
<1>1. CASE AdmitSpawn(t)
  <2>1. /\ t \notin cancel /\ ParentOpen(t) /\ spc' = [spc EXCEPT ![t] = "admitted"]
        /\ UNCHANGED <<att, env, cancel, closed, marked>>
    BY <1>1 DEF AdmitSpawn
  <2>2. t \in Kids => <<t, att[t]>> \notin marked
    BY <2>1
  <2>3. t \in Kids => Above(t) \notin marked
    BY <2>1, TreeNames DEF ParentOpen
  <2>4. QED
    BY <2>1, <2>2, <2>3
<1>2. CASE OwnTask(t) \/ SpawnRefused(t) \/ Spawn(t) \/ WorkerExits(t)
  BY <1>2 DEF OwnTask, SpawnRefused, Spawn, WorkerExits
<1>3. CASE LookStops(t) \/ CloseAdmission(t) \/ LateBoundary(t) \/ DispatchFails(t)
  BY <1>3 DEF LookStops, CloseAdmission, LateBoundary, DispatchFails
<1>4. CASE StopSelect(t) \/ StopFails(t) \/ StopMarked(t) \/ KillWorker(t)
  BY <1>4 DEF StopSelect, TreeSelect, StopFails, StopMarked, KillWorker
<1>5. CASE Join(t) \/ Reconcile(t) \/ ReconcileFails(t)
  BY <1>5 DEF Join, Reconcile, ReconcileFails
<1>6. CASE Publish(t) \/ PublishError(t) \/ IOFails(t) \/ SupervisorLost(t)
  BY <1>6 DEF Publish, PublishError, IOFails, SupervisorLost, Exits
<1>7. QED
  BY <1>1, <1>2, <1>3, <1>4, <1>5, <1>6 DEF SupStep

\* The mailbox is no part of the argument.
LEMMA BrokerSteps ==
    ASSUME Typed, LInv, NEW t \in Tasks,
           \/ \E r \in Reqs : Submit(t, r) \/ Refuse(t, r) \/ Claim(t, r)
           \/ \E c \in Kids : Dispatch(t, c)
    PROVE  LInv'
<1> USE DEF SAt, SGoto, Typed, LInv, Locked, Unstarted, Marks, Clear, Above, Tasks,
            dirs, mailbox, locks, sups, kidProcs, hosts
<1>1. CASE \E r \in Reqs : Submit(t, r) \/ Refuse(t, r) \/ Claim(t, r)
  BY <1>1 DEF Submit, Refuse, Claim, Unclaimed
<1>2. CASE \E c \in Kids : Dispatch(t, c)
  BY <1>2 DEF Dispatch
<1>3. QED
  BY <1>1, <1>2

\* Who marks is inside launch.lock, so no child is between its last look and its
\* spawn.
LEMMA MarkSteps ==
    ASSUME Typed, LInv, NEW x \in Tasks \X Attempts,
           CancelMark(x) \/ \E t \in Tasks : StopMark(t, x)
    PROVE  LInv'
<1> USE DEF LInv
<1>1. /\ closed' = closed \cup {x} /\ cancel' = cancel \cup {x[1]} /\ marked' = marked \cup {x}
      /\ UNCHANGED <<att, env, admission, spc, lpc, hpc>>
  BY DEF CancelMark, StopMark, TreeMark, mailbox, locks, sups, kidProcs, hosts
<1>2. \A c \in Kids : spc[c] # "admitted"
  BY TreeNames DEF CancelMark, StopMark, SAt, Locked, Tasks
<1>3. QED
  BY <1>1, <1>2 DEF Locked, Unstarted, Marks, Clear

LEMMA LauncherSteps ==
    ASSUME Typed, LInv, NEW c \in Kids, LauncherWork(c) \/ LaunchFails(c) \/ ThreadWork(c)
    PROVE  LInv'
<1> USE TreeNames DEF LAt, LGoto, SGoto, Typed, LInv, Locked, Unstarted, Marks, Clear, Above, Tasks,
            dirs, mailbox, locks, sups, kidProcs, hosts
<1>1. CASE AdmitLaunch(c) \/ LaunchRefused(c)
  BY <1>1 DEF AdmitLaunch, LaunchRefused, Admissible
<1>2. CASE LaunchFails(c) \/ SaveTask(c) \/ SaveSpec(c)
  BY <1>2 DEF LaunchFails, SaveTask, SaveSpec
<1>3. CASE StartKid(c) \/ Acknowledge(c)
  BY <1>3 DEF StartKid, Acknowledge
<1>4. CASE KillLauncher(c) \/ Answer(c)
  BY <1>4 DEF KillLauncher, Answer
<1>5. QED
  BY <1>1, <1>2, <1>3, <1>4 DEF LauncherWork, ThreadWork

LEMMA HostSteps ==
    ASSUME Typed, LInv,
           \/ \E t \in Tasks : CancelSelect(t)
           \/ CancelFails \/ CancelDone \/ CancelLost
           \/ ResumeBegin \/ ResumeSave \/ ResumeStart
    PROVE  LInv'
<1> USE TreeNames DEF SGoto, Typed, LInv, Locked, Unstarted, Marks, Clear, Above, Tasks,
            dirs, mailbox, locks, sups, kidProcs, hosts
<1>1. CASE (\E t \in Tasks : CancelSelect(t)) \/ CancelFails
  BY <1>1 DEF CancelSelect, TreeSelect, CancelFails
<1>2. CASE CancelDone \/ CancelLost
  BY <1>2 DEF CancelDone, CancelLost
<1>3. CASE ResumeBegin \/ ResumeSave \/ ResumeStart
  BY <1>3 DEF ResumeBegin, ResumeSave, ResumeStart
<1>4. QED
  BY <1>1, <1>2, <1>3

LEMMA LocksInductive == DInv /\ LInv /\ [Next]_vars => LInv'
<1> SUFFICES ASSUME DInv, LInv, [Next]_vars PROVE LInv'
  OBVIOUS
<1>1. CASE UNCHANGED vars
  BY <1>1 DEF LInv, Locked, Unstarted, Marks, Clear, Above, vars, dirs, locks, sups, kidProcs, hosts
<1>2. CASE ~(UNCHANGED vars)
  BY <1>2, StepGroups, SupLocks, SupMarks, BrokerSteps, MarkSteps, LauncherSteps, HostSteps
     DEF DInv, LInv
<1>3. QED
  BY <1>1, <1>2

\* Only Spawn makes a worker.
LEMMA OnlySpawn ==
    ASSUME Typed, Next, NEW c \in Kids, worker[c] = "none", worker'[c] = "alive"
    PROVE  spc[c] = "admitted"
<1> USE TreeNames DEF SAt, Typed, Tasks, sups
<1>1. ASSUME NEW t \in Tasks, Spawn(t) PROVE spc[c] = "admitted"
  BY <1>1 DEF Spawn
<1>2. ASSUME NEW t \in Tasks,
             \/ OwnTask(t) \/ AdmitSpawn(t) \/ SpawnRefused(t) \/ WorkerExits(t)
             \/ LookStops(t) \/ CloseAdmission(t) \/ LateBoundary(t) \/ DispatchFails(t)
      PROVE  FALSE
  BY <1>2 DEF OwnTask, AdmitSpawn, SpawnRefused, WorkerExits, LookStops, CloseAdmission,
              LateBoundary, DispatchFails
<1>3. ASSUME NEW t \in Tasks,
             \/ StopSelect(t) \/ StopFails(t) \/ StopMarked(t) \/ KillWorker(t) \/ Join(t)
             \/ Reconcile(t) \/ ReconcileFails(t) \/ Publish(t) \/ PublishError(t)
             \/ IOFails(t) \/ SupervisorLost(t)
      PROVE  FALSE
  BY <1>3 DEF StopSelect, StopFails, StopMarked, KillWorker, Join, Reconcile, ReconcileFails,
              Publish, PublishError, IOFails, SupervisorLost
<1>4. ASSUME NEW t \in Tasks,
             \/ \E r \in Reqs : Submit(t, r) \/ Refuse(t, r) \/ Claim(t, r)
             \/ \E d \in Kids : Dispatch(t, d)
      PROVE  FALSE
  BY <1>4 DEF Submit, Refuse, Claim, Dispatch
<1>5. ASSUME NEW x \in Tasks \X Attempts, CancelMark(x) \/ \E t \in Tasks : StopMark(t, x)
      PROVE  FALSE
  BY <1>5 DEF CancelMark, StopMark
<1>6. ASSUME NEW d \in Kids, LauncherWork(d) \/ LaunchFails(d) \/ ThreadWork(d)
      PROVE  FALSE
  BY <1>6 DEF LauncherWork, LaunchFails, ThreadWork, AdmitLaunch, LaunchRefused, SaveTask,
              SaveSpec, StartKid, Acknowledge, KillLauncher, Answer
<1>7. ASSUME \/ \E t \in Tasks : CancelSelect(t)
             \/ CancelFails \/ CancelDone \/ CancelLost
             \/ ResumeBegin \/ ResumeSave \/ ResumeStart
      PROVE  FALSE
  BY <1>7 DEF CancelSelect, CancelFails, CancelDone, CancelLost, ResumeBegin, ResumeSave,
              ResumeStart
<1>8. QED
  BY <1>1, <1>2, <1>3, <1>4, <1>5, <1>6, <1>7 DEF Next, SupWork, HostWork

\* Once a cancellation has reached an attempt, neither its worker nor that of any
\* child of it is spawned, whatever is lost, launched or resumed meanwhile.
THEOREM CancelledSubtreeStaysDown == Spec => []SubtreeStaysDown
<1>1. DInv /\ LInv /\ [Next]_vars =>
        [\A c \in Kids : worker[c] = "none" /\ worker'[c] = "alive" =>
           <<c, att[c]>> \notin marked /\ Above(c) \notin marked]_vars
  <2> SUFFICES ASSUME DInv, LInv, Next, NEW c \in Kids,
                      worker[c] = "none", worker'[c] = "alive"
               PROVE  <<c, att[c]>> \notin marked /\ Above(c) \notin marked
    OBVIOUS
  <2>1. spc[c] = "admitted"
    BY OnlySpawn DEF DInv
  <2>2. QED
    BY <2>1 DEF LInv, Clear
<1>2. QED
  BY Initially, LInitially, DispatchInductive, LocksInductive, <1>1, PTL DEF Spec, SubtreeStaysDown

-----------------------------------------------------------------------------
(* The life of children and attempts: what a parent knows of the children  *)
(* of its attempt, and that a success has joined them.                     *)

\* A supervisor that holds owner.lock and has not published.
Active2 == SupLabels \ {"none", "boot", "done", "lost"}

\* c is a child of attempt a of task t.
Below(c, t, a) == lpc[c] # "none" /\ env[c].parent = t /\ env[c].patt = a

\* The rest of TypeOK.
Stored ==
    /\ rec \in [Tasks -> {"none", "half", "full"}]
    /\ cancel \subseteq Tasks
    /\ closed \subseteq Tasks \X Attempts
    /\ marked \subseteq Tasks \X Attempts
    /\ result \in [Tasks -> [Attempts -> {None, "succeeded", "failed", "error"}]]
    /\ owner \in [Tasks -> {None, "supervisor", "resume"}]
    /\ admission \in Tasks \cup {Host, None}
    /\ stop \subseteq Tasks
    /\ out \in [Tasks -> {None, "succeeded", "failed"}]
    /\ thr \in [Kids -> {"none", "waiting", "done"}]
    /\ todo \in [Tasks \cup {Host} -> SUBSET (Tasks \X Attempts)]
    /\ hpc \in {"idle", "mark", "done", "failed", "lost"}
    /\ rpc \in {"idle", "save", "uncancel"}

\* Only the root has later attempts, and no child is of an attempt to come.
Numbered ==
    /\ \A c \in Kids : att[c] = 1
    /\ \A c \in Kids : lpc[c] # "none" =>
          env[c].parent \in Tasks /\ env[c].patt \in 1..att[env[c].parent]

\* A launcher exists from the dispatch on; it makes the record, then the supervisor.
Born ==
    \A c \in Kids :
        /\ lpc[c] = "none" => thr[c] = "none"
        /\ lpc[c] \in {"none", "spawned", "admitted"} => rec[c] = "none"
        /\ lpc[c] \in {"none", "spawned", "admitted", "half", "recorded"} => spc[c] = "none"

\* owner.lock is held until the result is there, or by a resume.
Owning ==
    /\ \A t \in Tasks : spc[t] \in Active2 => owner[t] = "supervisor" /\ Result(t) = None
    /\ rpc # "idle" => owner[Root] = "resume"

\* The children of the current attempt: there are none before its supervisor runs,
\* a launcher that runs has a thread waiting for it as long as the supervisor
\* lives, and none runs once the threads are joined.
Offspring ==
    \A t \in Tasks, c \in Kids : Below(c, t, att[t]) =>
        /\ spc[t] \notin {"none", "boot"}
        /\ ~(t = Root /\ rpc = "uncancel")
        /\ thr[c] # "waiting" /\ Running(c) => spc[t] \in {"done", "lost"}
        /\ spc[t] \in {"reconcile", "publish"} => lpc[c] = "ended"

Settled(t, a) ==
    \A c \in Kids : Below(c, t, a) =>
        lpc[c] = "ended" /\ (rec[c] # "none" => result[c][1] = "succeeded")

Succeeding ==
    \A t \in Tasks :
        /\ spc[t] = "publish" /\ out[t] = "succeeded" => Settled(t, att[t])
        /\ \A a \in Attempts : result[t][a] = "succeeded" => Settled(t, a)

LifeInv == Stored /\ Numbered /\ Born /\ Owning /\ Offspring /\ Succeeding

LEMMA LifeInitially == Init => LifeInv
<1> SUFFICES ASSUME Init PROVE LifeInv
  OBVIOUS
<1> USE TreeNames, TreeBounds DEF Init, Tasks, Attempts
<1>1. Stored
  BY DEF Stored
<1>2. Numbered /\ Born
  BY DEF Numbered, Born
<1>3. Owning
  BY DEF Owning, Active2, SupLabels
<1>4. Offspring /\ Succeeding
  BY DEF Offspring, Succeeding, Settled, Below
<1>5. QED
  BY <1>1, <1>2, <1>3, <1>4 DEF LifeInv

\* What a step of a supervisor may do.
SupStays(t) == spc'[t] = spc[t] /\ UNCHANGED <<owner, result, thr, out>>
SupOwns(t) ==
    /\ spc[t] = "boot" /\ Result(t) = None /\ owner[t] = None /\ spc'[t] = "owned"
    /\ owner' = [owner EXCEPT ![t] = "supervisor"] /\ UNCHANGED <<result, thr, out>>
SupYields(t) == spc[t] = "boot" /\ spc'[t] = "done" /\ UNCHANGED <<owner, result, thr, out>>
SupMoves(t) ==
    /\ spc[t] \in Active2 /\ spc'[t] \in Active2 \ {"dispatch", "reconcile", "publish"}
    /\ UNCHANGED <<owner, result, thr, out>>
SupJoins(t) ==
    /\ spc[t] = "join" /\ Pending(t) = {} /\ spc'[t] = "reconcile"
    /\ UNCHANGED <<owner, result, thr, out>>
SupDecides(t) ==
    /\ spc[t] = "reconcile" /\ spc'[t] = "publish"
    /\ out'[t] = "succeeded" => \A c \in KidsOf(t, att[t]) : Result(c) = "succeeded"
    /\ UNCHANGED <<owner, result, thr>>
SupEnds(t) ==
    /\ spc[t] \in Active2 /\ spc'[t] \in {"done", "lost"}
    /\ \/ result' = result
       \/ result' = [result EXCEPT ![t][att[t]] = "error"]
       \/ spc[t] = "publish" /\ result' = [result EXCEPT ![t][att[t]] = out[t]]
    /\ Exits(t) /\ UNCHANGED out

LEMMA SupFrame ==
    ASSUME Typed, Stored, NEW t \in Tasks, SupStep(t)
    PROVE  /\ Stored'
           /\ UNCHANGED <<rec, att, env, req, claim, lpc, rpc, hpc>>
           /\ \A u \in Tasks : u # t => spc'[u] = spc[u] /\ out'[u] = out[u]
           /\ \/ SupStays(t) \/ SupOwns(t) \/ SupYields(t) \/ SupMoves(t) \/ SupJoins(t)
              \/ SupDecides(t) \/ SupEnds(t)
<1> USE DEF SAt, SGoto, dirs, mailbox, locks, sups, kidProcs, hosts
<1> USE DEF Typed, Stored
<1>0. UNCHANGED <<rec, att, env, req, claim, lpc, rpc, hpc>>
  BY DEF SupStep, OwnTask, AdmitSpawn, SpawnRefused, Spawn, WorkerExits, LookStops, CloseAdmission,
     LateBoundary, DispatchFails, StopSelect, TreeSelect, StopFails, StopMarked, KillWorker, Join,
     Reconcile, ReconcileFails, Publish, PublishError, IOFails, SupervisorLost
<1>1. CASE OwnTask(t)
  BY <1>0, <1>1 DEF OwnTask, SupOwns, SupYields
<1>2. CASE WorkerExits(t) \/ KillWorker(t)
  BY <1>0, <1>2 DEF WorkerExits, KillWorker, SupStays
<1>3. CASE AdmitSpawn(t) \/ SpawnRefused(t) \/ Spawn(t)
  BY <1>0, <1>3 DEF AdmitSpawn, SpawnRefused, Spawn, SupMoves, Active2, SupLabels
<1>4. CASE LookStops(t) \/ CloseAdmission(t) \/ LateBoundary(t) \/ DispatchFails(t)
  BY <1>0, <1>4 DEF LookStops, CloseAdmission, LateBoundary, DispatchFails, SupMoves, Active2, SupLabels
<1>5. CASE StopSelect(t)
  <2>1. {<<x, att[x]>> : x \in Selected(t)} \in SUBSET (Tasks \X Attempts)
    BY DEF Selected
  <2>2. QED
    BY <1>0, <1>5, <2>1 DEF StopSelect, TreeSelect, SupMoves, Active2, SupLabels
<1>6. CASE StopFails(t) \/ StopMarked(t) \/ ReconcileFails(t)
  BY <1>0, <1>6 DEF StopFails, StopMarked, ReconcileFails, SupMoves, Active2, SupLabels
<1>7. CASE IOFails(t)
  BY <1>0, <1>7 DEF IOFails, SupMoves, Active2, SupLabels
<1>8. CASE Join(t)
  BY <1>0, <1>8 DEF Join, SupJoins
<1>9. CASE Reconcile(t)
  BY <1>0, <1>9 DEF Reconcile, SupDecides
<1>10. CASE Publish(t) \/ PublishError(t)
  <2>1. Exits(t) => owner' \in [Tasks -> {None, "supervisor", "resume"}]
                    /\ thr' \in [Kids -> {"none", "waiting", "done"}]
    BY DEF Exits
  <2>2. \A v \in {None, "succeeded", "failed", "error"} :
          [result EXCEPT ![t][att[t]] = v]
             \in [Tasks -> [Attempts -> {None, "succeeded", "failed", "error"}]]
    OBVIOUS
  <2>3. out[t] \in {None, "succeeded", "failed", "error"}
    OBVIOUS
  <2>4. /\ Exits(t) /\ spc' = [spc EXCEPT ![t] = "done"]
        /\ UNCHANGED <<cancel, closed, admission, stop, out, todo, marked, hpc, rpc>>
        /\ \/ spc[t] = "publish" /\ result' = [result EXCEPT ![t][att[t]] = out[t]]
           \/ spc[t] = "error" /\ result' = [result EXCEPT ![t][att[t]] = "error"]
    BY <1>10 DEF Publish, PublishError
  <2> DEFINE Answers == {None, "succeeded", "failed", "error"}
  <2>5. Stored'
    <3>1. PICK v \in Answers : result' = [result EXCEPT ![t][att[t]] = v]
      BY <2>3, <2>4
    <3>2. result' \in [Tasks -> [Attempts -> Answers]]
      BY <2>2, <3>1
    <3>3. /\ owner' \in [Tasks -> {None, "supervisor", "resume"}]
          /\ thr' \in [Kids -> {"none", "waiting", "done"}]
      BY <2>1, <2>4
    <3>4. QED
      BY <1>0, <2>4, <3>2, <3>3
  <2>6. SupEnds(t) /\ \A u \in Tasks : u # t => spc'[u] = spc[u] /\ out'[u] = out[u]
    BY <2>4 DEF SupEnds, Active2, SupLabels
  <2>7. QED
    BY <1>0, <2>5, <2>6
<1>11. CASE SupervisorLost(t)
  <2>1. Exits(t) => owner' \in [Tasks -> {None, "supervisor", "resume"}]
                    /\ thr' \in [Kids -> {"none", "waiting", "done"}]
    BY DEF Exits
  <2>2. QED
    BY <1>0, <1>11, <2>1 DEF SupervisorLost, SupEnds, Active2
<1>12. QED
  BY <1>1, <1>2, <1>3, <1>4, <1>5, <1>6, <1>7, <1>8, <1>9, <1>10, <1>11 DEF SupStep

\* A published success stays: nobody publishes twice.
LEMMA SuccessStays ==
    ASSUME Typed, LifeInv, NEW t \in Tasks, SupStep(t),
           NEW c \in Kids, result[c][1] = "succeeded"
    PROVE  result'[c][1] = "succeeded"
<1>1. result' = result \/ SupEnds(t)
  BY SupFrame DEF LifeInv, SupStays, SupOwns, SupYields, SupMoves, SupJoins, SupDecides
<1>2. CASE SupEnds(t)
  <2>1. Result(t) = None
    BY <1>2 DEF SupEnds, LifeInv, Owning
  <2>2. c # t
    BY <2>1, NoneApart DEF LifeInv, Numbered, Result, Stored
  <2>3. c \in Tasks
    BY DEF Tasks
  <2>4. QED
    BY <1>2, <2>2, <2>3 DEF SupEnds, LifeInv, Stored
<1>3. QED
  BY <1>1, <1>2

LEMMA SupLife ==
    ASSUME Typed, LifeInv, NEW t \in Tasks, SupStep(t)
    PROVE  LifeInv'
<1> USE DEF Typed
<1>1. /\ Stored' /\ UNCHANGED <<rec, att, env, req, claim, lpc, rpc, hpc>>
      /\ \A u \in Tasks : u # t => spc'[u] = spc[u] /\ out'[u] = out[u]
      /\ \/ SupStays(t) \/ SupOwns(t) \/ SupYields(t) \/ SupMoves(t) \/ SupJoins(t)
         \/ SupDecides(t) \/ SupEnds(t)
  BY SupFrame DEF LifeInv
<1>2. \A c \in Kids : c \in Tasks
  BY DEF Tasks
<1>3. \A c \in Kids : thr'[c] = thr[c] \/ (c \in Pending(t) /\ thr'[c] = "done" /\ SupEnds(t))
  BY <1>1 DEF SupStays, SupOwns, SupYields, SupMoves, SupJoins, SupDecides, SupEnds, Exits
<1>4. Numbered'
  BY <1>1 DEF LifeInv, Numbered
<1>5. Born'
  <2>1. \A c \in Kids : spc[c] = "none" => spc'[c] = "none"
    BY <1>1, <1>2 DEF SupStays, SupOwns, SupYields, SupMoves, SupJoins, SupDecides, SupEnds, Active2
  <2>2. \A c \in Kids : thr[c] = "none" => thr'[c] = "none"
    BY <1>3 DEF Pending
  <2>3. QED
    BY <1>1, <2>1, <2>2 DEF LifeInv, Born
<1>6. Owning'
  <2>1. \A u \in Tasks : u # t => owner'[u] = owner[u] /\ result'[u] = result[u]
    BY <1>1 DEF SupStays, SupOwns, SupYields, SupMoves, SupJoins, SupDecides, SupEnds, Exits,
                LifeInv, Stored
  <2>2. \A u \in Tasks : u # t /\ spc'[u] \in Active2 =>
            owner'[u] = "supervisor" /\ Result(u)' = None
    BY <1>1, <2>1 DEF Result, LifeInv, Owning
  <2>3. spc'[t] \in Active2 => owner'[t] = "supervisor" /\ Result(t)' = None
    BY <1>1 DEF SupStays, SupOwns, SupYields, SupMoves, SupJoins, SupDecides, SupEnds, Result,
                Active2, SupLabels, LifeInv, Owning, Stored
  <2>4. rpc # "idle" => owner'[Root] = "resume"
    <3>1. SupOwns(Root) => owner[Root] = None
      BY DEF SupOwns
    <3>2. SupEnds(Root) => owner[Root] = "supervisor"
      BY DEF SupEnds, LifeInv, Owning, Tasks
    <3>3. rpc # "idle" => owner[Root] = "resume" /\ owner[Root] # None
      BY NoneApart DEF LifeInv, Owning
    <3>4. QED
      BY <1>1, <2>1, <3>1, <3>2, <3>3
         DEF SupStays, SupYields, SupMoves, SupJoins, SupDecides, Tasks
  <2>5. QED
    BY <1>1, <2>2, <2>3, <2>4 DEF Owning
<1>7. Offspring'
  <2> SUFFICES ASSUME NEW u \in Tasks, NEW c \in Kids, Below(c, u, att[u])
               PROVE  /\ spc'[u] \notin {"none", "boot"}
                      /\ ~(u = Root /\ rpc = "uncancel")
                      /\ thr'[c] # "waiting" /\ Running(c) => spc'[u] \in {"done", "lost"}
                      /\ spc'[u] \in {"reconcile", "publish"} => lpc[c] = "ended"
    BY <1>1 DEF Offspring, Below, Running
  <2>1. /\ spc[u] \notin {"none", "boot"}
        /\ ~(u = Root /\ rpc = "uncancel")
        /\ thr[c] # "waiting" /\ Running(c) => spc[u] \in {"done", "lost"}
        /\ spc[u] \in {"reconcile", "publish"} => lpc[c] = "ended"
    BY DEF LifeInv, Offspring
  <2>2. CASE u # t
    BY <1>1, <1>3, <2>1, <2>2 DEF Pending, Below
  <2>3. CASE u = t /\ (SupStays(t) \/ SupMoves(t) \/ SupDecides(t) \/ SupEnds(t))
    BY <1>3, <2>1, <2>3 DEF SupStays, SupMoves, SupDecides, SupEnds, Active2
  <2>4. CASE u = t /\ SupJoins(t)
    <3>1. thr'[c] = thr[c] /\ thr[c] # "waiting"
      BY <2>4 DEF SupJoins, Pending, Below
    <3>2. lpc[c] # "none" /\ ~Running(c)
      BY <2>1, <2>4, <3>1 DEF SupJoins, Below, LifeInv, Born
    <3>3. lpc[c] = "ended"
      BY <3>2 DEF Running, KidLabels
    <3>4. QED
      BY <2>1, <2>4, <3>2, <3>3 DEF SupJoins
  <2>5. QED
    BY <1>1, <2>1, <2>2, <2>3, <2>4 DEF SupOwns, SupYields
<1>8. Succeeding'
  <2>1. \A u \in Tasks, a \in Attempts : Settled(u, a) => Settled(u, a)'
    BY <1>1, SuccessStays DEF Settled, Below
  <2>2. \A u \in Tasks, a \in Attempts :
            result'[u][a] = "succeeded" =>
                \/ result[u][a] = "succeeded"
                \/ u = t /\ a = att[t] /\ spc[t] = "publish" /\ out[t] = "succeeded"
    BY <1>1 DEF SupStays, SupOwns, SupYields, SupMoves, SupJoins, SupDecides, SupEnds,
                LifeInv, Stored
  <2>3. \A u \in Tasks, a \in Attempts : result'[u][a] = "succeeded" => Settled(u, a)'
    BY <2>1, <2>2 DEF LifeInv, Succeeding
  <2>4. SupDecides(t) /\ out'[t] = "succeeded" => Settled(t, att[t])
    <3> SUFFICES ASSUME SupDecides(t), out'[t] = "succeeded", NEW c \in Kids, Below(c, t, att[t])
                 PROVE  lpc[c] = "ended" /\ (rec[c] # "none" => result[c][1] = "succeeded")
      BY DEF Settled
    <3>1. lpc[c] = "ended"
      BY DEF SupDecides, LifeInv, Offspring
    <3>2. rec[c] # "none" => Result(c) = "succeeded"
      BY DEF SupDecides, KidsOf, Below
    <3>3. QED
      BY <3>1, <3>2 DEF Result, LifeInv, Numbered
  <2>5. \A u \in Tasks : spc'[u] = "publish" /\ out'[u] = "succeeded" => Settled(u, att[u])
    <3> SUFFICES ASSUME NEW u \in Tasks, spc'[u] = "publish", out'[u] = "succeeded"
                 PROVE  Settled(u, att[u])
      OBVIOUS
    <3>1. CASE spc[u] = "publish" /\ out[u] = "succeeded"
      BY <3>1 DEF LifeInv, Succeeding
    <3>2. CASE u = t /\ SupDecides(t)
      BY <2>4, <3>2
    <3>3. QED
      BY <1>1, <3>1, <3>2 DEF SupStays, SupOwns, SupYields, SupMoves, SupJoins, SupDecides, SupEnds
  <2>6. QED
    BY <1>1, <2>1, <2>3, <2>5 DEF Succeeding
<1>9. QED
  BY <1>1, <1>4, <1>5, <1>6, <1>7, <1>8 DEF LifeInv

\* Steps that touch no record, attempt, lock of a task, launcher or thread.
LEMMA LifeKept ==
    ASSUME Typed, LifeInv, Stored', UNCHANGED <<rec, att, env, owner, result, out, lpc, thr, rpc>>,
           spc' = spc \/ \E t \in Tasks : spc[t] = "look" /\ spc' = [spc EXCEPT ![t] = "dispatch"]
    PROVE  LifeInv'
<1> USE DEF LifeInv, Typed
<1>1. \A u \in Tasks : /\ spc'[u] \in Active2 => spc[u] \in Active2
                       /\ spc'[u] \in {"none", "boot", "publish", "reconcile"} => spc'[u] = spc[u]
                       /\ spc[u] \in {"none", "done", "lost"} => spc'[u] = spc[u]
  BY DEF Active2, SupLabels
<1>2. \A c \in Kids : c \in Tasks
  BY DEF Tasks
<1>3. Numbered' /\ Born'
  BY <1>1, <1>2 DEF Numbered, Born
<1>4. Owning'
  BY <1>1 DEF Owning, Result
<1>5. Offspring'
  BY <1>1 DEF Offspring, Below, Running
<1>6. Succeeding'
  BY <1>1 DEF Succeeding, Settled, Below
<1>7. QED
  BY <1>3, <1>4, <1>5, <1>6

LEMMA MailboxLife ==
    ASSUME Typed, LifeInv, NEW t \in Tasks, NEW r \in Reqs,
           Submit(t, r) \/ Refuse(t, r) \/ Claim(t, r)
    PROVE  LifeInv'
<1>1. /\ UNCHANGED <<rec, att, env, cancel, closed, result, owner, admission, stop, out, lpc, thr,
                     todo, hpc, rpc, marked>>
      /\ spc' = spc \/ (spc[t] = "look" /\ spc' = [spc EXCEPT ![t] = "dispatch"])
  BY DEF Submit, Refuse, Claim, Unclaimed, SAt, SGoto, dirs, locks, sups, kidProcs, hosts
<1>2. Stored'
  BY <1>1 DEF LifeInv, Stored
<1>3. QED
  BY <1>1, <1>2, LifeKept

LEMMA MarkLife ==
    ASSUME Typed, LifeInv, NEW x \in Tasks \X Attempts,
           CancelMark(x) \/ \E t \in Tasks : StopMark(t, x)
    PROVE  LifeInv'
<1>1. /\ UNCHANGED <<rec, att, env, result, owner, admission, stop, out, lpc, thr, spc, hpc, rpc>>
      /\ closed' = closed \cup {x} /\ cancel' = cancel \cup {x[1]} /\ marked' = marked \cup {x}
      /\ \E p \in Tasks \cup {Host} : todo' = [todo EXCEPT ![p] = @ \ {x}]
  BY DEF CancelMark, StopMark, TreeMark, mailbox, locks, sups, kidProcs, hosts
<1>2. Stored'
  BY <1>1 DEF LifeInv, Stored
<1>3. QED
  BY <1>1, <1>2, LifeKept

LEMMA CancelLife ==
    ASSUME Typed, LifeInv,
           (\E t \in Tasks : CancelSelect(t)) \/ CancelFails \/ CancelDone \/ CancelLost
    PROVE  LifeInv'
<1>1. UNCHANGED <<rec, att, env, cancel, closed, result, owner, stop, out, lpc, thr, spc, rpc, marked>>
  BY DEF CancelSelect, CancelFails, CancelDone, CancelLost, dirs, locks, sups, kidProcs
<1>2. CASE \E t \in Tasks : CancelSelect(t)
  <2>1. PICK t \in Tasks : CancelSelect(t)
    BY <1>2
  <2>2. {<<x, att[x]>> : x \in Selected(t)} \in SUBSET (Tasks \X Attempts)
    BY DEF Selected, Typed
  <2>3. admission' = Host /\ hpc' = "mark"
        /\ todo' = [todo EXCEPT ![Host] = {<<x, att[x]>> : x \in Selected(t)}]
    BY <2>1 DEF CancelSelect, TreeSelect
  <2> HIDE DEF Selected
  <2>4. Stored'
    BY <1>1, <2>2, <2>3 DEF LifeInv, Stored
  <2>5. QED
    BY <1>1, <2>4, LifeKept
<1>3. CASE CancelFails \/ CancelDone \/ CancelLost
  <2>1. Stored'
    BY <1>1, <1>3 DEF CancelFails, CancelDone, CancelLost, LifeInv, Stored, locks
  <2>2. QED
    BY <1>1, <2>1, LifeKept
<1>4. QED
  BY <1>2, <1>3

\* A new child is of the attempt whose supervisor dispatches it.
LEMMA DispatchLife ==
    ASSUME DInv, LifeInv, NEW t \in Tasks, NEW c \in Kids, Dispatch(t, c)
    PROVE  LifeInv'
<1> USE DEF DInv, Typed, LifeInv
<1>1. /\ spc[t] = "dispatch" /\ lpc[c] = "none"
      /\ env' = [env EXCEPT ![c] = [parent |-> t, patt |-> att[t], req |-> cur[t]]]
      /\ spc' = [spc EXCEPT ![t] = "look"]
      /\ lpc' = [lpc EXCEPT ![c] = "spawned"] /\ thr' = [thr EXCEPT ![c] = "waiting"]
      /\ UNCHANGED <<rec, att, cancel, closed, result, owner, admission, stop, out, todo, hpc, rpc,
                     marked>>
  BY DEF Dispatch, SAt, SGoto, locks, hosts
<1>2. /\ rec[c] = "none" /\ spc[c] = "none" /\ c \in Tasks /\ c # t
      /\ spc[t] \in Active2 /\ Result(t) = None /\ owner[t] = "supervisor"
  BY <1>1 DEF Born, Owning, Active2, SupLabels, Tasks
<1>3. /\ env'[c].parent = t /\ env'[c].patt = att[t]
      /\ \A d \in Kids : d # c => env'[d] = env[d] /\ lpc'[d] = lpc[d] /\ thr'[d] = thr[d]
      /\ \A u \in Tasks : u # t => spc'[u] = spc[u]
      /\ spc'[t] = "look" /\ lpc'[c] = "spawned" /\ thr'[c] = "waiting"
  <2>1. env'[c] = [parent |-> t, patt |-> att[t], req |-> cur[t]]
    BY <1>1
  <2>2. env'[c].parent = t /\ env'[c].patt = att[t]
    BY <2>1
  <2>3. thr'[c] = "waiting" /\ \A d \in Kids : d # c => thr'[d] = thr[d]
    BY <1>1 DEF Stored
  <2>4. QED
    BY <1>1, <2>2, <2>3
<1>4. Stored'
  BY <1>1 DEF Stored
<1>5. Numbered'
  BY <1>1, <1>3, TreeBounds DEF Numbered, Attempts
<1>6. Born'
  <2>1. \A d \in Kids : d # t \/ spc[d] # "none"
    BY <1>1
  <2>2. QED
    BY <1>1, <1>2, <1>3, <2>1 DEF Born, Tasks
<1>7. Owning'
  BY <1>1, <1>2, <1>3 DEF Owning, Result
<1>8. Offspring'
  <2>1. rpc = "idle" \/ t # Root
    BY <1>2 DEF Owning
  <2>2. \A u \in Tasks, d \in Kids : Below(d, u, att[u])' /\ d # c => Below(d, u, att[u])
    BY <1>1, <1>3 DEF Below
  <2>3. \A u \in Tasks : Below(c, u, att[u])' => u = t
    BY <1>3 DEF Below
  <2>4. QED
    BY <1>1, <1>3, <2>1, <2>2, <2>3 DEF Offspring, Running
<1>9. Succeeding'
  <2>1. \A u \in Tasks, a \in Attempts : Settled(u, a) /\ ~(u = t /\ a = att[t]) => Settled(u, a)'
    BY <1>1, <1>3 DEF Settled, Below
  <2>2. result[t][att[t]] # "succeeded"
    BY <1>2, NoneApart DEF Result
  <2>3. \A u \in Tasks : spc'[u] = "publish" => u # t /\ spc[u] = "publish"
    BY <1>3
  <2>4. QED
    BY <1>1, <2>1, <2>2, <2>3 DEF Succeeding
<1>10. QED
  BY <1>4, <1>5, <1>6, <1>7, <1>8, <1>9

\* What a step of a launcher, or of the thread that waits for it, may do.
KidAnswered(c) ==
    /\ thr[c] = "waiting" /\ thr' = [thr EXCEPT ![c] = "done"] /\ ~Running(c)
    /\ UNCHANGED <<rec, lpc, spc>>
KidSaved(c, label, saved) ==
    /\ lpc[c] = label /\ rec' = [rec EXCEPT ![c] = saved]
    /\ UNCHANGED <<thr, spc>>
KidMoves(c) ==
    /\ lpc[c] \notin {"none", "ended"} /\ lpc' = [lpc EXCEPT ![c] = lpc'[c]]
    /\ \/ lpc[c] = "spawned" /\ lpc'[c] = "admitted" /\ UNCHANGED <<rec, thr, spc>>
       \/ lpc'[c] = "half" /\ KidSaved(c, "admitted", "half")
       \/ lpc'[c] = "recorded" /\ KidSaved(c, "half", "full")
       \/ /\ lpc[c] = "recorded" /\ lpc'[c] = "starting" /\ spc' = [spc EXCEPT ![c] = "boot"]
          /\ UNCHANGED <<rec, thr>>
       \/ lpc'[c] = "ended" /\ UNCHANGED <<rec, thr, spc>>

LEMMA KidFrame ==
    ASSUME Typed, Stored, NEW c \in Kids, LauncherWork(c) \/ LaunchFails(c) \/ ThreadWork(c)
    PROVE  /\ Stored'
           /\ UNCHANGED <<att, env, req, claim, cancel, closed, marked, result, owner, stop, out,
                          todo, hpc, rpc>>
           /\ KidAnswered(c) \/ KidMoves(c)
<1> USE DEF LAt, LGoto, SGoto, Typed, Stored, KidMoves, KidSaved, KidLabels, Running,
            dirs, mailbox, locks, sups, kidProcs, hosts
<1>0. c \in Tasks
  BY DEF Tasks
<1>1. CASE AdmitLaunch(c) \/ LaunchRefused(c) \/ LaunchFails(c)
  BY <1>0, <1>1 DEF AdmitLaunch, LaunchRefused, LaunchFails
<1>2. CASE SaveTask(c)
  BY <1>0, <1>2 DEF SaveTask
<1>3. CASE SaveSpec(c)
  BY <1>0, <1>3 DEF SaveSpec
<1>4. CASE StartKid(c) \/ Acknowledge(c)
  BY <1>0, <1>4 DEF StartKid, Acknowledge
<1>5. CASE KillLauncher(c)
  BY <1>0, <1>5 DEF KillLauncher
<1>6. CASE Answer(c)
  BY <1>0, <1>6 DEF Answer, KidAnswered
<1>7. QED
  BY <1>1, <1>2, <1>3, <1>4, <1>5, <1>6 DEF LauncherWork, ThreadWork

LEMMA LauncherLife ==
    ASSUME Typed, LifeInv, NEW c \in Kids, LauncherWork(c) \/ LaunchFails(c) \/ ThreadWork(c)
    PROVE  LifeInv'
<1> USE DEF Typed, LifeInv
<1>1. /\ Stored' /\ (KidAnswered(c) \/ KidMoves(c))
      /\ UNCHANGED <<att, env, req, claim, cancel, closed, marked, result, owner, stop, out,
                     todo, hpc, rpc>>
  BY KidFrame
<1>2. c \in Tasks /\ \A d \in Kids : d \in Tasks
  BY DEF Tasks
<1>3. /\ \A d \in Kids : d # c => rec'[d] = rec[d] /\ lpc'[d] = lpc[d] /\ thr'[d] = thr[d]
      /\ \A u \in Tasks : u # c => spc'[u] = spc[u]
      /\ spc'[c] = spc[c] \/ (spc[c] = "none" /\ spc'[c] = "boot")
      /\ lpc'[c] = "none" <=> lpc[c] = "none"
  BY <1>1, <1>2 DEF KidAnswered, KidMoves, KidSaved, Stored, Born
<1>4. Numbered'
  BY <1>1, <1>3 DEF Numbered
<1>5. Born'
  <2>1. ASSUME NEW d \in Kids, d # c
        PROVE  /\ lpc'[d] = "none" => thr'[d] = "none"
               /\ lpc'[d] \in {"none", "spawned", "admitted"} => rec'[d] = "none"
               /\ lpc'[d] \in {"none", "spawned", "admitted", "half", "recorded"} => spc'[d] = "none"
    BY <1>2, <1>3, <2>1 DEF Born
  <2>2. /\ lpc'[c] = "none" => thr'[c] = "none"
        /\ lpc'[c] \in {"none", "spawned", "admitted"} => rec'[c] = "none"
        /\ lpc'[c] \in {"none", "spawned", "admitted", "half", "recorded"} => spc'[c] = "none"
    <3>1. CASE KidAnswered(c)
      <4>1. lpc[c] # "none"
        BY <3>1 DEF KidAnswered, Born, Stored
      <4>2. QED
        BY <3>1, <4>1 DEF KidAnswered, Born
    <3>2. CASE KidMoves(c)
      BY <3>2, <1>3 DEF KidMoves, KidSaved, Born
    <3>3. QED
      BY <1>1, <3>1, <3>2
  <2>3. QED
    BY <2>1, <2>2 DEF Born
<1>6. Owning'
  BY <1>1, <1>2, <1>3 DEF Owning, Result, Active2
<1>7. Offspring'
  <2> SUFFICES ASSUME NEW u \in Tasks, NEW d \in Kids, Below(d, u, att[u])'
               PROVE  /\ spc'[u] \notin {"none", "boot"}
                      /\ ~(u = Root /\ rpc' = "uncancel")
                      /\ thr'[d] # "waiting" /\ Running(d)' => spc'[u] \in {"done", "lost"}
                      /\ spc'[u] \in {"reconcile", "publish"} => lpc'[d] = "ended"
    BY <1>1 DEF Offspring
  <2>1. Below(d, u, att[u])
    BY <1>1, <1>3 DEF Below
  <2>2. /\ spc[u] \notin {"none", "boot"}
        /\ ~(u = Root /\ rpc = "uncancel")
        /\ thr[d] # "waiting" /\ Running(d) => spc[u] \in {"done", "lost"}
        /\ spc[u] \in {"reconcile", "publish"} => lpc[d] = "ended"
    BY <2>1 DEF Offspring
  <2>3. spc'[u] = spc[u]
    BY <1>2, <1>3, <2>2
  <2>4. CASE d # c
    BY <1>1, <1>3, <2>2, <2>3, <2>4 DEF Running
  <2>5. CASE d = c /\ KidAnswered(c)
    BY <1>1, <2>2, <2>3, <2>5 DEF KidAnswered, Running
  <2>6. CASE d = c /\ KidMoves(c)
    <3>1. thr'[c] = thr[c] /\ Running(c) /\ lpc[c] # "ended"
      BY <2>6 DEF KidMoves, KidSaved, Running, KidLabels
    <3>2. QED
      BY <1>1, <2>2, <2>3, <2>6, <3>1
  <2>7. QED
    BY <1>1, <2>4, <2>5, <2>6
<1>8. Succeeding'
  <2>1. \A u \in Tasks, a \in Attempts : Settled(u, a) => Settled(u, a)'
    BY <1>1, <1>3 DEF KidAnswered, KidMoves, Settled, Below
  <2>2. \A u \in Tasks : spc'[u] = "publish" => spc[u] = "publish"
    BY <1>2, <1>3
  <2>3. QED
    BY <1>1, <2>1, <2>2 DEF Succeeding
<1> HIDE DEF Typed, LifeInv
<1>9. QED
  BY <1>1, <1>4, <1>5, <1>6, <1>7, <1>8 DEF LifeInv

LEMMA ResumeLife ==
    ASSUME Typed, LifeInv, ResumeBegin \/ ResumeSave \/ ResumeStart
    PROVE  LifeInv'
<1> USE TreeNames DEF Typed, LifeInv, SGoto, dirs, mailbox, locks, sups, kidProcs
<1>0. Root \in Tasks /\ (\A c \in Kids : c \in Tasks /\ c # Root)
  BY DEF Tasks
<1>1. CASE ResumeBegin
  <2>1. /\ owner' = [owner EXCEPT ![Root] = "resume"] /\ rpc' = "save" /\ owner[Root] = None
        /\ rpc = "idle" 
        /\ UNCHANGED <<rec, att, env, cancel, closed, result, admission, spc, stop, out, lpc, thr,
                       todo, hpc, marked>>
    BY <1>1 DEF ResumeBegin
  <2>2. Stored'
    BY <2>1 DEF Stored
  <2>3. spc[Root] \notin Active2
    BY <1>0, <2>1, NoneApart DEF Owning
  <2>4. Owning'
    BY <1>0, <2>1, <2>3 DEF Owning, Result, Stored
  <2>5. Numbered' /\ Born' /\ Offspring' /\ Succeeding'
    BY <2>1 DEF Numbered, Born, Offspring, Succeeding, Settled, Below, Running
  <2>6. QED
    BY <2>2, <2>4, <2>5
<1>2. CASE ResumeSave
  <2>1. /\ att' = [att EXCEPT ![Root] = @ + 1] /\ rpc = "save" /\ rpc' = "uncancel"
        /\ UNCHANGED <<rec, env, cancel, closed, result, owner, admission, spc, stop, out, lpc, thr,
                       todo, hpc, marked>>
    BY <1>2 DEF ResumeSave
  <2>2. Stored'
    BY <2>1 DEF Stored
  <2>3. spc[Root] \notin Active2
    BY <1>0, <2>1 DEF Owning
  <2>4. /\ \A u \in Tasks : u # Root => att'[u] = att[u]
        /\ att'[Root] = att[Root] + 1 /\ att[Root] \in Nat
    BY <1>0, <2>1, TreeBounds DEF Attempts
  <2>5. \A c \in Kids : lpc[c] # "none" =>
            env[c].parent \in Tasks /\ env[c].patt \in 1..att[env[c].parent]
    BY DEF Numbered
  <2>6. Numbered'
    BY <1>0, <2>1, <2>4, <2>5 DEF Numbered
  <2>7. Born' /\ Owning'
    BY <2>1, <2>3, <2>4 DEF Born, Owning, Result
  <2>8. \A c \in Kids : ~Below(c, Root, att'[Root])
    BY <2>4, <2>5 DEF Below
  <2>9. Offspring'
    BY <2>1, <2>4, <2>8 DEF Offspring, Below, Running
  <2>10. Succeeding'
    BY <2>1, <2>3, <2>4 DEF Succeeding, Settled, Below, Active2, SupLabels
  <2>11. QED
    BY <2>2, <2>6, <2>7, <2>9, <2>10
<1>3. CASE ResumeStart
  <2>1. /\ rpc = "uncancel" /\ rpc' = "idle" /\ cancel' = cancel \ {Root}
        /\ owner' = [owner EXCEPT ![Root] = None] /\ spc' = [spc EXCEPT ![Root] = "boot"]
        /\ stop' = stop \ {Root} /\ out' = [out EXCEPT ![Root] = None]
        /\ UNCHANGED <<rec, att, env, closed, result, admission, lpc, thr, todo, hpc, marked>>
    BY <1>3 DEF ResumeStart
  <2>2. Stored'
    BY <2>1 DEF Stored
  <2>3. Numbered' /\ Born'
    BY <1>0, <2>1 DEF Numbered, Born
  <2>4. Owning'
    BY <1>0, <2>1 DEF Owning, Result, Active2, Stored
  <2>5. Offspring'
    BY <1>0, <2>1 DEF Offspring, Below, Running
  <2>6. Succeeding'
    BY <1>0, <2>1 DEF Succeeding, Settled, Below, Stored
  <2>7. QED
    BY <2>2, <2>3, <2>4, <2>5, <2>6
<1>4. QED
  BY <1>1, <1>2, <1>3

LEMMA LifeInductive == DInv /\ LifeInv /\ [Next]_vars => LifeInv'
<1> SUFFICES ASSUME DInv, LifeInv, [Next]_vars PROVE LifeInv'
  OBVIOUS
<1>1. CASE UNCHANGED vars
  BY <1>1 DEF LifeInv, Stored, Numbered, Born, Owning, Offspring, Succeeding, Settled, Below,
     Running, Result, vars, dirs, locks, sups, kidProcs, hosts
<1>2. CASE ~(UNCHANGED vars)
  BY <1>2, StepGroups, SupLife, MailboxLife, DispatchLife, MarkLife, LauncherLife, CancelLife,
     ResumeLife DEF DInv
<1>3. QED
  BY <1>1, <1>2

\* Unjoined or failed children of an attempt prevent its success: whoever was
\* being launched when the worker ended, and whatever was lost or resumed.
THEOREM SuccessIsJoined == Spec => []SuccessMeansJoined
<1>1. LifeInv => SuccessMeansJoined
  BY DEF LifeInv, Succeeding, Settled, Born, Below, KidsOf, SuccessMeansJoined
<1>2. QED
  BY Initially, LifeInitially, DispatchInductive, LifeInductive, <1>1, PTL DEF Spec

-----------------------------------------------------------------------------
(* The broker's limits.                                                    *)

\* A claim is of a request that exists, and not of an attempt to come.
Timely ==
    \A r \in Reqs, a \in Attempts :
        claim[r][a] # "none" => req[r] # None /\ a <= att[req[r].task]

\* A dispatch was counted before its request was claimed.
Limited ==
    \A t \in Tasks :
        /\ IsFiniteSet(Claims(t)) /\ Cardinality(Claims(t)) <= MaxRequests
        /\ IsFiniteSet(Pending(t)) /\ Cardinality(Pending(t)) <= MaxPending
        /\ spc[t] = "dispatch" => Cardinality(Pending(t)) < MaxPending

CInv == Timely /\ Limited

LEMMA CInitially == Init => CInv
<1> SUFFICES ASSUME Init PROVE CInv
  OBVIOUS
<1>1. Timely
  BY DEF Init, Timely
<1>2. \A t \in Tasks : Claims(t) = {} /\ Pending(t) = {} /\ spc[t] # "dispatch"
  BY DEF Init, Claims, Pending
<1>3. IsFiniteSet({}) /\ Cardinality({}) = 0
  BY FS_EmptySet
<1>4. 0 <= MaxRequests /\ 0 <= MaxPending
  BY TreeBounds
<1>5. QED
  BY <1>1, <1>2, <1>3, <1>4 DEF CInv, Limited

\* Fewer dispatches are waited for.
LEMMA FewerPending ==
    ASSUME Limited, NEW t \in Tasks, Pending(t)' \subseteq Pending(t)
    PROVE  /\ IsFiniteSet(Pending(t)') /\ Cardinality(Pending(t)') <= MaxPending
           /\ Cardinality(Pending(t)) < MaxPending => Cardinality(Pending(t)') < MaxPending
<1>1. IsFiniteSet(Pending(t)) /\ Cardinality(Pending(t)) <= MaxPending
  BY DEF Limited
<1>2. /\ IsFiniteSet(Pending(t)') /\ Cardinality(Pending(t)') <= Cardinality(Pending(t))
      /\ Cardinality(Pending(t)) \in Nat /\ Cardinality(Pending(t)') \in Nat
  BY <1>1, FS_Subset, FS_CardinalityType
<1>3. QED
  BY <1>1, <1>2, TreeBounds

LEMMA LimitsKept ==
    ASSUME CInv, Quiet, att' = att, \A c \in Kids : thr'[c] = "waiting" => thr[c] = "waiting"
    PROVE  CInv'
<1>1. \A t \in Tasks : Claims(t)' = Claims(t) /\ Pending(t)' \subseteq Pending(t)
  BY DEF Quiet, Claims, Pending
<1>2. Timely'
  BY DEF CInv, Timely, Quiet
<1>3. \A t \in Tasks : spc'[t] = "dispatch" => spc[t] = "dispatch"
  BY DEF Quiet
<1>4. Limited'
  BY <1>1, <1>3, FewerPending DEF CInv, Limited
<1>5. QED
  BY <1>2, <1>4 DEF CInv

\* The steps that neither ask, claim, dispatch nor begin an attempt.
LEMMA OtherLimits ==
    ASSUME DInv, LifeInv, CInv,
           \/ \E t \in Tasks : SupStep(t)
           \/ \E x \in Tasks \X Attempts : CancelMark(x) \/ \E t \in Tasks : StopMark(t, x)
           \/ \E c \in Kids : LauncherWork(c) \/ LaunchFails(c) \/ ThreadWork(c)
           \/ (\E t \in Tasks : CancelSelect(t)) \/ CancelFails \/ CancelDone \/ CancelLost
           \/ ResumeBegin \/ ResumeStart
    PROVE  CInv'
<1> USE DEF DInv
<1>1. CASE \E t \in Tasks : SupStep(t)
  <2>1. PICK t \in Tasks : SupStep(t)
    BY <1>1
  <2>2. Quiet /\ att' = att
    BY <2>1, QuietSup, SupFrame DEF LifeInv
  <2>3. \A c \in Kids : thr'[c] = "waiting" => thr[c] = "waiting"
    <3>1. thr' = thr \/ SupEnds(t)
      BY <2>1, SupFrame DEF LifeInv, SupStays, SupOwns, SupYields, SupMoves, SupJoins, SupDecides
    <3>2. QED
      BY <3>1 DEF SupEnds, Exits
  <2>4. QED
    BY <2>2, <2>3, LimitsKept
<1>2. CASE \E x \in Tasks \X Attempts : CancelMark(x) \/ \E t \in Tasks : StopMark(t, x)
  <2>1. Quiet
    BY <1>2, QuietMark
  <2>2. att' = att /\ thr' = thr
    BY <1>2 DEF CancelMark, StopMark, kidProcs
  <2>3. QED
    BY <2>1, <2>2, LimitsKept
<1>3. CASE \E c \in Kids : LauncherWork(c) \/ LaunchFails(c) \/ ThreadWork(c)
  <2>1. PICK c \in Kids : LauncherWork(c) \/ LaunchFails(c) \/ ThreadWork(c)
    BY <1>3
  <2>2. Quiet /\ att' = att /\ (KidAnswered(c) \/ KidMoves(c))
    BY <2>1, QuietLauncher, KidFrame DEF LifeInv
  <2>3. \A d \in Kids : thr'[d] = "waiting" => thr[d] = "waiting"
    BY <2>2 DEF KidAnswered, KidMoves, KidSaved, LifeInv, Stored
  <2>4. QED
    BY <2>2, <2>3, LimitsKept
<1>4. CASE \/ (\E t \in Tasks : CancelSelect(t)) \/ CancelFails \/ CancelDone \/ CancelLost
           \/ ResumeBegin \/ ResumeStart
  <2>1. Quiet
    BY <1>4, QuietHost
  <2>2. att' = att /\ thr' = thr
    BY <1>4 DEF CancelSelect, CancelFails, CancelDone, CancelLost, ResumeBegin, ResumeStart,
                kidProcs, dirs
  <2>3. QED
    BY <2>1, <2>2, LimitsKept
<1>5. QED
  BY <1>1, <1>2, <1>3, <1>4

LEMMA SubmitLimits ==
    ASSUME DInv, CInv, NEW t \in Tasks, NEW r \in Reqs, Submit(t, r)
    PROVE  CInv'
<1>1. /\ req[r] = None /\ req' = [req EXCEPT ![r] = [task |-> t, att |-> att[t]]]
      /\ UNCHANGED <<att, env, claim, spc, thr>>
  BY DEF Submit, dirs, sups, kidProcs
<1>2. /\ \A q \in Reqs : q # r => req'[q] = req[q]
      /\ \A a \in Attempts : claim[r][a] = "none"
  BY <1>1 DEF DInv, Typed, CInv, Timely
<1>3. Timely'
  BY <1>1, <1>2 DEF CInv, Timely
<1>4. \A u \in Tasks : att[u] \in Attempts
  BY DEF DInv, Typed
<1>5. \A u \in Tasks : Claims(u)' = Claims(u) /\ Pending(u)' = Pending(u)
  BY <1>1, <1>2, <1>4 DEF Claims, Pending
<1>6. QED
  BY <1>1, <1>3, <1>5 DEF CInv, Limited

LEMMA ClaimLimits ==
    ASSUME DInv, CInv, NEW t \in Tasks, NEW r \in Reqs, Refuse(t, r) \/ Claim(t, r)
    PROVE  CInv'
<1>1. /\ req[r] # None /\ req[r].task = t /\ claim[r][att[t]] = "none"
      /\ Cardinality(Pending(t)) < MaxPending /\ Cardinality(Claims(t)) < MaxRequests
      /\ \E v \in {"refused", "dispatching"} : claim' = [claim EXCEPT ![r][att[t]] = v]
      /\ UNCHANGED <<att, env, req, thr>>
      /\ spc' = spc \/ spc' = [spc EXCEPT ![t] = "dispatch"]
  BY DEF Refuse, Claim, Unclaimed, SGoto, dirs, sups, kidProcs
<1>2. PICK v \in {"refused", "dispatching"} : claim' = [claim EXCEPT ![r][att[t]] = v]
  BY <1>1
<1>3. /\ att[t] \in Attempts /\ claim'[r][att[t]] # "none"
      /\ \A q \in Reqs, a \in Attempts : q # r \/ a # att[t] => claim'[q][a] = claim[q][a]
  BY <1>2 DEF DInv, Typed
<1>4. Timely'
  <2>1. att[t] <= att[req[r].task]
    BY <1>1, <1>3, TreeBounds DEF Attempts
  <2>2. QED
    BY <1>1, <1>3, <2>1 DEF CInv, Timely
<1>5. Claims(t)' = Claims(t) \cup {r} /\ r \notin Claims(t)
  BY <1>1, <1>3 DEF Claims
<1>6. \A u \in Tasks : u # t => Claims(u)' = Claims(u)
  BY <1>1, <1>3 DEF Claims, DInv, Typed
<1>7. \A u \in Tasks : Pending(u)' = Pending(u)
  BY <1>1 DEF Pending
<1>8. IsFiniteSet(Claims(t)') /\ Cardinality(Claims(t)') <= MaxRequests
  <2>1. IsFiniteSet(Claims(t)) /\ Cardinality(Claims(t)) \in Nat
    BY FS_CardinalityType DEF CInv, Limited
  <2>2. IsFiniteSet(Claims(t)') /\ Cardinality(Claims(t)') = Cardinality(Claims(t)) + 1
    BY <1>5, <2>1, FS_AddElement
  <2>3. QED
    BY <1>1, <2>1, <2>2, TreeBounds
<1>9. \A u \in Tasks : u # t => spc'[u] = spc[u]
  BY <1>1 DEF DInv, Typed
<1>10. Limited'
  BY <1>1, <1>6, <1>7, <1>8, <1>9 DEF CInv, Limited
<1>11. QED
  BY <1>4, <1>10 DEF CInv

LEMMA DispatchLimits ==
    ASSUME DInv, LifeInv, CInv, NEW t \in Tasks, NEW c \in Kids, Dispatch(t, c)
    PROVE  CInv'
<1>1. /\ spc[t] = "dispatch" /\ lpc[c] = "none"
      /\ env' = [env EXCEPT ![c] = [parent |-> t, patt |-> att[t], req |-> cur[t]]]
      /\ spc' = [spc EXCEPT ![t] = "look"] /\ thr' = [thr EXCEPT ![c] = "waiting"]
      /\ UNCHANGED <<att, req, claim>>
  BY DEF Dispatch, SAt, SGoto, mailbox
<1>2. /\ thr[c] = "none" /\ thr'[c] = "waiting" /\ env'[c].parent = t
      /\ \A d \in Kids : d # c => thr'[d] = thr[d] /\ env'[d] = env[d]
  <2>1. env'[c] = [parent |-> t, patt |-> att[t], req |-> cur[t]]
    BY <1>1 DEF DInv, Typed
  <2>2. thr[c] = "none"
    BY <1>1 DEF LifeInv, Born
  <2>3. QED
    BY <1>1, <2>1, <2>2 DEF DInv, Typed, LifeInv, Stored
<1>3. Pending(t)' = Pending(t) \cup {c} /\ c \notin Pending(t)
  BY <1>2 DEF Pending
<1>4. \A u \in Tasks : u # t => Pending(u)' = Pending(u)
  BY <1>2 DEF Pending
<1>5. \A u \in Tasks : Claims(u)' = Claims(u)
  BY <1>1 DEF Claims
<1>6. spc'[t] # "dispatch" /\ \A u \in Tasks : u # t => spc'[u] = spc[u]
  BY <1>1 DEF DInv, Typed
<1>7. IsFiniteSet(Pending(t)') /\ Cardinality(Pending(t)') <= MaxPending
  <2>1. /\ IsFiniteSet(Pending(t)) /\ Cardinality(Pending(t)) \in Nat
        /\ Cardinality(Pending(t)) < MaxPending
    BY <1>1, FS_CardinalityType DEF CInv, Limited
  <2>2. IsFiniteSet(Pending(t)') /\ Cardinality(Pending(t)') = Cardinality(Pending(t)) + 1
    BY <1>3, <2>1, FS_AddElement
  <2>3. QED
    BY <2>1, <2>2, TreeBounds
<1>8. Timely' /\ Limited'
  BY <1>1, <1>4, <1>5, <1>6, <1>7 DEF CInv, Timely, Limited
<1>9. QED
  BY <1>8 DEF CInv

\* A new attempt of the root starts with no request consumed.
LEMMA ResumeLimits ==
    ASSUME DInv, CInv, ResumeSave
    PROVE  CInv'
<1>1. att' = [att EXCEPT ![Root] = @ + 1] /\ UNCHANGED <<env, req, claim, spc, thr>>
  BY DEF ResumeSave, dirs, mailbox, sups, kidProcs
<1>2. /\ \A u \in Tasks : u # Root => att'[u] = att[u]
      /\ att'[Root] = att[Root] + 1 /\ att[Root] \in Nat /\ Root \in Tasks
      /\ att'[Root] \in Attempts
  <2>1. DInv'
    BY DispatchInductive DEF Next, HostWork
  <2>2. QED
    BY <1>1, <2>1, TreeBounds DEF DInv, Typed, Tasks, Attempts
<1>3. \A r \in Reqs : req[r] # None => req[r].task \in Tasks
  BY DEF DInv, Typed
<1>4. \A u \in Tasks : att[u] \in Nat /\ att'[u] \in Nat /\ att[u] <= att'[u]
  <2>1. \A u \in Tasks : att[u] \in Nat
    BY TreeBounds DEF DInv, Typed, Attempts
  <2>2. att'[Root] \in Nat /\ att[Root] <= att'[Root]
    BY <1>2
  <2>3. QED
    BY <1>2, <2>1, <2>2
<1>5. Timely'
  <2> SUFFICES ASSUME NEW r \in Reqs, NEW a \in Attempts, claim[r][a] # "none"
               PROVE  req[r] # None /\ a <= att'[req[r].task]
    BY <1>1 DEF Timely
  <2>1. req[r] # None /\ a <= att[req[r].task] /\ a \in Nat
    BY TreeBounds DEF CInv, Timely, Attempts
  <2>2. QED
    BY <1>3, <1>4, <2>1
<1>6. Claims(Root)' = {}
  BY <1>1, <1>2 DEF Claims, CInv, Timely
<1>7. \A u \in Tasks : u # Root => Claims(u)' = Claims(u)
  BY <1>1, <1>2 DEF Claims
<1>8. \A u \in Tasks : Pending(u)' = Pending(u)
  BY <1>1 DEF Pending
<1>9. IsFiniteSet({}) /\ Cardinality({}) <= MaxRequests
  BY FS_EmptySet, TreeBounds
<1>10. Limited'
  BY <1>1, <1>6, <1>7, <1>8, <1>9 DEF CInv, Limited
<1>11. QED
  BY <1>5, <1>10 DEF CInv

LEMMA LimitsInductive == DInv /\ LifeInv /\ CInv /\ [Next]_vars => CInv'
<1> SUFFICES ASSUME DInv, LifeInv, CInv, [Next]_vars PROVE CInv'
  OBVIOUS
<1>1. CASE UNCHANGED vars
  BY <1>1 DEF CInv, Timely, Limited, Claims, Pending, vars, dirs, mailbox, sups, kidProcs
<1>2. CASE ~(UNCHANGED vars)
  BY <1>2, StepGroups, OtherLimits, SubmitLimits, ClaimLimits, DispatchLimits, ResumeLimits
<1>3. QED
  BY <1>1, <1>2

\* Types; and the broker keeps its limits on requests consumed and dispatches in
\* flight, although it checks them before it claims and dispatches later.
THEOREM LimitsHold == Spec => []TypeOK
<1>1. DInv /\ LifeInv /\ CInv => TypeOK
  BY DEF DInv, Typed, LifeInv, Stored, CInv, Limited, TypeOK, SupLabels, KidLabels, Claimed
<1>2. QED
  BY Initially, LifeInitially, CInitially, DispatchInductive, LifeInductive, LimitsInductive,
     <1>1, PTL DEF Spec

-----------------------------------------------------------------------------
(* A supervisor that stopped its worker has reached its descendants.       *)

\* A set of tasks that contains t and, with a task, its recorded children.
Tree(S, t) ==
    /\ t \in S /\ (Root \in S => t = Root)
    /\ \A y \in S, c \in Kids : ChildOf(c, y) => c \in S

\* No child of the task's attempt is recorded any more: the attempt is marked, or
\* it is one that a resume has not started yet.
Fenced(y) == <<y, att[y]>> \in marked \/ (y = Root /\ rpc = "uncancel")

Reached(t) == \E S \in SUBSET Tasks : Tree(S, t) /\ \A y \in S : Fenced(y)

Reaching(t) ==
    \E S \in SUBSET Tasks : Tree(S, t) /\ \A y \in S : <<y, att[y]>> \in marked \cup todo[t]

RInv ==
    /\ \A t \in stop : Reached(t)
    /\ \A t \in Tasks : spc[t] = "mark" => Reaching(t)
    /\ \A c \in Kids : lpc[c] \in {"admitted", "half"} => Above(c) \notin marked

LEMMA RInitially == Init => RInv
  BY DEF Init, RInv

\* What cancel_tree selects is the least such set.
LEMMA SelectedTree ==
    ASSUME NEW t \in Tasks
    PROVE  /\ Selected(t) \in SUBSET Tasks /\ Tree(Selected(t), t)
           /\ \A S \in SUBSET Tasks : Tree(S, t) => Selected(t) \subseteq S
<1>1. \A S \in SUBSET Tasks :
        t \in S /\ (\A y \in S, c \in Kids : ChildOf(c, y) => c \in S) => Selected(t) \subseteq S
  BY DEF Selected
<1>2. t \in Selected(t)
  BY DEF Selected
<1>3. Root \in Selected(t) => t = Root
  <2>1. Kids \cup {t} \in SUBSET Tasks
    BY DEF Tasks
  <2>2. Selected(t) \subseteq Kids \cup {t}
    BY <1>1, <2>1
  <2>3. QED
    BY <2>2, TreeNames
<1>4. ASSUME NEW y \in Selected(t), NEW c \in Kids, ChildOf(c, y)
      PROVE  c \in Selected(t)
  <2>1. \A S \in SUBSET Tasks :
          t \in S /\ (\A z \in S, d \in Kids : ChildOf(d, z) => d \in S) => c \in S
    BY <1>1, <1>4
  <2>2. c \in Tasks
    BY DEF Tasks
  <2>3. QED
    BY <2>1, <2>2 DEF Selected
<1>5. Selected(t) \in SUBSET Tasks
  BY DEF Selected
<1>6. QED
  BY <1>1, <1>2, <1>3, <1>4, <1>5 DEF Tree

\* Where no child is recorded and no attempt begun, a reached tree stays so, and
\* so does one that is being marked.
LEMMA TreesKept ==
    ASSUME NEW t \in Tasks, UNCHANGED <<rec, att, env>>, marked \subseteq marked'
    PROVE  /\ Reached(t) /\ rpc' = rpc => Reached(t)'
           /\ Reaching(t) /\ marked \cup todo[t] \subseteq marked' \cup todo'[t] => Reaching(t)'
<1>1. \A S \in SUBSET Tasks : Tree(S, t) => Tree(S, t)'
  BY DEF Tree, ChildOf
<1>2. rpc' = rpc => \A y \in Tasks : Fenced(y) => Fenced(y)'
  BY DEF Fenced
<1>3. Reached(t) /\ rpc' = rpc => Reached(t)'
  BY <1>1, <1>2 DEF Reached
<1>4. ASSUME Reaching(t), marked \cup todo[t] \subseteq marked' \cup todo'[t] PROVE Reaching(t)'
  <2>1. PICK S \in SUBSET Tasks : Tree(S, t) /\ \A y \in S : <<y, att[y]>> \in marked \cup todo[t]
    BY <1>4 DEF Reaching
  <2>2. Tree(S, t)' /\ \A y \in S : <<y, att'[y]>> \in marked' \cup todo'[t]
    BY <1>1, <1>4, <2>1
  <2>3. QED
    BY <2>2 DEF Reaching
<1>5. QED
  BY <1>3, <1>4

\* A supervisor enters the marking with what it has selected, and leaves it for
\* the stop of its worker when all of it is marked.
LEMMA SupTree ==
    ASSUME Typed, Stored, NEW t \in Tasks, SupStep(t)
    PROVE  /\ marked' = marked /\ \A u \in Tasks : u # t => todo'[u] = todo[u]
           /\ \/ /\ stop' = stop
                 /\ spc'[t] = "mark" => spc[t] = "mark" /\ todo'[t] = todo[t]
              \/ /\ stop' = stop /\ todo'[t] = {<<x, att[x]>> : x \in Selected(t)}
              \/ /\ stop' = stop \cup {t} /\ spc[t] = "mark" /\ todo[t] = {}
                 /\ spc'[t] # "mark"
<1> USE DEF SAt, SGoto, Typed, Stored, dirs, locks, sups
<1>1. CASE OwnTask(t) \/ AdmitSpawn(t) \/ SpawnRefused(t) \/ Spawn(t) \/ WorkerExits(t)
  BY <1>1 DEF OwnTask, AdmitSpawn, SpawnRefused, Spawn, WorkerExits
<1>2. CASE LookStops(t) \/ CloseAdmission(t) \/ LateBoundary(t) \/ DispatchFails(t)
  BY <1>2 DEF LookStops, CloseAdmission, LateBoundary, DispatchFails
<1>3. CASE StopSelect(t)
  BY <1>3 DEF StopSelect, TreeSelect
<1>4. CASE StopFails(t) \/ StopMarked(t) \/ KillWorker(t)
  BY <1>4 DEF StopFails, StopMarked, KillWorker
<1>5. CASE Join(t) \/ Reconcile(t) \/ ReconcileFails(t)
  BY <1>5 DEF Join, Reconcile, ReconcileFails
<1>6. CASE Publish(t) \/ PublishError(t) \/ IOFails(t) \/ SupervisorLost(t)
  BY <1>6 DEF Publish, PublishError, IOFails, SupervisorLost
<1>7. QED
  BY <1>1, <1>2, <1>3, <1>4, <1>5, <1>6 DEF SupStep

LEMMA SupReaches ==
    ASSUME Typed, LifeInv, RInv, NEW t \in Tasks, SupStep(t)
    PROVE  RInv'
<1>1. /\ UNCHANGED <<rec, att, env, lpc, rpc, marked>>
      /\ \A u \in Tasks : u # t => spc'[u] = spc[u] /\ todo'[u] = todo[u]
  BY SupFrame, SupTree DEF LifeInv
<1>2. /\ \A u \in Tasks : Reached(u) => Reached(u)'
      /\ \A u \in Tasks : Reaching(u) /\ todo'[u] = todo[u] => Reaching(u)'
  BY <1>1, TreesKept
<1>3. stop \subseteq Tasks
  BY DEF LifeInv, Stored
<1>4. \A u \in stop' : Reached(u)'
  <2>1. ASSUME stop' = stop \cup {t}, spc[t] = "mark", todo[t] = {} PROVE Reached(t)'
    <3>1. PICK S \in SUBSET Tasks : Tree(S, t) /\ \A y \in S : <<y, att[y]>> \in marked \cup todo[t]
      BY <2>1 DEF RInv, Reaching
    <3>2. Tree(S, t) /\ \A y \in S : Fenced(y)
      BY <2>1, <3>1 DEF Fenced
    <3>3. Reached(t)
      BY <3>2 DEF Reached
    <3>4. QED
      BY <1>2, <3>3
  <2>2. QED
    BY <1>2, <1>3, <2>1, SupTree DEF RInv, LifeInv
<1>5. \A u \in Tasks : spc'[u] = "mark" => Reaching(u)'
  <2>1. ASSUME todo'[t] = {<<x, att[x]>> : x \in Selected(t)} PROVE Reaching(t)'
    <3>1. Selected(t) \in SUBSET Tasks /\ Tree(Selected(t), t)
      BY SelectedTree
    <3>2. PICK S \in SUBSET Tasks : S = Selected(t)
      BY <3>1
    <3>3. Tree(S, t)' /\ \A y \in S : <<y, att'[y]>> \in marked' \cup todo'[t]
      BY <1>1, <2>1, <3>1, <3>2 DEF Tree, ChildOf
    <3>4. QED
      BY <3>3 DEF Reaching
  <2>2. spc'[t] = "mark" => Reaching(t)'
    BY <1>2, <2>1, SupTree DEF RInv, LifeInv
  <2>3. QED
    BY <1>1, <1>2, <2>2 DEF RInv
<1>6. QED
  BY <1>1, <1>4, <1>5 DEF RInv, Above

\* Who marks holds launch.lock, so no launcher is between its admission and its
\* record.
LEMMA MarkReaches ==
    ASSUME Typed, LifeInv, LInv, RInv, NEW x \in Tasks \X Attempts,
           CancelMark(x) \/ \E t \in Tasks : StopMark(t, x)
    PROVE  RInv'
<1>1. /\ UNCHANGED <<rec, att, env, stop, spc, lpc, rpc>> /\ marked' = marked \cup {x}
      /\ \E p \in Tasks \cup {Host} : todo' = [todo EXCEPT ![p] = @ \ {x}]
  BY DEF CancelMark, StopMark, TreeMark, sups, kidProcs, hosts
<1>2. \A t \in Tasks : marked \cup todo[t] \subseteq marked' \cup todo'[t]
  BY <1>1 DEF LifeInv, Stored
<1>3. \A t \in Tasks : (Reached(t) => Reached(t)') /\ (Reaching(t) => Reaching(t)')
  BY <1>1, <1>2, TreesKept
<1>4. \A c \in Kids : lpc[c] \notin {"admitted", "half"}
  <2>1. CASE CancelMark(x)
    BY <2>1, TreeNames DEF CancelMark, LInv, Locked
  <2>2. ASSUME NEW t \in Tasks, StopMark(t, x), NEW c \in Kids, lpc[c] \in {"admitted", "half"}
        PROVE  FALSE
    <3>1. admission = t /\ admission = c /\ spc[t] = "mark"
      BY <2>2 DEF StopMark, SAt, LInv, Locked
    <3>2. spc[c] = "none"
      BY <2>2 DEF LInv, Unstarted
    <3>3. QED
      BY <3>1, <3>2
  <2>3. QED
    BY <2>1, <2>2
<1>5. stop \subseteq Tasks
  BY DEF LifeInv, Stored
<1>6. QED
  BY <1>1, <1>3, <1>4, <1>5 DEF RInv

\* Steps of the mailbox and of an explicit cancellation that does not mark.
LEMMA OtherReaches ==
    ASSUME Typed, LifeInv, RInv,
           \/ \E t \in Tasks, r \in Reqs : Submit(t, r) \/ Refuse(t, r) \/ Claim(t, r)
           \/ (\E t \in Tasks : CancelSelect(t)) \/ CancelFails \/ CancelDone \/ CancelLost
           \/ ResumeBegin
    PROVE  RInv'
<1>1. /\ UNCHANGED <<rec, att, env, stop, lpc, marked>>
      /\ rpc' = rpc \/ (rpc = "idle" /\ rpc' = "save")
      /\ \A t \in Tasks : (spc'[t] = "mark" => spc[t] = "mark") /\ todo'[t] = todo[t]
  <2>1. CASE \E t \in Tasks, r \in Reqs : Submit(t, r) \/ Refuse(t, r) \/ Claim(t, r)
    BY <2>1 DEF Submit, Refuse, Claim, SGoto, Typed, dirs, sups, kidProcs, hosts
  <2>2. CASE (\E t \in Tasks : CancelSelect(t)) \/ CancelFails \/ CancelDone \/ CancelLost
    BY <2>2, TreeNames DEF CancelSelect, TreeSelect, CancelFails, CancelDone, CancelLost, LifeInv, Stored,
                Tasks, dirs, sups, kidProcs, hosts
  <2>3. CASE ResumeBegin
    BY <2>3 DEF ResumeBegin, dirs, sups, kidProcs
  <2>4. QED
    BY <2>1, <2>2, <2>3
<1>2. \A t \in Tasks : Reaching(t) => Reaching(t)'
  BY <1>1, TreesKept
<1>3. \A t \in Tasks : Reached(t) => Reached(t)'
  BY <1>1 DEF Reached, Tree, Fenced, ChildOf
<1>4. stop \subseteq Tasks
  BY DEF LifeInv, Stored
<1>5. QED
  BY <1>1, <1>2, <1>3, <1>4 DEF RInv, Above

LEMMA DispatchReaches ==
    ASSUME Typed, LifeInv, RInv, NEW t \in Tasks, NEW c \in Kids, Dispatch(t, c)
    PROVE  RInv'
<1>1. /\ UNCHANGED <<rec, att, stop, marked, todo, rpc>> /\ lpc[c] = "none"
      /\ \A d \in Kids : d # c => env'[d] = env[d]
      /\ lpc' = [lpc EXCEPT ![c] = "spawned"] /\ spc' = [spc EXCEPT ![t] = "look"]
  BY DEF Dispatch, SGoto, Typed, hosts
<1>2. rec[c] = "none"
  BY <1>1 DEF LifeInv, Born
<1>3. \A d \in Kids, y \in Tasks : ChildOf(d, y)' => ChildOf(d, y)
  BY <1>1, <1>2 DEF ChildOf
<1>4. \A S \in SUBSET Tasks, u \in Tasks : Tree(S, u) => Tree(S, u)'
  BY <1>3 DEF Tree
<1>5. \A u \in Tasks : (Reached(u) => Reached(u)') /\ (Reaching(u) => Reaching(u)')
  BY <1>1, <1>4 DEF Reached, Reaching, Fenced
<1>6. stop \subseteq Tasks
  BY DEF LifeInv, Stored
<1>7. /\ \A u \in Tasks : spc'[u] = "mark" => spc[u] = "mark"
      /\ \A d \in Kids : lpc'[d] \in {"admitted", "half"} => d # c /\ lpc[d] = lpc'[d]
  BY <1>1 DEF Typed
<1>8. QED
  BY <1>1, <1>5, <1>6, <1>7 DEF RInv, Above

\* A child is recorded only while its launcher holds launch.lock, and its parent's
\* attempt was open when the launcher took it.
LEMMA LauncherReaches ==
    ASSUME Typed, LifeInv, LInv, RInv, NEW c \in Kids,
           LauncherWork(c) \/ LaunchFails(c) \/ ThreadWork(c)
    PROVE  RInv'
<1>1. /\ KidAnswered(c) \/ KidMoves(c)
      /\ UNCHANGED <<att, env, marked, stop, todo, rpc>>
  BY KidFrame DEF LifeInv
<1>0. c \in Tasks /\ \A d \in Kids : d \in Tasks
  BY DEF Tasks
<1>2. /\ \A d \in Kids : d # c => rec'[d] = rec[d] /\ lpc'[d] = lpc[d]
      /\ \A u \in Tasks : spc'[u] = "mark" => spc[u] = "mark"
  <2>1. CASE KidAnswered(c)
    BY <2>1 DEF KidAnswered
  <2>2. CASE KidMoves(c)
    <3>1. \A d \in Kids : d # c => rec'[d] = rec[d] /\ lpc'[d] = lpc[d]
      BY <1>0, <2>2 DEF KidMoves, KidSaved, LifeInv, Stored, Typed
    <3>2. \A u \in Tasks : spc'[u] = spc[u] \/ spc'[u] = "boot"
      BY <1>0, <2>2 DEF KidMoves, KidSaved, Typed
    <3>3. QED
      BY <3>1, <3>2
  <2>3. QED
    BY <1>1, <2>1, <2>2
<1>3. rec'[c] = "full" => rec[c] = "full" \/ lpc[c] = "half"
  BY <1>1 DEF KidAnswered, KidMoves, KidSaved, LifeInv, Stored, Tasks
<1>4. \A y \in Tasks : lpc[c] = "half" /\ Fenced(y) => Above(c) # <<y, att[y]>>
  <2>1. lpc[c] = "half" => Above(c) \notin marked
    BY DEF RInv
  <2>2. lpc[c] = "half" /\ rpc = "uncancel" => Above(c) # <<Root, att[Root]>>
    BY DEF LifeInv, Offspring, Below, Above, Tasks
  <2>3. QED
    BY <2>1, <2>2 DEF Fenced
<1>5. \A d \in Kids, y \in Tasks :
        ChildOf(d, y)' => ChildOf(d, y) \/ (d = c /\ lpc[c] = "half" /\ Above(c) = <<y, att[y]>>)
  BY <1>1, <1>2, <1>3 DEF ChildOf, Above
<1>6. ASSUME NEW u \in Tasks, Reached(u) PROVE Reached(u)'
  <2>1. PICK S \in SUBSET Tasks : Tree(S, u) /\ \A y \in S : Fenced(y)
    BY <1>6 DEF Reached
  <2>2. \A y \in S, d \in Kids : ChildOf(d, y)' => ChildOf(d, y)
    BY <1>4, <1>5, <2>1
  <2>3. Tree(S, u)' /\ \A y \in S : Fenced(y)'
    BY <1>1, <2>1, <2>2 DEF Tree, Fenced
  <2>4. QED
    BY <2>3 DEF Reached
<1>7. ASSUME NEW u \in Tasks, spc[u] = "mark" PROVE Reaching(u)'
  <2>1. PICK S \in SUBSET Tasks : Tree(S, u) /\ \A y \in S : <<y, att[y]>> \in marked \cup todo[u]
    BY <1>7 DEF RInv, Reaching
  <2>2. lpc[c] # "half"
    BY <1>7 DEF LInv, Locked, Unstarted
  <2>3. \A y \in S, d \in Kids : ChildOf(d, y)' => ChildOf(d, y)
    BY <1>5, <2>2
  <2>4. Tree(S, u)' /\ \A y \in S : <<y, att'[y]>> \in marked' \cup todo'[u]
    BY <1>1, <2>1, <2>3 DEF Tree
  <2>5. QED
    BY <2>4 DEF Reaching
<1>8. lpc'[c] \in {"admitted", "half"} => Above(c) \notin marked
  <2>1. CASE lpc[c] \in {"admitted", "half"}
    BY <2>1 DEF RInv
  <2>2. CASE lpc[c] \notin {"admitted", "half"} /\ lpc'[c] \in {"admitted", "half"}
    <3>1. AdmitLaunch(c)
      BY <2>2 DEF LauncherWork, LaunchFails, ThreadWork, LaunchRefused, SaveTask, SaveSpec, StartKid,
                  Acknowledge, KillLauncher, Answer, LAt, LGoto, Typed, sups
    <3>2. Above(c) \notin closed
      BY <3>1, TreeNames DEF AdmitLaunch, Admissible, ParentOpen, Above
    <3>3. QED
      BY <3>2 DEF LInv, Marks
  <2>3. QED
    BY <2>1, <2>2
<1>9. stop \subseteq Tasks
  BY DEF LifeInv, Stored
<1>10. QED
  BY <1>1, <1>2, <1>6, <1>7, <1>8, <1>9 DEF RInv, Above

\* A resume begins an attempt nobody is a child of, and forgets the old one's stop.
LEMMA ResumeReaches ==
    ASSUME Typed, LifeInv, RInv, ResumeSave \/ ResumeStart
    PROVE  RInv'
<1>0. Root \in Tasks /\ stop \subseteq Tasks
  BY DEF Tasks, LifeInv, Stored
<1>1. CASE ResumeSave
  <2>1. /\ att' = [att EXCEPT ![Root] = @ + 1] /\ rpc = "save" /\ rpc' = "uncancel"
        /\ UNCHANGED <<rec, env, stop, spc, lpc, marked, todo>>
    BY <1>1 DEF ResumeSave, sups, kidProcs
  <2>2. /\ \A u \in Tasks : u # Root => att'[u] = att[u]
        /\ att'[Root] = att[Root] + 1 /\ att[Root] \in Nat
    BY <1>0, <2>1, TreeBounds DEF Typed, Attempts
  <2>3. \A c \in Kids : rec[c] = "full" /\ env[c].parent = Root => env[c].patt # att'[Root]
    BY <2>2 DEF LifeInv, Born, Numbered
  <2>4. \A c \in Kids, y \in Tasks : ChildOf(c, y)' => ChildOf(c, y)
    BY <2>1, <2>2, <2>3 DEF ChildOf
  <2>5. \A S \in SUBSET Tasks, u \in Tasks : Tree(S, u) => Tree(S, u)'
    BY <2>4 DEF Tree
  <2>6. \A y \in Tasks : Fenced(y) => Fenced(y)'
    BY <2>1, <2>2 DEF Fenced
  <2>7. \A u \in stop : Reached(u)'
    BY <1>0, <2>5, <2>6 DEF RInv, Reached
  <2>8. ASSUME NEW u \in Tasks, spc[u] = "mark" PROVE Reaching(u)'
    <3>1. PICK S \in SUBSET Tasks : Tree(S, u) /\ \A y \in S : <<y, att[y]>> \in marked \cup todo[u]
      BY <2>8 DEF RInv, Reaching
    <3>2. u # Root
      BY <2>1, <2>8 DEF LifeInv, Owning, Active2, SupLabels
    <3>3. \A y \in S : att'[y] = att[y]
      BY <2>2, <3>1, <3>2 DEF Tree
    <3>4. Tree(S, u)' /\ \A y \in S : <<y, att'[y]>> \in marked' \cup todo'[u]
      BY <2>1, <2>5, <3>1, <3>3
    <3>5. QED
      BY <3>4 DEF Reaching
  <2>9. QED
    BY <2>1, <2>7, <2>8 DEF RInv, Above
<1>2. CASE ResumeStart
  <2>1. /\ stop' = stop \ {Root} /\ spc' = [spc EXCEPT ![Root] = "boot"]
        /\ UNCHANGED <<rec, att, env, lpc, marked, todo>>
    BY <1>2 DEF ResumeStart, SGoto, kidProcs
  <2>2. \A S \in SUBSET Tasks, u \in Tasks : Tree(S, u) => Tree(S, u)'
    BY <2>1 DEF Tree, ChildOf
  <2>3. ASSUME NEW u \in stop, u # Root PROVE Reached(u)'
    <3>1. PICK S \in SUBSET Tasks : Tree(S, u) /\ \A y \in S : Fenced(y)
      BY <2>3 DEF RInv, Reached
    <3>2. \A y \in S : Fenced(y)'
      BY <2>1, <2>3, <3>1 DEF Tree, Fenced
    <3>3. QED
      BY <1>0, <2>2, <2>3, <3>1, <3>2 DEF Reached
  <2>4. \A u \in Tasks : spc'[u] = "mark" => spc[u] = "mark"
    BY <2>1 DEF Typed
  <2>5. \A u \in Tasks : Reaching(u) => Reaching(u)'
    BY <2>1, <2>2 DEF Reaching
  <2>6. QED
    BY <2>1, <2>3, <2>4, <2>5 DEF RInv, Above
<1>3. QED
  BY <1>1, <1>2

LEMMA ReachInductive == DInv /\ LInv /\ LifeInv /\ RInv /\ [Next]_vars => RInv'
<1> SUFFICES ASSUME DInv, LInv, LifeInv, RInv, [Next]_vars PROVE RInv'
  OBVIOUS
<1>1. CASE UNCHANGED vars
  BY <1>1 DEF RInv, Reached, Reaching, Tree, Fenced, ChildOf, Above, vars, dirs, sups, kidProcs,
     hosts
<1>2. CASE ~(UNCHANGED vars)
  BY <1>2, StepGroups, SupReaches, MarkReaches, OtherReaches, DispatchReaches, LauncherReaches,
     ResumeReaches DEF DInv
<1>3. QED
  BY <1>1, <1>2

\* A supervisor that stopped its worker leaves no descendant of its attempt that is
\* neither finished nor told to stop, although launchers of its children and
\* grandchildren were running when it selected them.
THEOREM StopsReachAll == Spec => []StopReaches
<1>1. DInv /\ LInv /\ LifeInv /\ RInv => StopReaches
  <2> SUFFICES ASSUME DInv, LInv, LifeInv, RInv, NEW t \in stop, NEW c \in Selected(t) \ {t}
               PROVE  c \in cancel
    BY DEF StopReaches
  <2>1. t \in Tasks
    BY DEF LifeInv, Stored
  <2>2. PICK S \in SUBSET Tasks : Tree(S, t) /\ \A y \in S : Fenced(y)
    BY DEF RInv, Reached
  <2>3. c \in S /\ c # Root
    BY <2>1, <2>2, SelectedTree DEF Tree
  <2>4. c \in Kids /\ <<c, att[c]>> \in marked
    BY <2>2, <2>3 DEF Fenced, Tasks
  <2>5. att[c] \in Attempts
    BY <2>4 DEF DInv, Typed, Tasks
  <2>6. QED
    BY <2>4, <2>5 DEF LInv, Marks
<1>2. QED
  BY Initially, LInitially, LifeInitially, RInitially, DispatchInductive, LocksInductive,
     LifeInductive, ReachInductive, <1>1, PTL DEF Spec

===============================================================================
