------------------------ MODULE HeadlessAttemptProofs ------------------------
(***************************************************************************)
(* Theorems about HeadlessAttempt, for every set of clients and            *)
(* supervisors.  The argument rests on the two locks: whoever works on the *)
(* task's metadata holds owner.lock, so a supervisor that read             *)
(* headless.json keeps reading the same attempt until it ends.             *)
(***************************************************************************)
EXTENDS HeadlessAttempt, TLAPS

\* Clients that work under owner.lock.
ClientOwning == {"recover_task", "recover_prompt", "recover_spec", "recover_done", "check",
                 "journal", "save_task", "save_prompt", "save_spec", "uncancel",
                 "restore_task", "restore_prompt", "restore_spec", "probe"}

OwnerHeld ==
    /\ \A c \in Clients : cpc[c] \in ClientOwning => owner = c
    /\ \A s \in Sups : spc[s] \in Owning => owner = s

AdmissionHeld ==
    /\ \A c \in Clients : cpc[c] = "cancel_write" => admission = c
    /\ \A s \in Sups : spc[s] \in {"spawn", "stop_write", "drain_write"} => admission = s

\* What a client remembers is there when it uses it.
ClientLocals ==
    \A c \in Clients :
        /\ cpc[c] \in {"journal", "save_task", "save_prompt", "save_spec", "uncancel",
                       "mkdir", "spawn_sup", "poll", "fail_lock", "cancel_write"}
              => catt[c] \in Attempts
        /\ cpc[c] \in {"recover_task", "recover_prompt", "recover_spec",
                       "journal", "save_task", "save_prompt", "save_spec", "uncancel",
                       "fail_lock", "restore_task", "restore_prompt", "restore_spec"}
              => cold[c] \in Olds

\* The attempt a supervisor runs is the recorded one, as long as it owns the task.
AttemptRead ==
    \A s \in Sups :
        /\ spc[s] \in Owning => satt[s] = spec
        /\ worker[s] # "none" => satt[s] \in Attempts

\* Between the spawn intent and the spawn everything that was checked still holds.
Verified == \A s \in Sups : spc[s] = "spawn" => Consistent(satt[s]) /\ ~cancel

Unspawned == \A s \in Sups : spc[s] \in {"new", "boot", "lock", "validate", "spawn"} => worker[s] = "none"

Inv == TypeOK /\ OwnerHeld /\ AdmissionHeld /\ ClientLocals /\ AttemptRead /\ Verified /\ Unspawned

\* Without faults: how far an attempt's worker and its result are, by the step
\* its supervisor is at.
Progress(s) ==
    /\ spc[s] \in {"validate", "spawn", "start_file", "set_running", "loop", "stop_tree", "stop_write",
                   "stopping", "close", "drain_tree", "drain_write", "finish"} => result[satt[s]] = None
    /\ spc[s] \in {"drain_tree", "drain_write", "finish", "set_final", "error_state", "exited"} => ~Alive(s)
    /\ spc[s] \in {"set_final", "error_state"} => result[satt[s]] # None
    /\ spc[s] = "error" /\ Alive(s) => result[satt[s]] = None
    /\ spc[s] = "exited" /\ worker[s] # "none" => result[satt[s]] # None

FaultFree == ~Faults => (\A s \in Sups : Progress(s)) /\ SpawnOnce

IInv == Inv /\ FaultFree

-----------------------------------------------------------------------------
SupMove(s) == SupStep(s) \/ SupervisorLost(s) \/ WorkerExits(s)

LEMMA TypeClient ==
    ASSUME Inv, NEW c \in Clients, ClientStep(c)
    PROVE  TypeOK'
<1> USE ProcessesDistinct DEF Inv, TypeOK, ClientLocals, At, Goto, Ends, WriteBack, Release,
        taskFiles, attemptFiles, locks, supVars, ClientSteps
<1>1. CASE ResumeBegin(c)
  BY <1>1 DEF ResumeBegin, Journals
<1>2. CASE RecoverWrite(c)
  <2> USE DEF RecoverWrite, Restore
  <2>1. cold[c] \in Olds /\ cold[c].rec \in Records /\ cold[c].prm \in Submissions /\ cold[c].spec \in Attempts
    BY <1>2 DEF Olds
  <2>2. QED
    BY <1>2, <2>1
<1>3. CASE RecoverDone(c)
  BY <1>3 DEF RecoverDone, Olds
<1>4. CASE ResumeRefused(c)
  BY <1>4 DEF ResumeRefused
<1>5. CASE ResumeChecked(c)
  BY <1>5 DEF ResumeChecked, Olds
<1>6. CASE WriteJournal(c)
  BY <1>6 DEF WriteJournal, Journals
<1>7. CASE SaveTask(c)
  BY <1>7 DEF SaveTask, Records
<1>8. CASE SavePrompt(c)
  BY <1>8 DEF SavePrompt, Submissions
<1>9. CASE SaveSpec(c)
  BY <1>9 DEF SaveSpec
<1>10. CASE SaveFails(c)
  BY <1>10 DEF SaveFails
<1>11. CASE Uncancel(c)
  BY <1>11 DEF Uncancel
<1>12. CASE MakeAttemptDir(c)
  BY <1>12 DEF MakeAttemptDir
<1>13. CASE Acknowledge(c)
  BY <1>13 DEF Acknowledge
<1>14. CASE StartFailed(c)
  BY <1>14 DEF StartFailed
<1>15. CASE FailLock(c)
  BY <1>15 DEF FailLock
<1>16. CASE Restore(c)
  <2> USE DEF RecoverWrite, Restore
  <2>1. cold[c] \in Olds /\ cold[c].rec \in Records /\ cold[c].prm \in Submissions /\ cold[c].spec \in Attempts
    BY <1>16 DEF Olds
  <2>2. QED
    BY <1>16, <2>1
<1>17. CASE CancelBegin(c)
  BY <1>17 DEF CancelBegin
<1>18. CASE CancelWrite(c)
  BY <1>18 DEF CancelWrite
<1>19. CASE ProbeBegin(c)
  BY <1>19 DEF ProbeBegin
<1>20. CASE ProbeEnd(c)
  BY <1>20 DEF ProbeEnd
<1>21. CASE ClientCrash(c)
  BY <1>21 DEF ClientCrash
<1>22. CASE \E s \in Sups : SpawnSupervisor(c, s)
  BY <1>22 DEF SpawnSupervisor, Digest, SupSteps
<1>23. QED
  BY <1>1, <1>2, <1>3, <1>4, <1>5, <1>6, <1>7, <1>8, <1>9, <1>10, <1>11, <1>12, <1>13,
     <1>14, <1>15, <1>16, <1>17, <1>18, <1>19, <1>20, <1>21, <1>22 DEF ClientStep, ClientWork

LEMMA TypeSup ==
    ASSUME Inv, NEW s \in Sups, SupMove(s)
    PROVE  TypeOK'
<1> USE ProcessesDistinct, KnownReasons DEF Inv, TypeOK, SAt, SGoto, SKeeps, Disk, Release, CancelOwn,
        SetState, Records, taskFiles, attemptFiles, locks, clientVars, SupSteps, WorkerStates
<1>1. CASE CheckDigest(s)
  BY <1>1 DEF CheckDigest
<1>2. CASE OwnAttempt(s)
  BY <1>2 DEF OwnAttempt
<1>3. CASE OwnRefused(s)
  BY <1>3 DEF OwnRefused
<1>4. CASE SpawnIntent(s)
  BY <1>4 DEF SpawnIntent, AttemptRead, Owning
<1>5. CASE ValidateFails(s)
  BY <1>5 DEF ValidateFails
<1>6. CASE Spawn(s)
  BY <1>6 DEF Spawn
<1>7. CASE SpawnFails(s)
  BY <1>7 DEF SpawnFails
<1>8. CASE WriteStarted(s)
  BY <1>8 DEF WriteStarted, AttemptRead, Owning
<1>9. CASE SetRunning(s)
  BY <1>9 DEF SetRunning
<1>10. CASE \E reason \in StopReasons \cup {"cancelled"} : StopFor(s, reason)
  BY <1>10 DEF StopFor
<1>11. CASE StopTree(s)
  <2> USE <1>11 DEF StopTree
  <2>1. CASE SAt(s, "stop_tree")
    BY <2>1
  <2>2. CASE SAt(s, "stop_write")
    BY <2>2
  <2>3. QED
    BY <2>1, <2>2
<1>12. CASE TreeBusy(s)
  BY <1>12 DEF TreeBusy
<1>13. CASE KillWorker(s)
  BY <1>13 DEF KillWorker
<1>14. CASE ChildExited(s)
  BY <1>14 DEF ChildExited
<1>15. CASE Drain(s)
  BY <1>15 DEF Drain, AttemptRead, Owning
<1>16. CASE DrainTree(s)
  <2> USE <1>16 DEF DrainTree
  <2>1. CASE SAt(s, "drain_tree")
    BY <2>1
  <2>2. CASE SAt(s, "drain_write")
    BY <2>2
  <2>3. QED
    BY <2>1, <2>2
<1>17. CASE Finish(s)
  BY <1>17 DEF Finish, AttemptRead, Owning, Outcomes, Resumable
<1>18. CASE SetFinal(s)
  BY <1>18 DEF SetFinal
<1>19. CASE IOFails(s)
  BY <1>19 DEF IOFails
<1>20. CASE WriteError(s)
  BY <1>20 DEF WriteError, AttemptRead, Owning, Outcomes
<1>21. CASE SetFailed(s)
  BY <1>21 DEF SetFailed
<1>22. CASE SupervisorLost(s)
  BY <1>22 DEF SupervisorLost
<1>23. CASE WorkerExits(s)
  BY <1>23 DEF WorkerExits
<1>24. QED
  BY <1>1, <1>2, <1>3, <1>4, <1>5, <1>6, <1>7, <1>8, <1>9, <1>10, <1>11, <1>12, <1>13,
     <1>14, <1>15, <1>16, <1>17, <1>18, <1>19, <1>20, <1>21, <1>22, <1>23 DEF SupStep, SupWork, SupMove


LEMMA LocksClient ==
    ASSUME Inv, NEW c \in Clients, ClientStep(c)
    PROVE  OwnerHeld' /\ AdmissionHeld'
<1> USE ProcessesDistinct DEF Inv, TypeOK, At, Goto, Ends, WriteBack, Release,
        taskFiles, attemptFiles, locks, supVars, OwnerHeld, AdmissionHeld, ClientOwning,
        Owning, SupSteps
<1>1. CASE ResumeBegin(c)
  BY <1>1 DEF ResumeBegin
<1>2. CASE RecoverWrite(c)
  BY <1>2 DEF RecoverWrite
<1>3. CASE RecoverDone(c)
  BY <1>3 DEF RecoverDone
<1>4. CASE ResumeRefused(c)
  BY <1>4 DEF ResumeRefused
<1>5. CASE ResumeChecked(c)
  BY <1>5 DEF ResumeChecked
<1>6. CASE WriteJournal(c)
  BY <1>6 DEF WriteJournal
<1>7. CASE SaveTask(c)
  BY <1>7 DEF SaveTask
<1>8. CASE SavePrompt(c)
  BY <1>8 DEF SavePrompt
<1>9. CASE SaveSpec(c)
  BY <1>9 DEF SaveSpec
<1>10. CASE SaveFails(c)
  BY <1>10 DEF SaveFails
<1>11. CASE Uncancel(c)
  BY <1>11 DEF Uncancel
<1>12. CASE MakeAttemptDir(c)
  BY <1>12 DEF MakeAttemptDir
<1>13. CASE Acknowledge(c)
  BY <1>13 DEF Acknowledge
<1>14. CASE StartFailed(c)
  BY <1>14 DEF StartFailed
<1>15. CASE FailLock(c)
  BY <1>15 DEF FailLock
<1>16. CASE Restore(c)
  BY <1>16 DEF Restore
<1>17. CASE CancelBegin(c)
  BY <1>17 DEF CancelBegin
<1>18. CASE CancelWrite(c)
  BY <1>18 DEF CancelWrite
<1>19. CASE ProbeBegin(c)
  BY <1>19 DEF ProbeBegin
<1>20. CASE ProbeEnd(c)
  BY <1>20 DEF ProbeEnd
<1>21. CASE ClientCrash(c)
  BY <1>21 DEF ClientCrash
<1>22. CASE \E s \in Sups : SpawnSupervisor(c, s)
  BY <1>22 DEF SpawnSupervisor
<1>23. QED
  BY <1>1, <1>2, <1>3, <1>4, <1>5, <1>6, <1>7, <1>8, <1>9, <1>10, <1>11, <1>12, <1>13,
     <1>14, <1>15, <1>16, <1>17, <1>18, <1>19, <1>20, <1>21, <1>22 DEF ClientStep, ClientWork

LEMMA LocksSup ==
    ASSUME Inv, NEW s \in Sups, SupMove(s)
    PROVE  OwnerHeld' /\ AdmissionHeld'
<1> USE ProcessesDistinct DEF Inv, TypeOK, SAt, SGoto, SKeeps, Disk, Release, CancelOwn,
        SetState, taskFiles, attemptFiles, locks, clientVars, Owning, SupSteps, OwnerHeld, AdmissionHeld, ClientOwning
<1>1. CASE CheckDigest(s)
  BY <1>1 DEF CheckDigest
<1>2. CASE OwnAttempt(s)
  BY <1>2 DEF OwnAttempt
<1>3. CASE OwnRefused(s)
  BY <1>3 DEF OwnRefused
<1>4. CASE SpawnIntent(s)
  BY <1>4 DEF SpawnIntent
<1>5. CASE ValidateFails(s)
  BY <1>5 DEF ValidateFails
<1>6. CASE Spawn(s)
  BY <1>6 DEF Spawn
<1>7. CASE SpawnFails(s)
  BY <1>7 DEF SpawnFails
<1>8. CASE WriteStarted(s)
  BY <1>8 DEF WriteStarted
<1>9. CASE SetRunning(s)
  BY <1>9 DEF SetRunning
<1>10. CASE \E reason \in StopReasons \cup {"cancelled"} : StopFor(s, reason)
  BY <1>10 DEF StopFor
<1>11. CASE StopTree(s)
  <2> USE <1>11 DEF StopTree
  <2>1. CASE SAt(s, "stop_tree")
    BY <2>1
  <2>2. CASE SAt(s, "stop_write")
    BY <2>2
  <2>3. QED
    BY <2>1, <2>2
<1>12. CASE TreeBusy(s)
  BY <1>12 DEF TreeBusy
<1>13. CASE KillWorker(s)
  BY <1>13 DEF KillWorker
<1>14. CASE ChildExited(s)
  BY <1>14 DEF ChildExited
<1>15. CASE Drain(s)
  BY <1>15 DEF Drain
<1>16. CASE DrainTree(s)
  <2> USE <1>16 DEF DrainTree
  <2>1. CASE SAt(s, "drain_tree")
    BY <2>1
  <2>2. CASE SAt(s, "drain_write")
    BY <2>2
  <2>3. QED
    BY <2>1, <2>2
<1>17. CASE Finish(s)
  BY <1>17 DEF Finish
<1>18. CASE SetFinal(s)
  BY <1>18 DEF SetFinal
<1>19. CASE IOFails(s)
  BY <1>19 DEF IOFails
<1>20. CASE WriteError(s)
  BY <1>20 DEF WriteError
<1>21. CASE SetFailed(s)
  BY <1>21 DEF SetFailed
<1>22. CASE SupervisorLost(s)
  BY <1>22 DEF SupervisorLost
<1>23. CASE WorkerExits(s)
  BY <1>23 DEF WorkerExits
<1>24. QED
  BY <1>1, <1>2, <1>3, <1>4, <1>5, <1>6, <1>7, <1>8, <1>9, <1>10, <1>11, <1>12, <1>13,
     <1>14, <1>15, <1>16, <1>17, <1>18, <1>19, <1>20, <1>21, <1>22, <1>23 DEF SupStep, SupWork, SupMove


LEMMA LocalsClient ==
    ASSUME Inv, NEW c \in Clients, ClientStep(c)
    PROVE  ClientLocals'
<1> USE ProcessesDistinct DEF Inv, TypeOK, At, Goto, Ends, WriteBack, Release,
        taskFiles, attemptFiles, locks, supVars, ClientLocals
<1>1. CASE ResumeBegin(c)
  BY <1>1 DEF ResumeBegin, Journals
<1>2. CASE RecoverWrite(c)
  BY <1>2 DEF RecoverWrite
<1>3. CASE RecoverDone(c)
  BY <1>3 DEF RecoverDone
<1>4. CASE ResumeRefused(c)
  BY <1>4 DEF ResumeRefused
<1>5. CASE ResumeChecked(c)
  BY <1>5 DEF ResumeChecked, Olds
<1>6. CASE WriteJournal(c)
  BY <1>6 DEF WriteJournal
<1>7. CASE SaveTask(c)
  BY <1>7 DEF SaveTask
<1>8. CASE SavePrompt(c)
  BY <1>8 DEF SavePrompt
<1>9. CASE SaveSpec(c)
  BY <1>9 DEF SaveSpec
<1>10. CASE SaveFails(c)
  BY <1>10 DEF SaveFails
<1>11. CASE Uncancel(c)
  BY <1>11 DEF Uncancel
<1>12. CASE MakeAttemptDir(c)
  BY <1>12 DEF MakeAttemptDir
<1>13. CASE Acknowledge(c)
  BY <1>13 DEF Acknowledge
<1>14. CASE StartFailed(c)
  BY <1>14 DEF StartFailed
<1>15. CASE FailLock(c)
  BY <1>15 DEF FailLock
<1>16. CASE Restore(c)
  BY <1>16 DEF Restore
<1>17. CASE CancelBegin(c)
  BY <1>17 DEF CancelBegin
<1>18. CASE CancelWrite(c)
  BY <1>18 DEF CancelWrite
<1>19. CASE ProbeBegin(c)
  BY <1>19 DEF ProbeBegin
<1>20. CASE ProbeEnd(c)
  BY <1>20 DEF ProbeEnd
<1>21. CASE ClientCrash(c)
  BY <1>21 DEF ClientCrash
<1>22. CASE \E s \in Sups : SpawnSupervisor(c, s)
  BY <1>22 DEF SpawnSupervisor
<1>23. QED
  BY <1>1, <1>2, <1>3, <1>4, <1>5, <1>6, <1>7, <1>8, <1>9, <1>10, <1>11, <1>12, <1>13,
     <1>14, <1>15, <1>16, <1>17, <1>18, <1>19, <1>20, <1>21, <1>22 DEF ClientStep, ClientWork


LEMMA ReadClient ==
    ASSUME Inv, NEW c \in Clients, ClientStep(c)
    PROVE  AttemptRead' /\ Verified' /\ Unspawned'
<1> USE ProcessesDistinct DEF Inv, TypeOK, At, Goto, Ends, WriteBack, Release,
        taskFiles, attemptFiles, locks, supVars, OwnerHeld, AdmissionHeld, ClientOwning,
        AttemptRead, Verified, Unspawned, Consistent, Owning, SupSteps
<1>1. CASE ResumeBegin(c)
  BY <1>1 DEF ResumeBegin
<1>2. CASE RecoverWrite(c)
  BY <1>2 DEF RecoverWrite
<1>3. CASE RecoverDone(c)
  BY <1>3 DEF RecoverDone
<1>4. CASE ResumeRefused(c)
  BY <1>4 DEF ResumeRefused
<1>5. CASE ResumeChecked(c)
  BY <1>5 DEF ResumeChecked
<1>6. CASE WriteJournal(c)
  BY <1>6 DEF WriteJournal
<1>7. CASE SaveTask(c)
  BY <1>7 DEF SaveTask
<1>8. CASE SavePrompt(c)
  BY <1>8 DEF SavePrompt
<1>9. CASE SaveSpec(c)
  BY <1>9 DEF SaveSpec
<1>10. CASE SaveFails(c)
  BY <1>10 DEF SaveFails
<1>11. CASE Uncancel(c)
  BY <1>11 DEF Uncancel
<1>12. CASE MakeAttemptDir(c)
  BY <1>12 DEF MakeAttemptDir
<1>13. CASE Acknowledge(c)
  BY <1>13 DEF Acknowledge
<1>14. CASE StartFailed(c)
  BY <1>14 DEF StartFailed
<1>15. CASE FailLock(c)
  BY <1>15 DEF FailLock
<1>16. CASE Restore(c)
  BY <1>16 DEF Restore
<1>17. CASE CancelBegin(c)
  BY <1>17 DEF CancelBegin
<1>18. CASE CancelWrite(c)
  BY <1>18 DEF CancelWrite
<1>19. CASE ProbeBegin(c)
  BY <1>19 DEF ProbeBegin
<1>20. CASE ProbeEnd(c)
  BY <1>20 DEF ProbeEnd
<1>21. CASE ClientCrash(c)
  BY <1>21 DEF ClientCrash
<1>22. CASE \E s \in Sups : SpawnSupervisor(c, s)
  BY <1>22 DEF SpawnSupervisor
<1>23. QED
  BY <1>1, <1>2, <1>3, <1>4, <1>5, <1>6, <1>7, <1>8, <1>9, <1>10, <1>11, <1>12, <1>13,
     <1>14, <1>15, <1>16, <1>17, <1>18, <1>19, <1>20, <1>21, <1>22 DEF ClientStep, ClientWork

LEMMA ReadSup ==
    ASSUME Inv, NEW s \in Sups, SupMove(s)
    PROVE  AttemptRead' /\ Verified' /\ Unspawned'
<1> USE ProcessesDistinct DEF Inv, TypeOK, SAt, SGoto, SKeeps, Disk, Release, CancelOwn,
        SetState, taskFiles, attemptFiles, locks, clientVars, Owning, SupSteps,
        OwnerHeld, AdmissionHeld, AttemptRead, Verified, Unspawned, Consistent, Composition
<1>1. CASE CheckDigest(s)
  BY <1>1 DEF CheckDigest
<1>2. CASE OwnAttempt(s)
  BY <1>2 DEF OwnAttempt
<1>3. CASE OwnRefused(s)
  BY <1>3 DEF OwnRefused
<1>4. CASE SpawnIntent(s)
  BY <1>4 DEF SpawnIntent
<1>5. CASE ValidateFails(s)
  BY <1>5 DEF ValidateFails
<1>6. CASE Spawn(s)
  BY <1>6 DEF Spawn
<1>7. CASE SpawnFails(s)
  BY <1>7 DEF SpawnFails
<1>8. CASE WriteStarted(s)
  BY <1>8 DEF WriteStarted
<1>9. CASE SetRunning(s)
  BY <1>9 DEF SetRunning
<1>10. CASE \E reason \in StopReasons \cup {"cancelled"} : StopFor(s, reason)
  BY <1>10 DEF StopFor
<1>11. CASE StopTree(s)
  <2> USE <1>11 DEF StopTree
  <2>1. CASE SAt(s, "stop_tree")
    BY <2>1
  <2>2. CASE SAt(s, "stop_write")
    BY <2>2
  <2>3. QED
    BY <2>1, <2>2
<1>12. CASE TreeBusy(s)
  BY <1>12 DEF TreeBusy
<1>13. CASE KillWorker(s)
  BY <1>13 DEF KillWorker
<1>14. CASE ChildExited(s)
  BY <1>14 DEF ChildExited
<1>15. CASE Drain(s)
  BY <1>15 DEF Drain
<1>16. CASE DrainTree(s)
  <2> USE <1>16 DEF DrainTree
  <2>1. CASE SAt(s, "drain_tree")
    BY <2>1
  <2>2. CASE SAt(s, "drain_write")
    BY <2>2
  <2>3. QED
    BY <2>1, <2>2
<1>17. CASE Finish(s)
  BY <1>17 DEF Finish
<1>18. CASE SetFinal(s)
  BY <1>18 DEF SetFinal
<1>19. CASE IOFails(s)
  BY <1>19 DEF IOFails
<1>20. CASE WriteError(s)
  BY <1>20 DEF WriteError
<1>21. CASE SetFailed(s)
  BY <1>21 DEF SetFailed
<1>22. CASE SupervisorLost(s)
  BY <1>22 DEF SupervisorLost
<1>23. CASE WorkerExits(s)
  BY <1>23 DEF WorkerExits
<1>24. QED
  BY <1>1, <1>2, <1>3, <1>4, <1>5, <1>6, <1>7, <1>8, <1>9, <1>10, <1>11, <1>12, <1>13,
     <1>14, <1>15, <1>16, <1>17, <1>18, <1>19, <1>20, <1>21, <1>22, <1>23 DEF SupStep, SupWork, SupMove


LEMMA ProgressClient ==
    ASSUME Inv, FaultFree, ~Faults, NEW c \in Clients, ClientStep(c)
    PROVE  (\A t \in Sups : Progress(t)') /\ SpawnOnce'
<1> USE ProcessesDistinct DEF Inv, TypeOK, At, Goto, Ends, WriteBack, Release,
        taskFiles, attemptFiles, locks, supVars, FaultFree, Progress, SpawnOnce, Alive
<1>1. CASE ResumeBegin(c)
  BY <1>1 DEF ResumeBegin
<1>2. CASE RecoverWrite(c)
  BY <1>2 DEF RecoverWrite
<1>3. CASE RecoverDone(c)
  BY <1>3 DEF RecoverDone
<1>4. CASE ResumeRefused(c)
  BY <1>4 DEF ResumeRefused
<1>5. CASE ResumeChecked(c)
  BY <1>5 DEF ResumeChecked
<1>6. CASE WriteJournal(c)
  BY <1>6 DEF WriteJournal
<1>7. CASE SaveTask(c)
  BY <1>7 DEF SaveTask
<1>8. CASE SavePrompt(c)
  BY <1>8 DEF SavePrompt
<1>9. CASE SaveSpec(c)
  BY <1>9 DEF SaveSpec
<1>10. CASE SaveFails(c)
  BY <1>10 DEF SaveFails
<1>11. CASE Uncancel(c)
  BY <1>11 DEF Uncancel
<1>12. CASE MakeAttemptDir(c)
  BY <1>12 DEF MakeAttemptDir
<1>13. CASE Acknowledge(c)
  BY <1>13 DEF Acknowledge
<1>14. CASE StartFailed(c)
  BY <1>14 DEF StartFailed
<1>15. CASE FailLock(c)
  BY <1>15 DEF FailLock
<1>16. CASE Restore(c)
  BY <1>16 DEF Restore
<1>17. CASE CancelBegin(c)
  BY <1>17 DEF CancelBegin
<1>18. CASE CancelWrite(c)
  BY <1>18 DEF CancelWrite
<1>19. CASE ProbeBegin(c)
  BY <1>19 DEF ProbeBegin
<1>20. CASE ProbeEnd(c)
  BY <1>20 DEF ProbeEnd
<1>21. CASE ClientCrash(c)
  BY <1>21 DEF ClientCrash
<1>22. CASE \E s \in Sups : SpawnSupervisor(c, s)
  BY <1>22 DEF SpawnSupervisor
<1>23. QED
  BY <1>1, <1>2, <1>3, <1>4, <1>5, <1>6, <1>7, <1>8, <1>9, <1>10, <1>11, <1>12, <1>13,
     <1>14, <1>15, <1>16, <1>17, <1>18, <1>19, <1>20, <1>21, <1>22 DEF ClientStep, ClientWork

LEMMA ProgressSup ==
    ASSUME Inv, FaultFree, ~Faults, NEW s \in Sups, SupMove(s)
    PROVE  (\A t \in Sups : Progress(t)') /\ SpawnOnce'
<1> USE ProcessesDistinct DEF Inv, TypeOK, SAt, SGoto, SKeeps, Disk, Release, CancelOwn,
        SetState, taskFiles, attemptFiles, locks, clientVars, Owning, SupSteps,
        OwnerHeld, AttemptRead, Unspawned, FaultFree, Progress, SpawnOnce, Alive
<1>1. CASE CheckDigest(s)
  BY <1>1 DEF CheckDigest
<1>2. CASE OwnAttempt(s)
  BY <1>2 DEF OwnAttempt
<1>3. CASE OwnRefused(s)
  BY <1>3 DEF OwnRefused
<1>4. CASE SpawnIntent(s)
  BY <1>4 DEF SpawnIntent
<1>5. CASE ValidateFails(s)
  BY <1>5 DEF ValidateFails
<1>6. CASE Spawn(s)
  BY <1>6 DEF Spawn
<1>7. CASE SpawnFails(s)
  BY <1>7 DEF SpawnFails
<1>8. CASE WriteStarted(s)
  BY <1>8 DEF WriteStarted
<1>9. CASE SetRunning(s)
  BY <1>9 DEF SetRunning
<1>10. CASE \E reason \in StopReasons \cup {"cancelled"} : StopFor(s, reason)
  BY <1>10 DEF StopFor
<1>11. CASE StopTree(s)
  <2> USE <1>11 DEF StopTree
  <2>1. CASE SAt(s, "stop_tree")
    BY <2>1
  <2>2. CASE SAt(s, "stop_write")
    BY <2>2
  <2>3. QED
    BY <2>1, <2>2
<1>12. CASE TreeBusy(s)
  BY <1>12 DEF TreeBusy
<1>13. CASE KillWorker(s)
  BY <1>13 DEF KillWorker
<1>14. CASE ChildExited(s)
  BY <1>14 DEF ChildExited
<1>15. CASE Drain(s)
  BY <1>15 DEF Drain
<1>16. CASE DrainTree(s)
  <2> USE <1>16 DEF DrainTree
  <2>1. CASE SAt(s, "drain_tree")
    BY <2>1
  <2>2. CASE SAt(s, "drain_write")
    BY <2>2
  <2>3. QED
    BY <2>1, <2>2
<1>17. CASE Finish(s)
  <2>1. satt[s] = spec /\ satt[s] \in Attempts
    BY <1>17 DEF Finish
  <2>2. PICK o \in Outcomes : result' = [result EXCEPT ![satt[s]] = o]
    <3>1. (IF stop[s] = None THEN {"succeeded", "failed"} ELSE {stop[s]}) \subseteq Outcomes
      BY KnownReasons DEF Outcomes, Resumable
    <3>2. QED
      BY <1>17, <3>1 DEF Finish
  <2>3. o # None
    BY ProcessesDistinct
  <2>4. result'[spec] # None /\ \A a \in Attempts : a # spec => result'[a] = result[a]
    BY <2>1, <2>2, <2>3
  <2>5. ASSUME NEW t \in Sups PROVE Progress(t)'
    <3>1. t # s => spc[t] \notin Owning
      BY <1>17 DEF Finish
    <3>2. worker' = worker /\ satt' = satt /\ spc' = [spc EXCEPT ![s] = "set_final"]
      BY <1>17 DEF Finish
    <3>3. worker[t] # "none" => satt[t] \in Attempts
      OBVIOUS
    <3>4. CASE t = s
      BY <3>2, <3>4, <2>1, <2>4, <1>17 DEF Finish
    <3>5. CASE t # s
      BY <3>1, <3>2, <3>3, <3>5, <2>4
    <3>6. QED
      BY <3>4, <3>5
  <2>6. SpawnOnce'
    BY <1>17 DEF Finish
  <2>7. QED
    BY <2>5, <2>6
<1>18. CASE SetFinal(s)
  BY <1>18 DEF SetFinal
<1>19. CASE IOFails(s)
  BY <1>19 DEF IOFails
<1>20. CASE WriteError(s)
  <2>1. satt[s] = spec /\ satt[s] \in Attempts
    BY <1>20 DEF WriteError
  <2>2. result' = [result EXCEPT ![satt[s]] = "supervisor_error"]
    BY <1>20 DEF WriteError
  <2>3. "supervisor_error" # None
    BY ProcessesDistinct DEF Outcomes
  <2>4. result'[spec] # None /\ \A a \in Attempts : a # spec => result'[a] = result[a]
    BY <2>1, <2>2, <2>3
  <2>5. ASSUME NEW t \in Sups PROVE Progress(t)'
    <3>1. t # s => spc[t] \notin Owning
      BY <1>20 DEF WriteError
    <3>2. /\ worker' = [worker EXCEPT ![s] = IF Alive(s) THEN "dead" ELSE @]
           /\ satt' = satt /\ spc' = [spc EXCEPT ![s] = "error_state"]
      BY <1>20 DEF WriteError
    <3>3. worker[t] # "none" => satt[t] \in Attempts
      OBVIOUS
    <3>4. CASE t = s
      BY <3>2, <3>4, <2>1, <2>4, <1>20 DEF WriteError
    <3>5. CASE t # s
      BY <3>1, <3>2, <3>3, <3>5, <2>4
    <3>6. QED
      BY <3>4, <3>5
  <2>6. SpawnOnce'
    BY <1>20 DEF WriteError
  <2>7. QED
    BY <2>5, <2>6
<1>21. CASE SetFailed(s)
  BY <1>21 DEF SetFailed
<1>22. CASE SupervisorLost(s)
  BY <1>22 DEF SupervisorLost
<1>23. CASE WorkerExits(s)
  BY <1>23 DEF WorkerExits
<1>24. QED
  BY <1>1, <1>2, <1>3, <1>4, <1>5, <1>6, <1>7, <1>8, <1>9, <1>10, <1>11, <1>12, <1>13,
     <1>14, <1>15, <1>16, <1>17, <1>18, <1>19, <1>20, <1>21, <1>22, <1>23 DEF SupStep, SupWork, SupMove


LEMMA Start == Init => IInv
<1> SUFFICES ASSUME Init PROVE IInv
  OBVIOUS
<1> USE AttemptBound, ProcessesDistinct DEF Init
<1>1. TypeOK
  <2>1. rec \in Records /\ prm \in Submissions /\ spec \in Attempts
    BY DEF Records, Submissions, Attempts
  <2>2. cpc \in [Clients -> ClientSteps]
    BY DEF ClientSteps
  <2>3. catt \in [Clients -> Attempts \cup {None}]
    BY DEF Attempts
  <2>4. /\ journal \in Journals \cup {None} /\ cancel \in BOOLEAN
        /\ dirs \subseteq Attempts /\ intent \subseteq Attempts /\ started \subseteq Attempts
        /\ closed \subseteq Attempts /\ cancelled \subseteq Attempts
        /\ owner = None /\ admission = None
    OBVIOUS
  <2>5. /\ result \in [Attempts -> Outcomes \cup {None}]
        /\ cold \in [Clients -> Olds \cup {None}]
    OBVIOUS
  <2>6. /\ spc \in [Sups -> SupSteps] /\ worker \in [Sups -> WorkerStates]
    BY DEF SupSteps, WorkerStates
  <2>7. /\ sdig \in [Sups -> (Records \X Attempts) \cup {None}]
        /\ satt \in [Sups -> Attempts \cup {None}]
        /\ stop \in [Sups -> StopReasons \cup {"cancelled", None}]
    OBVIOUS
  <2>8. QED
    BY <2>1, <2>2, <2>3, <2>4, <2>5, <2>6, <2>7 DEF TypeOK
<1>2. OwnerHeld /\ AdmissionHeld
  BY DEF OwnerHeld, AdmissionHeld, ClientOwning, Owning, SupSteps
<1>3. ClientLocals
  BY DEF ClientLocals, Attempts
<1>4. AttemptRead /\ Verified /\ Unspawned
  BY DEF AttemptRead, Verified, Unspawned, Owning
<1>5. FaultFree
  BY DEF FaultFree, Progress, SpawnOnce, Alive
<1>6. QED
  BY <1>1, <1>2, <1>3, <1>4, <1>5 DEF IInv, Inv

LEMMA ClientKeeps ==
    ASSUME IInv, NEW c \in Clients, ClientStep(c)
    PROVE  IInv'
<1>1. Inv'
  BY TypeClient, LocksClient, LocalsClient, ReadClient DEF IInv, Inv
<1>2. FaultFree'
  BY ProgressClient DEF IInv, FaultFree
<1>3. QED
  BY <1>1, <1>2 DEF IInv

\* A supervisor leaves what clients remember alone.
LEMMA SupKeeps ==
    ASSUME IInv, NEW s \in Sups, SupMove(s)
    PROVE  IInv'
<1>1. UNCHANGED <<cpc, cold, catt>>
  BY DEF SupMove, SupStep, SupWork, CheckDigest, OwnAttempt, OwnRefused, SpawnIntent, ValidateFails, Spawn,
     SpawnFails, WriteStarted, SetRunning, StopFor, StopTree, TreeBusy, KillWorker, ChildExited,
     Drain, DrainTree, Finish, SetFinal, IOFails, WriteError, SetFailed, SupervisorLost,
     WorkerExits, clientVars
<1>2. ClientLocals'
  BY <1>1 DEF IInv, Inv, ClientLocals
<1>3. Inv'
  BY <1>2, TypeSup, LocksSup, ReadSup DEF IInv, Inv
<1>4. FaultFree'
  BY ProgressSup DEF IInv, FaultFree
<1>5. QED
  BY <1>3, <1>4 DEF IInv

LEMMA StutterKeeps ==
    ASSUME IInv, UNCHANGED vars
    PROVE  IInv'
<1> USE DEF IInv, Inv, vars, taskFiles, attemptFiles, locks, clientVars, supVars
<1>1. TypeOK'
  BY DEF TypeOK
<1>2. (OwnerHeld /\ AdmissionHeld /\ ClientLocals)'
  BY DEF OwnerHeld, AdmissionHeld, ClientLocals
<1>3. (AttemptRead /\ Verified /\ Unspawned)'
  BY DEF AttemptRead, Verified, Unspawned, Consistent, Composition
<1>4. FaultFree'
  BY DEF FaultFree, Progress, SpawnOnce, Alive
<1>5. QED
  BY <1>1, <1>2, <1>3, <1>4

\* The inductive invariant holds in every reachable state.
THEOREM Inductive == Spec => []IInv
<1>1. IInv /\ [Next]_vars => IInv'
  <2> SUFFICES ASSUME IInv, [Next]_vars PROVE IInv'
    OBVIOUS
  <2>1. CASE \E c \in Clients : ClientStep(c)
    BY <2>1, ClientKeeps
  <2>2. CASE \E s \in Sups : SupStep(s) \/ SupervisorLost(s) \/ WorkerExits(s)
    BY <2>2, SupKeeps DEF SupMove
  <2>3. CASE UNCHANGED vars
    BY <2>3, StutterKeeps
  <2>4. QED
    BY <2>1, <2>2, <2>3 DEF Next
<1>2. QED
  BY Start, <1>1, PTL DEF Spec

-----------------------------------------------------------------------------
\* Type correctness: every file, lock and process is always in a state the
\* program knows.
THEOREM Types == Spec => []TypeOK
<1>1. IInv => TypeOK
  BY DEF IInv, Inv
<1>2. QED
  BY Inductive, <1>1, PTL

\* What the invariant says of workers as long as no supervisor is lost.
LEMMA WorkersSafe ==
    ASSUME ~Faults, IInv
    PROVE  OneWorker /\ SpawnOnce /\ ResultMeansReaped
<1> USE DEF IInv, Inv, FaultFree, Progress, Alive
<1>1. \A s \in Sups : Alive(s) => spc[s] \in Owning
  BY DEF TypeOK, Unspawned, Owning, SupSteps
<1>2. OneWorker
  BY <1>1, ProcessesDistinct DEF OneWorker, OwnerHeld
<1>3. SpawnOnce
  OBVIOUS
<1>4. ResultMeansReaped
  BY DEF ResultMeansReaped, TypeOK, Unspawned, SupSteps
<1>5. QED
  BY <1>2, <1>3, <1>4

\* As long as no supervisor is lost, two workers never share the worktree:
\* whoever has a living worker holds owner.lock.
THEOREM OneWorkerAtATime ==
    ASSUME ~Faults
    PROVE  Spec => []OneWorker
<1>1. IInv => OneWorker
  BY WorkersSafe
<1>2. QED
  BY Inductive, <1>1, PTL

\* As long as no supervisor is lost, an attempt is never given to two workers,
\* however often the supervisor for it is started: started.json or a result
\* outlives the supervisor that spawned.
THEOREM SpawnedOnce ==
    ASSUME ~Faults
    PROVE  Spec => []SpawnOnce
<1>1. IInv => SpawnOnce
  BY WorkersSafe
<1>2. QED
  BY Inductive, <1>1, PTL

\* As long as no supervisor is lost, a recorded result proves that the
\* attempt's processes are gone.
THEOREM ResultsFollowReaping ==
    ASSUME ~Faults
    PROVE  Spec => []ResultMeansReaped
<1>1. IInv => ResultMeansReaped
  BY WorkersSafe
<1>2. QED
  BY Inductive, <1>1, PTL

\* Which step spawns a worker: only Spawn, by the supervisor that recorded the
\* intent.
LEMMA OnlySpawnSpawns ==
    ASSUME IInv, [Next]_vars, NEW s \in Sups, Spawns(s)
    PROVE  Spawn(s)
<1> USE DEF IInv, Inv, TypeOK, Spawns
<1>1. worker' # worker
  OBVIOUS
<1>2. ASSUME NEW c \in Clients PROVE ~ClientStep(c)
  BY <1>1 DEF ClientStep, ClientWork, ResumeBegin, RecoverWrite, RecoverDone, ResumeRefused, ResumeChecked,
     WriteJournal, SaveTask, SavePrompt, SaveSpec, SaveFails, Uncancel, MakeAttemptDir, Acknowledge,
     StartFailed, FailLock, Restore, CancelBegin, CancelWrite, ProbeBegin, ProbeEnd, ClientCrash,
     SpawnSupervisor, supVars
<1>3. ASSUME NEW t \in Sups, SupMove(t) PROVE Spawn(t)
  BY <1>1, <1>3 DEF SupMove, SupStep, SupWork, CheckDigest, OwnAttempt, OwnRefused, SpawnIntent,
     ValidateFails, SpawnFails, WriteStarted, SetRunning, StopFor, StopTree, TreeBusy, KillWorker,
     ChildExited, Drain, DrainTree, Finish, SetFinal, IOFails, WriteError, SetFailed,
     SupervisorLost, WorkerExits, SKeeps, WorkerStates, Alive
<1>4. \E t \in Sups : Spawn(t)
  BY <1>1, <1>2, <1>3 DEF Next, SupMove, vars, supVars
<1>5. QED
  BY <1>4 DEF Spawn

\* Faults or not, a worker receives exactly what task.json, prompt.txt and
\* headless.json hold at the moment of the spawn.
THEOREM Delivery == Spec => SpawnVerified
<1>1. ASSUME IInv, [Next]_vars, NEW s \in Sups, Spawns(s)
      PROVE  satt[s] = spec /\ Consistent(spec)
  <2>1. spc[s] = "spawn"
    BY <1>1, OnlySpawnSpawns DEF Spawn, SAt
  <2>2. satt[s] = spec
    BY <1>1, <2>1 DEF IInv, Inv, AttemptRead, Owning, SupSteps
  <2>3. Consistent(satt[s])
    BY <1>1, <2>1 DEF IInv, Inv, Verified
  <2>4. QED
    BY <2>2, <2>3
<1>2. IInv /\ [Next]_vars => [\A s \in Sups : Spawns(s) => satt[s] = spec /\ Consistent(spec)]_vars
  BY <1>1
<1>3. QED
  BY Inductive, <1>2, PTL DEF Spec, SpawnVerified

\* Faults or not, no worker is spawned while cancel.json exists.
THEOREM CancelledStaysDown == Spec => CancelBlocksSpawn
<1>1. ASSUME IInv, [Next]_vars, NEW s \in Sups, Spawns(s)
      PROVE  ~cancel
  BY <1>1, OnlySpawnSpawns DEF IInv, Inv, Verified, Spawn, SAt
<1>2. IInv /\ [Next]_vars => [\A s \in Sups : Spawns(s) => ~cancel]_vars
  BY <1>1
<1>3. QED
  BY Inductive, <1>2, PTL DEF Spec, CancelBlocksSpawn

\* Faults or not, the result of an attempt that is no longer the recorded one
\* is never rewritten.
THEOREM History == Spec => PastIsFrozen
<1>1. ASSUME IInv, [Next]_vars, NEW a \in Attempts, a # spec
      PROVE  result'[a] = result[a]
  <2> USE DEF IInv, Inv, TypeOK
  <2>1. ASSUME NEW s \in Sups, SupMove(s), result' # result
        PROVE  SAt(s, "finish") \/ SAt(s, "error")
    BY <2>1 DEF SupMove, SupStep, SupWork, CheckDigest, OwnAttempt, OwnRefused, SpawnIntent, ValidateFails,
       Spawn, SpawnFails, WriteStarted, SetRunning, StopFor, StopTree, TreeBusy, KillWorker,
       ChildExited, Drain, DrainTree, Finish, SetFinal, IOFails, WriteError, SetFailed,
       SupervisorLost, WorkerExits, SKeeps, Disk, attemptFiles
  <2>2. ASSUME NEW s \in Sups, SupMove(s), result' # result
        PROVE  satt[s] = spec /\ \E o : result' = [result EXCEPT ![satt[s]] = o]
    <3>1. satt[s] = spec
      <4>1. spc[s] \in Owning
        BY <2>1, <2>2 DEF SAt, Owning, SupSteps
      <4>2. QED
        BY <1>1, <4>1 DEF AttemptRead
    <3>2. Finish(s) \/ WriteError(s)
      BY <2>2 DEF SupMove, SupStep, SupWork, CheckDigest, OwnAttempt, OwnRefused, SpawnIntent, ValidateFails,
         Spawn, SpawnFails, WriteStarted, SetRunning, StopFor, StopTree, TreeBusy, KillWorker,
         ChildExited, Drain, DrainTree, SetFinal, IOFails, SetFailed,
         SupervisorLost, WorkerExits, SKeeps, Disk, attemptFiles
    <3>3. QED
      BY <3>1, <3>2, <2>2 DEF Finish, WriteError
  <2>3. ASSUME NEW c \in Clients, ClientStep(c) PROVE result' = result
    BY <2>3 DEF ClientStep, ClientWork, ResumeBegin, RecoverWrite, RecoverDone, ResumeRefused, ResumeChecked,
       WriteJournal, SaveTask, SavePrompt, SaveSpec, SaveFails, Uncancel, MakeAttemptDir,
       Acknowledge, StartFailed, FailLock, Restore, CancelBegin, CancelWrite, ProbeBegin, ProbeEnd,
       ClientCrash, SpawnSupervisor, attemptFiles
  <2>4. CASE result' = result
    BY <2>4
  <2>5. CASE result' # result
    <3>1. PICK s \in Sups : SupMove(s)
      BY <1>1, <2>3, <2>5 DEF Next, SupMove, vars, attemptFiles
    <3>2. QED
      BY <1>1, <2>2, <2>5, <3>1
  <2>6. QED
    BY <2>4, <2>5
<1>2. IInv /\ [Next]_vars => [\A a \in Attempts : a # spec => result'[a] = result[a]]_vars
  BY <1>1
<1>3. QED
  BY Inductive, <1>2, PTL DEF Spec, PastIsFrozen
-----------------------------------------------------------------------------
(* HeadlessAttempt implements TaskWorktree as long as no supervisor is lost. *)

Running == {s \in Sups : Alive(s)}
Spent == {satt[s] : s \in {t \in Sups : worker[t] # "none"}}

\* From its spawn on a supervisor has had a worker.
Spawned ==
    \A s \in Sups : spc[s] \in {"start_file", "set_running", "loop", "stop_tree", "stop_write", "stopping",
                            "close", "drain_tree", "drain_write", "finish", "set_final"} => worker[s] # "none"

LEMMA SpawnedClient ==
    ASSUME Inv, Spawned, NEW c \in Clients, ClientStep(c)
    PROVE  Spawned'
<1>1. \/ UNCHANGED supVars
      \/ \E s \in Sups : spc' = [spc EXCEPT ![s] = "boot"] /\ worker' = worker
  BY DEF ClientStep, ClientWork, ResumeBegin, RecoverWrite, RecoverDone, ResumeRefused, ResumeChecked,
     WriteJournal, SaveTask, SavePrompt, SaveSpec, SaveFails, Uncancel, MakeAttemptDir, Acknowledge,
     StartFailed, FailLock, Restore, CancelBegin, CancelWrite, ProbeBegin, ProbeEnd, ClientCrash,
     SpawnSupervisor
<1>2. QED
  BY <1>1 DEF Spawned, Inv, TypeOK, supVars

LEMMA SpawnedSup ==
    ASSUME Inv, Spawned, NEW s \in Sups, SupMove(s)
    PROVE  Spawned'
<1> USE DEF Inv, TypeOK, Spawned, SAt, SGoto, SKeeps, SupSteps, WorkerStates
<1>1. CASE \/ CheckDigest(s) \/ OwnAttempt(s) \/ OwnRefused(s) \/ SpawnIntent(s) \/ ValidateFails(s)
           \/ Spawn(s) \/ SpawnFails(s) \/ WriteStarted(s) \/ SetRunning(s)
  BY <1>1 DEF CheckDigest, OwnAttempt, OwnRefused, SpawnIntent, ValidateFails, Spawn, SpawnFails,
     WriteStarted, SetRunning
<1>2. CASE \/ \E reason \in StopReasons \cup {"cancelled"} : StopFor(s, reason)
           \/ StopTree(s) \/ TreeBusy(s) \/ KillWorker(s) \/ ChildExited(s) \/ DrainTree(s)
  BY <1>2 DEF StopFor, StopTree, TreeBusy, KillWorker, ChildExited, DrainTree, CancelOwn
<1>3. CASE Drain(s)
  BY <1>3 DEF Drain
<1>4. CASE \/ Finish(s) \/ SetFinal(s) \/ WriteError(s) \/ SetFailed(s) \/ IOFails(s)
           \/ SupervisorLost(s) \/ WorkerExits(s)
  BY <1>4 DEF Finish, SetFinal, WriteError, SetFailed, IOFails, SupervisorLost, WorkerExits
<1>5. QED
  BY <1>1, <1>2, <1>3, <1>4 DEF SupMove, SupStep, SupWork

LEMMA HasWorker == Spec => []Spawned
<1>1. Init => Spawned
  BY DEF Init, Spawned
<1>2. IInv /\ Spawned /\ [Next]_vars => Spawned'
  <2>1. CASE UNCHANGED vars
    BY <2>1 DEF Spawned, vars, supVars
  <2>2. QED
    BY <2>1, SpawnedClient, SpawnedSup DEF Next, SupMove, IInv
<1>3. QED
  BY Inductive, <1>1, <1>2, PTL DEF Spec

\* A step of the promise, or none.
Kept == [Worktree!WNext]_<<spec, Running, Spent, result, cancel>>

\* Beside a supervisor that is not at work, nothing runs and what ran has a result.
LEMMA Over ==
    ASSUME ~Faults, IInv, NEW s \in Sups, worker[s] # "none", spc[s] \notin Owning
    PROVE  ~Alive(s) /\ result[satt[s]] # None
<1>1. spc[s] = "exited"
  BY DEF IInv, Inv, TypeOK, Unspawned, Owning, SupSteps
<1>2. QED
  BY <1>1 DEF IInv, FaultFree, Progress

\* Whoever else holds owner.lock, the worktree is settled.
LEMMA SettledByOwner ==
    ASSUME ~Faults, IInv, \A s \in Sups : spc[s] \notin Owning
    PROVE  Running = {} /\ \A a \in Spent : result[a] # None
  BY Over DEF Running, Spent, Alive

\* Beside the supervisor at work, only its own worker may run.
LEMMA OnlyOwn ==
    ASSUME ~Faults, IInv, NEW s \in Sups, spc[s] \in Owning
    PROVE  /\ \A t \in Sups \ {s} : worker[t] # "none" => ~Alive(t) /\ result[satt[t]] # None
           /\ satt[s] = spec
           /\ Running = IF Alive(s) THEN {s} ELSE {}
<1>1. \A t \in Sups \ {s} : spc[t] \notin Owning
  BY DEF IInv, Inv, OwnerHeld
<1>2. \A t \in Sups \ {s} : worker[t] # "none" => ~Alive(t) /\ result[satt[t]] # None
  BY <1>1, Over
<1>3. satt[s] = spec
  BY DEF IInv, Inv, AttemptRead
<1>4. Running = IF Alive(s) THEN {s} ELSE {}
  BY <1>2 DEF Running, Alive
<1>5. QED
  BY <1>2, <1>3, <1>4

\* Steps that spawn and reap nothing.
LEMMA SameWorkers ==
    ASSUME \A t \in Sups : /\ worker'[t] # "none" <=> worker[t] # "none"
                           /\ worker[t] # "none" => satt'[t] = satt[t]
    PROVE  /\ Spent' = Spent
           /\ (\A t \in Sups : Alive(t)' <=> Alive(t)) => Running' = Running
<1>1. Spent' = Spent
  BY DEF Spent
<1>2. ASSUME \A t \in Sups : Alive(t)' <=> Alive(t) PROVE Running' = Running
  BY <1>2 DEF Running, Alive
<1>3. QED
  BY <1>1, <1>2

\* What runs, what ran and for which attempt is as before.
Aside ==
    \A t \in Sups : /\ worker'[t] # "none" <=> worker[t] # "none"
                    /\ worker[t] # "none" => satt'[t] = satt[t]
                    /\ Alive(t)' <=> Alive(t)

LEMMA StepsAside ==
    ASSUME spec' = spec, result' = result, cancel' = cancel \/ cancel' = TRUE, Aside
    PROVE  Kept
<1>1. Running' = Running /\ Spent' = Spent
  BY SameWorkers DEF Aside
<1>2. CASE cancel' = cancel
  BY <1>1, <1>2 DEF Kept
<1>3. CASE cancel' = TRUE
  <2>1. Worktree!Cancel
    BY <1>1, <1>3 DEF Worktree!Cancel, Running, Spent
  <2>2. QED
    BY <2>1 DEF Kept, Worktree!WNext
<1>4. QED
  BY <1>2, <1>3

\* A client changes the recorded attempt and lifts a cancellation under owner.lock only.
LEMMA ClientKept ==
    ASSUME ~Faults, IInv, IInv', NEW c \in Clients, ClientStep(c)
    PROVE  Kept
<1>1. UNCHANGED <<worker, satt, result>>
  BY DEF ClientStep, ClientWork, ResumeBegin, RecoverWrite, RecoverDone, ResumeRefused, ResumeChecked,
     WriteJournal, SaveTask, SavePrompt, SaveSpec, SaveFails, Uncancel, MakeAttemptDir, Acknowledge,
     StartFailed, FailLock, Restore, CancelBegin, CancelWrite, ProbeBegin, ProbeEnd, ClientCrash,
     SpawnSupervisor, supVars, attemptFiles
<1>2. spec' # spec => cpc[c] \in {"recover_spec", "save_spec", "restore_spec"} /\ cancel' = cancel
  BY DEF ClientStep, ClientWork, ResumeBegin, RecoverWrite, RecoverDone, ResumeRefused, ResumeChecked,
     WriteJournal, SaveTask, SavePrompt, SaveSpec, SaveFails, Uncancel, MakeAttemptDir, Acknowledge,
     StartFailed, FailLock, Restore, CancelBegin, CancelWrite, ProbeBegin, ProbeEnd, ClientCrash,
     SpawnSupervisor, WriteBack, At, taskFiles, attemptFiles
<1>3. cancel' # cancel => cancel' = TRUE \/ (cpc[c] = "uncancel" /\ cancel' = FALSE)
  BY DEF ClientStep, ClientWork, ResumeBegin, RecoverWrite, RecoverDone, ResumeRefused, ResumeChecked,
     WriteJournal, SaveTask, SavePrompt, SaveSpec, SaveFails, Uncancel, MakeAttemptDir, Acknowledge,
     StartFailed, FailLock, Restore, CancelBegin, CancelWrite, ProbeBegin, ProbeEnd, ClientCrash,
     SpawnSupervisor, At, attemptFiles
<1>4. Running' = Running /\ Spent' = Spent
  BY <1>1, SameWorkers DEF Alive
<1>5. cpc[c] \in ClientOwning => Running = {} /\ \A a \in Spent : result[a] # None
  <2>1. SUFFICES ASSUME cpc[c] \in ClientOwning PROVE \A s \in Sups : spc[s] \notin Owning
    BY SettledByOwner
  <2>2. QED
    BY <2>1, ProcessesDistinct DEF IInv, Inv, OwnerHeld
<1>6. CASE spec' # spec
  <2>1. Worktree!Turn
    <3>1. spec' \in Attempts
      BY DEF IInv, Inv, TypeOK
    <3>2. QED
      BY <1>1, <1>2, <1>4, <1>5, <1>6, <3>1
         DEF ClientOwning, Worktree!Turn, Worktree!Settled, Running, Spent
  <2>2. QED
    BY <2>1 DEF Kept, Worktree!WNext
<1>7. CASE spec' = spec /\ cpc[c] = "uncancel" /\ cancel' = FALSE
  <2>1. Worktree!Lift
    BY <1>1, <1>4, <1>5, <1>7 DEF ClientOwning, Worktree!Lift, Worktree!Settled, Running, Spent
  <2>2. QED
    BY <2>1 DEF Kept, Worktree!WNext
<1>8. CASE spec' = spec /\ (cancel' = cancel \/ cancel' = TRUE)
  BY <1>1, <1>8, StepsAside DEF Aside, Alive
<1>9. QED
  BY <1>3, <1>6, <1>7, <1>8

\* The steps of a supervisor that neither spawn, reap nor record a result.
LEMMA SupAside ==
    ASSUME IInv, NEW s \in Sups,
           \/ CheckDigest(s) \/ OwnAttempt(s) \/ OwnRefused(s) \/ SpawnIntent(s) \/ ValidateFails(s)
           \/ SpawnFails(s) \/ WriteStarted(s) \/ SetRunning(s)
           \/ \E reason \in StopReasons \cup {"cancelled"} : StopFor(s, reason)
           \/ StopTree(s) \/ TreeBusy(s) \/ KillWorker(s) \/ ChildExited(s) \/ DrainTree(s)
           \/ SetFinal(s) \/ IOFails(s) \/ SetFailed(s) \/ WorkerExits(s)
    PROVE  Kept
<1> USE DEF SKeeps, Disk, taskFiles, attemptFiles
<1>1. UNCHANGED <<spec, result>> /\ (cancel' = cancel \/ cancel' = TRUE)
  BY DEF CheckDigest, OwnAttempt, OwnRefused, SpawnIntent, ValidateFails, SpawnFails, WriteStarted,
     SetRunning, StopFor, StopTree, TreeBusy, KillWorker, ChildExited, DrainTree, SetFinal, IOFails,
     SetFailed, WorkerExits, CancelOwn
<1>2. \/ worker' = worker
      \/ worker[s] = "running" /\ worker' = [worker EXCEPT ![s] = "exited"]
  BY DEF CheckDigest, OwnAttempt, OwnRefused, SpawnIntent, ValidateFails, SpawnFails, WriteStarted,
     SetRunning, StopFor, StopTree, TreeBusy, KillWorker, ChildExited, DrainTree, SetFinal, IOFails,
     SetFailed, WorkerExits
<1>3. \/ satt' = satt
      \/ worker[s] = "none" /\ worker' = worker /\ satt' = [satt EXCEPT ![s] = spec]
  BY DEF CheckDigest, OwnAttempt, OwnRefused, SpawnIntent, ValidateFails, SpawnFails, WriteStarted,
     SetRunning, StopFor, StopTree, TreeBusy, KillWorker, ChildExited, DrainTree, SetFinal, IOFails,
     SetFailed, WorkerExits, IInv, Inv, Unspawned, SAt
<1>4. \A t \in Sups : /\ worker'[t] # "none" <=> worker[t] # "none"
                      /\ Alive(t)' <=> Alive(t)
  BY <1>2 DEF IInv, Inv, TypeOK, Alive
<1>5. \A t \in Sups : worker[t] # "none" => satt'[t] = satt[t]
  BY <1>3 DEF IInv, Inv, TypeOK
<1>6. Aside
  BY <1>4, <1>5 DEF Aside
<1>7. QED
  BY <1>1, <1>6, StepsAside

\* The spawn: under owner.lock and launch.lock, of an attempt that has no result.
LEMMA SpawnKept ==
    ASSUME ~Faults, IInv, NEW s \in Sups, Spawn(s)
    PROVE  Kept
<1>1. /\ spc[s] = "spawn" /\ worker' = [worker EXCEPT ![s] = "running"]
      /\ UNCHANGED <<spec, result, cancel, satt>>
  BY DEF Spawn, SAt, Disk, taskFiles, attemptFiles
<1>2. /\ worker[s] = "none" /\ ~Alive(s) /\ result[satt[s]] = None /\ ~cancel
      /\ worker \in [Sups -> WorkerStates]
  BY <1>1 DEF IInv, Inv, TypeOK, Unspawned, Verified, FaultFree, Progress, Alive
<1>3. /\ \A t \in Sups \ {s} : worker[t] # "none" => ~Alive(t) /\ result[satt[t]] # None
      /\ satt[s] = spec /\ Running = {}
  BY <1>1, <1>2, OnlyOwn DEF Owning, SupSteps
<1>4. \A a \in Spent : result[a] # None
  BY <1>2, <1>3 DEF Spent
<1>5. spec \notin Spent /\ result[spec] = None
  BY <1>2, <1>3, <1>4
<1>6. /\ worker'[s] = "running"
      /\ \A t \in Sups \ {s} : worker'[t] = worker[t]
  BY <1>1, <1>2
<1>7. Running' = {s}
  <2>1. \A t \in Sups : Alive(t)' <=> t = s
    BY <1>3, <1>6 DEF Alive
  <2>2. QED
    BY <2>1 DEF Running
<1>8. Spent' = Spent \cup {spec}
  <2>1. \A t \in Sups : worker'[t] # "none" <=> worker[t] # "none" \/ t = s
    BY <1>6
  <2>2. QED
    BY <1>1, <1>3, <2>1 DEF Spent
<1>9. Worktree!Start(s)
  BY <1>1, <1>2, <1>3, <1>4, <1>5, <1>7, <1>8 DEF Worktree!Start, Worktree!Settled, Running, Spent
<1>10. QED
  BY <1>9 DEF Kept, Worktree!WNext

\* The worker of the supervisor at work is gone.
LEMMA Reaped ==
    ASSUME ~Faults, IInv, NEW s \in Sups, spc[s] \in Owning, satt' = satt,
           worker'[s] \in {"none", "dead"}, worker'[s] = "none" <=> worker[s] = "none",
           \A t \in Sups \ {s} : worker'[t] = worker[t]
    PROVE  Running' = {} /\ Spent' = Spent
<1>1. \A t \in Sups : ~Alive(t)'
  BY OnlyOwn DEF Alive
<1>2. Running' = {}
  BY <1>1 DEF Running
<1>3. Spent' = Spent
  BY SameWorkers
<1>4. QED
  BY <1>2, <1>3

LEMMA DrainKept ==
    ASSUME ~Faults, IInv, Spawned, NEW s \in Sups, Drain(s)
    PROVE  Kept
<1>1. /\ spc[s] = "close" /\ worker' = [worker EXCEPT ![s] = "dead"]
      /\ UNCHANGED <<spec, result, cancel, satt>>
  BY DEF Drain, SAt, taskFiles
<1>2. worker \in [Sups -> WorkerStates] /\ worker[s] # "none"
  BY <1>1 DEF IInv, Inv, TypeOK, Spawned
<1>3. Running' = {} /\ Spent' = Spent
  BY <1>1, <1>2, Reaped DEF Owning, SupSteps
<1>4. CASE Running = {}
  BY <1>1, <1>3, <1>4 DEF Kept
<1>5. CASE Running # {}
  <2>1. Worktree!Stop
    BY <1>1, <1>3, <1>5 DEF Worktree!Stop, Running, Spent
  <2>2. QED
    BY <2>1 DEF Kept, Worktree!WNext
<1>6. QED
  BY <1>4, <1>5

\* A result is written by the supervisor at work, once its worker is reaped.
LEMMA FinishKept ==
    ASSUME ~Faults, IInv, NEW s \in Sups, Finish(s)
    PROVE  Kept
<1>1. PICK outcome \in IF stop[s] = None THEN {"succeeded", "failed"} ELSE {stop[s]} :
          result' = [result EXCEPT ![satt[s]] = outcome]
  BY DEF Finish
<1>2. outcome \in Outcomes
  <2>1. stop[s] \in StopReasons \cup {"cancelled", None}
    BY DEF IInv, Inv, TypeOK
  <2>2. CASE stop[s] = None
    BY <1>1, <2>2 DEF Outcomes, Resumable
  <2>3. CASE stop[s] # None
    BY <1>1, <2>1, <2>3, KnownReasons DEF Outcomes, Resumable
  <2>4. QED
    BY <2>2, <2>3
<1>3. spc[s] = "finish" /\ UNCHANGED <<spec, cancel, satt, worker>>
  BY DEF Finish, SAt, SKeeps, taskFiles
<1>4. satt[s] = spec /\ Running = {}
  BY <1>3, OnlyOwn DEF Owning, SupSteps, IInv, FaultFree, Progress
<1>5. Running' = Running /\ Spent' = Spent
  BY <1>3, SameWorkers DEF Alive
<1>6. Worktree!Judge(outcome)
  BY <1>1, <1>3, <1>4, <1>5 DEF Worktree!Judge, Running, Spent
<1>7. QED
  BY <1>2, <1>6 DEF Kept, Worktree!WNext

LEMMA WriteErrorKept ==
    ASSUME ~Faults, IInv, NEW s \in Sups, WriteError(s)
    PROVE  Kept
<1>1. /\ spc[s] = "error" /\ result' = [result EXCEPT ![satt[s]] = "supervisor_error"]
      /\ worker' = [worker EXCEPT ![s] = IF Alive(s) THEN "dead" ELSE @]
      /\ UNCHANGED <<spec, cancel, satt>>
  BY DEF WriteError, SAt, taskFiles
<1>2. worker \in [Sups -> WorkerStates] /\ "supervisor_error" \in Outcomes
  BY DEF IInv, Inv, TypeOK, Outcomes
<1>3. /\ worker'[s] \in {"none", "dead"} /\ (worker'[s] = "none" <=> worker[s] = "none")
      /\ \A t \in Sups \ {s} : worker'[t] = worker[t]
  BY <1>1, <1>2 DEF WorkerStates, Alive
<1>4. Running' = {} /\ Spent' = Spent
  BY <1>1, <1>3, Reaped DEF Owning, SupSteps
<1>5. satt[s] = spec /\ Running = IF Alive(s) THEN {s} ELSE {}
  BY <1>1, OnlyOwn DEF Owning, SupSteps
<1>6. CASE Alive(s)
  <2>1. result[spec] = None
    BY <1>1, <1>5, <1>6 DEF IInv, FaultFree, Progress
  <2>2. Worktree!Abort("supervisor_error")
    BY <1>1, <1>4, <1>5, <1>6, <2>1 DEF Worktree!Abort, Running, Spent
  <2>3. QED
    BY <1>2, <2>2 DEF Kept, Worktree!WNext
<1>7. CASE ~Alive(s)
  <2>1. Worktree!Judge("supervisor_error")
    BY <1>1, <1>4, <1>5, <1>7 DEF Worktree!Judge, Running, Spent
  <2>2. QED
    BY <1>2, <2>1 DEF Kept, Worktree!WNext
<1>8. QED
  BY <1>6, <1>7

LEMMA StepKept == ~Faults /\ IInv /\ IInv' /\ Spawned /\ [Next]_vars => Kept
<1> SUFFICES ASSUME ~Faults, IInv, IInv', Spawned, [Next]_vars PROVE Kept
  OBVIOUS
<1>1. CASE \E c \in Clients : ClientStep(c)
  BY <1>1, ClientKept
<1>2. CASE \E s \in Sups : SupStep(s) \/ SupervisorLost(s) \/ WorkerExits(s)
  <2>1. PICK s \in Sups : SupStep(s) \/ SupervisorLost(s) \/ WorkerExits(s)
    BY <1>2
  <2>2. ~SupervisorLost(s)
    BY DEF SupervisorLost
  <2>3. QED
    BY <2>1, <2>2, SupAside, SpawnKept, DrainKept, FinishKept, WriteErrorKept DEF SupStep, SupWork
<1>3. CASE UNCHANGED vars
  BY <1>3, StepsAside DEF vars, taskFiles, attemptFiles, supVars, Aside, Alive
<1>4. QED
  BY <1>1, <1>2, <1>3 DEF Next

\* As long as no supervisor is lost, whatever clients do and whoever of them is
\* killed, the task keeps the promise of its worktree.
THEOREM Refinement ==
    ASSUME ~Faults
    PROVE  Spec => WorktreeKept
<1>1. Init => Worktree!WInit
  BY AttemptBound DEF Init, Worktree!WInit, Attempts, Alive
<1>2. IInv /\ IInv' /\ Spawned /\ [Next]_vars => [Worktree!WNext]_(Worktree!wvars)
  BY StepKept DEF Kept, Running, Spent, Worktree!wvars
<1>3. QED
  BY Inductive, HasWorker, <1>1, <1>2, PTL DEF Spec, WorktreeKept, Worktree!WSpec
=============================================================================
