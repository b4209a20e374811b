------------------------- MODULE InteractiveTaskProofs -------------------------
(***************************************************************************)
(* For any number of run-tasks and cancellations: a confirmed cancellation *)
(* means that no supervised harness runs, a recorded outcome stands, and   *)
(* the launcher never takes back what a session uses.                      *)
(***************************************************************************)
EXTENDS InteractiveTask, TLAPS

Held == {"reverify", "prepare", "look", "spawn", "supervise", "persist", "failing"}
Terminal == {"exited", "failed", "cancelled"}
NobodyRan == \A r \in Runners : rpc[r] = "idle"

\* Without a record nothing runs and nothing will; nothing ran before the session
\* was asked for, nor after the host refused it.
Placed ==
    /\ lpc \in {"checkout", "save"} => rec = None /\ ended = None
    /\ lpc \in {"checkout", "save", "register", "create"} => asked = "no" /\ NobodyRan
    /\ lpc = "rollback" => asked \in {"no", "refused"} /\ NobodyRan
    /\ lpc \in {"register", "create", "sent", "unknown", "publish", "unrecorded", "close"} => rec # None
    /\ rec = None => asked \in {"no", "refused"} /\ NobodyRan
    /\ asked \in {"sent", "refused"} => NobodyRan
    /\ asked \in {"no", "sent", "refused"} => session = "none"

\* What the supervisors have in hand.
Supervised ==
    /\ \A r \in Runners : worker[r] = "alive" => rpc[r] \in {"supervise", "lost"}
    /\ \A r \in Runners : rpc[r] = "persist" => rout[r] \in Terminal
    /\ \A r \in Runners : rpc[r] \in {"look", "spawn", "supervise", "persist"} =>
            rec # None /\ rec.state \in {"running", "exited"}
    /\ ended \in Terminal \cup {None}

\* A cancelled record and a confirmation have a request behind them, and nobody on
\* the way to a harness.
Cancelled ==
    /\ rec # None /\ rec.state = "cancelled" => cancel /\ ~NobodyRan
    /\ \A r \in Runners : rpc[r] = "persist" /\ rout[r] = "cancelled" => cancel
    /\ \A c \in Clients : report[c] = "confirmed" =>
          cancel /\ ~NobodyRan /\ \A r \in Runners : rpc[r] \notin {"spawn", "supervise"}

IInv == TypeOK /\ Placed /\ Supervised /\ Cancelled /\ OutcomeStands

LEMMA RecordsKnown ==
    /\ \A s \in States, b \in BOOLEAN : [state |-> s, ref |-> b] # None
    /\ \A s \in States : rec \in Records => WithState(s) \in Records /\ WithState(s) # None
    /\ rec \in Records => WithSession \in Records /\ WithSession # None
<1>1. \A s \in States, b \in BOOLEAN : [state |-> s, ref |-> b] \in Records
  BY DEF Records
<1>2. \A record \in Records : record # None
  BY NoneIsNoRecord
<1>3. rec \in Records => rec.state \in States /\ rec.ref \in BOOLEAN
  BY DEF Records
<1>4. ASSUME NEW s \in States, rec \in Records PROVE WithState(s) \in Records
  BY <1>1, <1>3, <1>4 DEF WithState
<1>5. rec \in Records => WithSession \in Records
  BY <1>1, <1>3 DEF WithSession
<1> QED
  BY <1>1, <1>2, <1>4, <1>5

LEMMA Initially == Init => IInv
<1> SUFFICES ASSUME Init PROVE IInv
  OBVIOUS
<1>3. worktree \in BOOLEAN /\ cancel \in BOOLEAN /\ lockfile \in BOOLEAN /\ hosted \in BOOLEAN
  BY Zenon DEF Init
<1>4. /\ rec = None /\ owner = None /\ asked = "no" /\ session = "none" /\ inside = None
      /\ lpc = "checkout" /\ opc = "idle" /\ ended = None
      /\ rpc = [r \in Runners |-> "idle"] /\ rout = [r \in Runners |-> None]
      /\ worker = [r \in Runners |-> "none"]
      /\ cpc = [c \in Clients |-> "read"] /\ report = [c \in Clients |-> "none"]
  BY Zenon DEF Init
<1>1. TypeOK
  BY <1>3, <1>4, ActorsDistinct DEF TypeOK
<1>2. Placed /\ Supervised /\ Cancelled /\ OutcomeStands
  BY <1>4 DEF Placed, Supervised, Cancelled, OutcomeStands, NobodyRan
<1> QED
  BY <1>1, <1>2 DEF IInv

-----------------------------------------------------------------------------
\* A session that ends takes only the run-task inside it.
LEMMA EndSessionStep ==
    ASSUME IInv, EndSession, session = "open"
    PROVE  /\ session' = "closed" /\ UNCHANGED <<rout, asked, inside>>
           /\ rpc' \in [Runners -> {"idle", "verify", "open", "lock", "reverify", "prepare", "look",
                            "spawn", "supervise", "persist", "failing", "done", "lost"}]
           /\ worker' \in [Runners -> {"none", "alive", "gone"}]
           /\ \A r \in Runners : \/ rpc'[r] = rpc[r]
                                 \/ rpc'[r] = "lost" /\ rpc[r] # "idle"
           /\ \A r \in Runners : worker'[r] = "alive" => worker[r] = "alive"
           /\ owner' \in Runners \cup {None, Listing}
           /\ (owner' = Listing) = (owner = Listing)
           /\ \A r \in Runners : (owner' = r) = (rpc'[r] \in Held)
           /\ NobodyRan' = NobodyRan
<1> DEFINE dies == {r \in Runners : r = inside /\ rpc[r] \notin {"idle", "done", "lost"}}
<1>1. /\ session' = "closed" /\ UNCHANGED <<rout, asked, inside>>
      /\ rpc' = [r \in Runners |-> IF r \in dies THEN "lost" ELSE rpc[r]]
      /\ worker' = [r \in Runners |-> IF r = inside /\ worker[r] = "alive" THEN "gone" ELSE worker[r]]
      /\ owner' = IF owner \in dies THEN None ELSE owner
  BY DEF EndSession
<1>2. /\ owner \in Runners \cup {None, Listing}
      /\ \A r \in Runners : (owner = r) = (rpc[r] \in Held)
      /\ rpc \in [Runners -> {"idle", "verify", "open", "lock", "reverify", "prepare", "look",
                            "spawn", "supervise", "persist", "failing", "done", "lost"}]
      /\ worker \in [Runners -> {"none", "alive", "gone"}]
  BY DEF IInv, TypeOK, Held
<1>3. /\ rpc' \in [Runners -> {"idle", "verify", "open", "lock", "reverify", "prepare", "look",
                            "spawn", "supervise", "persist", "failing", "done", "lost"}]
      /\ \A r \in Runners : \/ rpc'[r] = rpc[r]
                            \/ rpc'[r] = "lost" /\ rpc[r] # "idle"
  BY <1>1, <1>2
<1>4. /\ worker' \in [Runners -> {"none", "alive", "gone"}]
      /\ \A r \in Runners : worker'[r] = "alive" => worker[r] = "alive"
  BY <1>1, <1>2
<1>5. /\ owner' \in Runners \cup {None, Listing} /\ (owner' = Listing) = (owner = Listing)
      /\ \A r \in Runners : (owner' = r) = (rpc'[r] \in Held)
  BY <1>1, <1>2, ActorsDistinct DEF Held
<1>6. NobodyRan' = NobodyRan
  BY <1>3 DEF NobodyRan
<1> QED
  BY <1>1, <1>3, <1>4, <1>5, <1>6

LEMMA SessionEnded ==
    ASSUME IInv, EndSession, session = "open",
           UNCHANGED <<files, hosted, cpc, list, ended>>,
           \/ UNCHANGED <<lpc, report>>
           \/ lpc \in {"close"} /\ lpc' = "done" /\ UNCHANGED report
    PROVE  IInv'
<1> USE EndSessionStep
<1>1. TypeOK'
  BY DEF IInv, TypeOK, Held, files, list
<1>2. Placed'
  BY DEF IInv, Placed, files
<1>3. Supervised'
  BY DEF IInv, Supervised, files
<1>4. Cancelled'
  BY DEF IInv, Cancelled, files
<1>5. OutcomeStands'
  BY DEF IInv, OutcomeStands, files
<1> QED
  BY <1>1, <1>2, <1>3, <1>4, <1>5 DEF IInv

LEMMA LauncherStep ==
    ASSUME IInv,
           \/ AddWorktree \/ SaveRecord \/ Register \/ Rollback \/ CreateSession \/ SessionAnswer
           \/ RecordSession \/ LauncherCloses \/ LauncherLost
    PROVE  IInv'
<1> USE RecordsKnown DEF IInv, TypeOK, Placed, Supervised, Cancelled, OutcomeStands, NobodyRan,
        files, host, run, cmd, list
<1>1. CASE AddWorktree
  <2>1. worktree' \in BOOLEAN
    BY <1>1, Zenon DEF AddWorktree
  <2>2. /\ lpc = "checkout" /\ lpc' \in {"save", "done"}
        /\ UNCHANGED <<rec, cancel, lockfile, owner, hosted, host, run, cmd, list, ended>>
    BY <1>1, Zenon DEF AddWorktree
  <2> QED
    BY <2>1, <2>2
<1>2. CASE SaveRecord
  <2>1. CASE rec' = rec
    <3>1. lpc = "save" /\ NobodyRan /\ asked = "no" /\ rec = None /\ ended = None
      BY <1>2 DEF SaveRecord
    <3>2. rec' # [state |-> "starting", ref |-> FALSE]
      BY <2>1, <3>1, RecordsKnown DEF States, LiveStates
    <3>3. lpc' = "rollback"
          /\ UNCHANGED <<worktree, cancel, lockfile, owner, hosted, host, run, cmd, list, ended>>
      BY <1>2, <3>2 DEF SaveRecord
    <3> QED
      BY <2>1, <3>1, <3>3
  <2>2. CASE rec' # rec
    <3>1. /\ rec' = [state |-> "starting", ref |-> FALSE] /\ lpc' = "register" /\ lpc = "save"
          /\ UNCHANGED <<worktree, cancel, lockfile, owner, hosted, host, run, cmd, list, ended>>
      BY <1>2, <2>2 DEF SaveRecord
    <3>2. rec' \in Records /\ rec' # None /\ rec'.state = "starting" /\ NobodyRan /\ ended = None
      BY <3>1, NoneIsNoRecord DEF Records, States, LiveStates
    <3>3. TypeOK'
      BY <3>1, <3>2
    <3> QED
      BY <3>1, <3>2, <3>3
  <2> QED
    BY <2>1, <2>2
<1>3. CASE Register
  BY <1>3 DEF Register
<1>4. CASE Rollback
  <2>1. worktree' \in BOOLEAN /\ cancel' \in BOOLEAN /\ lockfile' \in BOOLEAN
    <3>1. worktree' \in {FALSE, worktree} /\ worktree \in BOOLEAN
      BY <1>4 DEF Rollback
    <3>2. cancel' = FALSE /\ lockfile' = FALSE
      BY <1>4, Zenon DEF Rollback
    <3> QED
      BY <3>1, <3>2, Zenon
  <2>2. /\ lpc = "rollback" /\ lpc' = "done" /\ rec' = None
        /\ UNCHANGED <<owner, hosted, host, run, cmd, list, ended>>
    BY <1>4, Zenon DEF Rollback
  <2>3. NobodyRan /\ \A c \in Clients : report[c] # "confirmed"
    BY <2>2
  <2>4. TypeOK'
    BY <2>1, <2>2
  <2>5. Placed'
    BY <2>2, <2>3
  <2>6. Supervised' /\ Cancelled' /\ OutcomeStands'
    BY <2>2, <2>3
  <2> QED
    BY <2>4, <2>5, <2>6
<1>5. CASE CreateSession
  BY <1>5 DEF CreateSession
<1>6. CASE SessionAnswer
  BY <1>6 DEF SessionAnswer
<1>7. CASE RecordSession
  <2>1. CASE rec' = rec
    BY <1>7, <2>1 DEF RecordSession
  <2>2. CASE rec' # rec
    <3>1. /\ rec # None /\ rec' = WithSession /\ lpc' \in {"close", "done"} /\ lpc = "publish"
          /\ UNCHANGED <<worktree, cancel, lockfile, owner, hosted, host, run, cmd, list, ended>>
      BY <1>7, <2>2 DEF RecordSession
    <3>2. rec' \in Records /\ rec' # None /\ rec'.state = rec.state
      BY <3>1 DEF WithSession
    <3> QED
      BY <3>1, <3>2
  <2> QED
    BY <2>1, <2>2
<1>8. CASE LauncherCloses
  <2>1. CASE EndSession /\ session = "open" /\ lpc' = "done"
    BY <1>8, <2>1, SessionEnded DEF LauncherCloses
  <2>2. CASE UNCHANGED <<host, run, owner>>
    BY <1>8, <2>2 DEF LauncherCloses
  <2> QED
    BY <1>8, <2>1, <2>2 DEF LauncherCloses
<1>9. CASE LauncherLost
  BY <1>9 DEF LauncherLost
<1> QED
  BY <1>1, <1>2, <1>3, <1>4, <1>5, <1>6, <1>7, <1>8, <1>9

LEMMA HostStep ==
    ASSUME IInv, HostRefuses \/ SessionEnds \/ \E r \in Runners : HostCreates(r)
    PROVE  IInv'
<1>1. CASE SessionEnds
  BY <1>1, SessionEnded DEF SessionEnds, cmd
<1>2. CASE HostRefuses
  BY <1>2 DEF HostRefuses, IInv, TypeOK, Placed, Supervised, Cancelled, OutcomeStands, NobodyRan,
       files, host, run, cmd, list
<1>3. ASSUME NEW r \in Runners, HostCreates(r) PROVE IInv'
  BY <1>3, ActorsDistinct DEF HostCreates, IInv, TypeOK, Placed, Supervised, Cancelled, OutcomeStands, NobodyRan,
       files, host, run, cmd, list
<1> QED
  BY <1>1, <1>2, <1>3

\* Steps of run-task that write neither the record nor a harness.
LEMMA QuietRun ==
    ASSUME IInv, NEW r \in Runners,
           \/ Rerun(r) \/ VerifyTask(r) \/ OpenOwner(r) \/ LockOwner(r) \/ VerifyAgain(r)
           \/ HarnessExits(r) \/ RunnerLost(r)
    PROVE  IInv'
<1> USE ActorsDistinct DEF IInv, TypeOK, Placed, Supervised, Cancelled, OutcomeStands, NobodyRan, Step,
        files, host, run, cmd, list
<1>1. CASE Rerun(r)
  BY <1>1 DEF Rerun
<1>2. CASE VerifyTask(r)
  BY <1>2 DEF VerifyTask
<1>3. CASE OpenOwner(r)
  BY <1>3 DEF OpenOwner
<1>4. CASE LockOwner(r)
  BY <1>4 DEF LockOwner
<1>5. CASE VerifyAgain(r)
  BY <1>5 DEF VerifyAgain
<1>6. CASE HarnessExits(r)
  BY <1>6 DEF HarnessExits
<1>7. CASE RunnerLost(r)
  BY <1>7 DEF RunnerLost
<1> QED
  BY <1>1, <1>2, <1>3, <1>4, <1>5, <1>6, <1>7

LEMMA SpawnStep ==
    ASSUME IInv, NEW r \in Runners, Spawn(r) \/ SeeExit(r) \/ SeeCancel(r)
    PROVE  IInv'
<1> USE ActorsDistinct DEF IInv, TypeOK, Placed, Supervised, Cancelled, OutcomeStands, NobodyRan, Step,
        files, host, run, cmd, list, States, LiveStates, Terminal
<1>1. CASE Spawn(r)
  BY <1>1 DEF Spawn
<1>2. CASE SeeExit(r)
  BY <1>2 DEF SeeExit
<1>3. CASE SeeCancel(r)
  BY <1>3 DEF SeeCancel
<1> QED
  BY <1>1, <1>2, <1>3

\* A run-task that writes the record is the owner: the others are not on their way.
LEMMA RecordStep ==
    ASSUME IInv, NEW r \in Runners,
           SetRunning(r) \/ LookForCancel(r) \/ RecordOutcome(r) \/ RecordStartupError(r)
    PROVE  IInv'
<1>1. /\ \A q \in Runners \ {r} : rpc[q] \notin Held
      /\ rec # None /\ rec \in Records /\ ~NobodyRan
      /\ lpc \notin {"checkout", "save", "register", "create", "rollback"}
  BY DEF IInv, TypeOK, Placed, NobodyRan, Held, SetRunning, LookForCancel, RecordOutcome, RecordStartupError
<1>2. rpc'[r] # "idle" /\ rpc' \in [Runners -> {"idle", "verify", "open", "lock", "reverify", "prepare", "look",
                            "spawn", "supervise", "persist", "failing", "done", "lost"}]
      /\ (\A q \in Runners \ {r} : rpc'[q] = rpc[q]) /\ ~NobodyRan'
  BY DEF IInv, TypeOK, NobodyRan, SetRunning, LookForCancel, RecordOutcome, RecordStartupError, Step
<1>3. UNCHANGED <<worktree, cancel, lockfile, hosted, host, lpc, worker, rout, cmd, list>>
  BY DEF SetRunning, LookForCancel, RecordOutcome, RecordStartupError
<1>4. /\ rec' \in Records /\ rec' # None
      /\ \/ rec' = rec /\ ended' = ended /\ rpc'[r] \in {"failing", "spawn", "done"}
         \/ rec'.state = "running" /\ ended' = None /\ rpc'[r] = "look"
         \/ rec'.state \in Terminal /\ ended' = rec'.state /\ rpc'[r] = "done"
      /\ rpc'[r] = "spawn" => ~cancel /\ rpc[r] = "look"
      /\ rec' # rec /\ rec'.state = "cancelled" => cancel
      /\ rpc[r] \in Held
  <2>1. CASE SetRunning(r)
    BY <1>1, <2>1, RecordsKnown DEF IInv, TypeOK, SetRunning, Step, WithState, Held, States, LiveStates
  <2>2. CASE LookForCancel(r)
    BY <1>1, <2>2, RecordsKnown DEF IInv, TypeOK, LookForCancel, Record, Step, WithState, Held, States, LiveStates, Terminal
  <2>3. CASE RecordOutcome(r)
    <3>1. rout[r] \in Terminal /\ (rout[r] = "cancelled" => cancel) /\ rpc[r] = "persist"
      BY <2>3 DEF IInv, Supervised, Cancelled, RecordOutcome
    <3> QED
      BY <1>1, <2>3, <3>1, RecordsKnown DEF IInv, TypeOK, RecordOutcome, Record, Step, WithState, Held, States, LiveStates, Terminal
  <2>4. CASE RecordStartupError(r)
    BY <1>1, <2>4, RecordsKnown DEF IInv, TypeOK, RecordStartupError, Record, Step, WithState, Held, States, LiveStates, Terminal
  <2> QED
    BY <2>1, <2>2, <2>3, <2>4
<1>5. /\ owner' \in Runners \cup {None, Listing} /\ (owner' = Listing) = (owner = Listing)
      /\ \A q \in Runners : (owner' = q) = (rpc'[q] \in Held)
  <2>1. owner = r /\ (\A q \in Runners : (owner = q) = (rpc[q] \in Held))
    BY <1>4 DEF IInv, TypeOK, Held
  <2>2. \/ owner' = owner /\ rpc'[r] \in Held
        \/ owner' = None /\ rpc'[r] \notin Held
    BY DEF IInv, TypeOK, SetRunning, LookForCancel, RecordOutcome, RecordStartupError, Step, Held
  <2> QED
    BY <1>2, <2>1, <2>2, ActorsDistinct
<1>6. TypeOK'
  BY <1>2, <1>3, <1>4, <1>5 DEF IInv, TypeOK, Held, Terminal, States, LiveStates, host, cmd, list
<1>7. Placed'
  BY <1>1, <1>2, <1>3, <1>4 DEF IInv, Placed, NobodyRan, host
<1>8. Supervised'
  <2>1. worker[r] # "alive"
    BY DEF IInv, Supervised, SetRunning, LookForCancel, RecordOutcome, RecordStartupError
  <2> QED
    BY <1>1, <1>2, <1>3, <1>4, <2>1 DEF IInv, Supervised, Held
<1>9. Cancelled'
  BY <1>1, <1>2, <1>3, <1>4 DEF IInv, Cancelled, Held, cmd
<1>10. OutcomeStands'
  BY <1>4 DEF IInv, OutcomeStands
<1> QED
  BY <1>6, <1>7, <1>8, <1>9, <1>10 DEF IInv

LEMMA ClientStep ==
    ASSUME IInv, NEW c \in Clients,
           CancelRead(c) \/ CancelWrite(c) \/ CancelPoll(c) \/ CancelSettle(c)
    PROVE  IInv'
<1> USE DEF files, host, run, cmd, list
<1>1. CASE CancelRead(c)
  BY <1>1 DEF CancelRead, IInv, TypeOK, Placed, Supervised, Cancelled, OutcomeStands, NobodyRan
<1>2. CASE CancelWrite(c)
  BY <1>2 DEF CancelWrite, IInv, TypeOK, Placed, Supervised, Cancelled, OutcomeStands, NobodyRan
<1>3. CASE CancelPoll(c)
  <2>1. /\ report' = [report EXCEPT ![c] = report'[c]]
        /\ report'[c] \in {"requested-unconfirmed", "confirmed", "finished-on-its-own"}
        /\ report'[c] = "confirmed" => rec # None /\ rec.state = "cancelled"
        /\ cpc' = [cpc EXCEPT ![c] = "settle"]
        /\ UNCHANGED <<files, owner, hosted, host, lpc, run, list, ended>>
    BY <1>3 DEF CancelPoll, IInv, TypeOK
  <2>2. rec # None /\ rec.state = "cancelled" =>
            cancel /\ ~NobodyRan /\ \A r \in Runners : rpc[r] \notin {"spawn", "supervise"}
    BY DEF IInv, Cancelled, Supervised
  <2>3. TypeOK'
    BY <2>1 DEF IInv, TypeOK
  <2>4. Cancelled'
    BY <2>1, <2>2 DEF IInv, TypeOK, Cancelled, NobodyRan
  <2>5. Placed' /\ Supervised' /\ OutcomeStands'
    BY <2>1 DEF IInv, Placed, Supervised, OutcomeStands, NobodyRan
  <2> QED
    BY <2>3, <2>4, <2>5 DEF IInv
<1>4. CASE CancelSettle(c)
  <2>1. CASE EndSession /\ session = "open" /\ report' = report
    <3> USE EndSessionStep
    <3>1. TypeOK'
      BY <1>4, <2>1 DEF CancelSettle, IInv, TypeOK, Held
    <3>2. Placed'
      BY <1>4, <2>1 DEF CancelSettle, IInv, Placed
    <3>3. Supervised' /\ OutcomeStands'
      BY <1>4, <2>1 DEF CancelSettle, IInv, Supervised, OutcomeStands
    <3>4. Cancelled'
      BY <1>4, <2>1 DEF CancelSettle, IInv, Cancelled
    <3> QED
      BY <3>1, <3>2, <3>3, <3>4 DEF IInv
  <2>2. CASE UNCHANGED <<host, run, owner>>
    BY <1>4, <2>2 DEF CancelSettle, IInv, TypeOK, Placed, Supervised, Cancelled, OutcomeStands, NobodyRan
  <2> QED
    BY <1>4, <2>1, <2>2 DEF CancelSettle
<1> QED
  BY <1>1, <1>2, <1>3, <1>4

\* A listing writes only a record that is still live.
LEMMA ListStep == ASSUME IInv, ListBegin \/ ListingStep PROVE IInv'
<1> USE ActorsDistinct DEF files, host, run, cmd, list
<1>1. CASE ListBegin \/ ProbeOwner \/ ProbeEnd \/ AskHost
  BY <1>1 DEF ListBegin, ProbeOwner, ProbeEnd, AskHost,
       IInv, TypeOK, Placed, Supervised, Cancelled, OutcomeStands, NobodyRan
<1>2. CASE SetExitedIfLive
  <2>1. CASE Live(rec)
    <3>1. /\ rec # None /\ rec.state \in LiveStates /\ rec' = WithState("exited")
          /\ opc = "write" /\ opc' = "idle"
          /\ UNCHANGED <<worktree, cancel, lockfile, owner, hosted, host, lpc, run, cmd, ended>>
      BY <1>2, <2>1 DEF SetExitedIfLive, Live
    <3>2. rec' \in Records /\ rec' # None /\ rec'.state = "exited"
      BY <3>1, RecordsKnown DEF IInv, TypeOK, WithState, States, LiveStates
    <3>3. ended = None
      BY <3>1 DEF IInv, OutcomeStands, Supervised, Terminal, LiveStates
    <3> QED
      BY <3>1, <3>2, <3>3 DEF IInv, TypeOK, Placed, Supervised, Cancelled, OutcomeStands, NobodyRan
  <2>2. CASE ~Live(rec)
    BY <1>2, <2>2 DEF SetExitedIfLive, IInv, TypeOK, Placed, Supervised, Cancelled, OutcomeStands, NobodyRan
  <2> QED
    BY <2>1, <2>2
<1> QED
  BY <1>1, <1>2 DEF ListingStep

LEMMA Inductive == ASSUME IInv, [Next]_vars PROVE IInv'
<1>1. CASE UNCHANGED vars
  BY <1>1 DEF IInv, TypeOK, Placed, Supervised, Cancelled, OutcomeStands, NobodyRan,
       vars, files, host, run, cmd, list
<1>2. CASE \/ AddWorktree \/ SaveRecord \/ Register \/ Rollback \/ CreateSession \/ SessionAnswer
           \/ RecordSession \/ LauncherCloses \/ LauncherLost
  BY <1>2, LauncherStep
<1>3. CASE HostRefuses \/ SessionEnds \/ \E r \in Runners : HostCreates(r)
  BY <1>3, HostStep
<1>4. ASSUME NEW r \in Runners, Rerun(r) \/ RunTask(r) \/ HarnessExits(r) \/ RunnerLost(r)
      PROVE  IInv'
  BY <1>4, QuietRun, SpawnStep, RecordStep DEF RunTask
<1>5. ASSUME NEW c \in Clients, CancelRead(c) \/ CancelWrite(c) \/ CancelPoll(c) \/ CancelSettle(c)
      PROVE  IInv'
  BY <1>5, ClientStep
<1>6. CASE ListBegin \/ ListingStep
  BY <1>6, ListStep
<1> QED
  BY <1>1, <1>2, <1>3, <1>4, <1>5, <1>6 DEF Next

-----------------------------------------------------------------------------
\* Types, and who holds owner.lock.
THEOREM Types == Spec => []TypeOK
<1>1. IInv => TypeOK
  BY DEF IInv
<1>2. IInv /\ [Next]_vars => IInv'
  BY Inductive
<1> QED
  BY Initially, <1>1, <1>2, PTL DEF Spec

\* A confirmed cancellation means that no supervised harness runs, now or later.
THEOREM ConfirmedStops == Spec => []ConfirmedMeansStopped
<1>1. IInv => ConfirmedMeansStopped
  BY DEF IInv, Supervised, Cancelled, ConfirmedMeansStopped
<1>2. IInv /\ [Next]_vars => IInv'
  BY Inductive
<1> QED
  BY Initially, <1>1, <1>2, PTL DEF Spec

\* Nothing but another run replaces what a supervisor recorded at its end.
THEOREM OutcomesStand == Spec => []OutcomeStands
<1>1. IInv => OutcomeStands
  BY DEF IInv
<1>2. IInv /\ [Next]_vars => IInv'
  BY Inductive
<1> QED
  BY Initially, <1>1, <1>2, PTL DEF Spec

\* A launch is taken back only when no session has come of it and none will.
THEOREM RollbackSpares == Spec => []RollbackSparesSession
<1>1. IInv => RollbackSparesSession
  BY DEF IInv, Placed, Supervised, NobodyRan, RollbackSparesSession
<1>2. IInv /\ [Next]_vars => IInv'
  BY Inductive
<1> QED
  BY Initially, <1>1, <1>2, PTL DEF Spec

-----------------------------------------------------------------------------
(* Who closes the session of a cancelled task.                               *)

\* The task was run once, in its session.
Sole == \A r \in Runners \ {inside} : rpc[r] = "idle"

\* The session's request is open only while the launcher waits for it or gave up.
Requested == asked = "sent" => lpc \in {"sent", "unknown", "lost"}

\* A launcher that is done with an open session has recorded it.
Referenced == lpc = "done" /\ session = "open" => rec # None /\ rec.ref

\* The one run of a cancelled task is over, and a confirmation stands.
Settled ==
    Sole =>
        /\ rec # None /\ rec.state = "cancelled" => \A r \in Runners : rpc[r] \in {"idle", "done", "lost"}
        /\ \A c \in Clients : report[c] = "confirmed" =>
              /\ rec # None /\ rec.state = "cancelled"
              /\ cpc[c] \in {"settle", "done"} /\ seen[c] # None
              /\ cpc[c] = "done" /\ seen[c].ref => session # "open"
              /\ ~seen[c].ref /\ lpc = "done" => session # "open"

SInv == IInv /\ seen \in [Clients -> Records \cup {None}] /\ Requested /\ Referenced /\ Settled

LEMMA SInitially == Init => SInv
<1> SUFFICES ASSUME Init PROVE SInv
  OBVIOUS
<1>1. /\ rec = None /\ asked = "no" /\ session = "none" /\ report = [c \in Clients |-> "none"]
      /\ seen = [c \in Clients |-> None]
  BY Zenon DEF Init
<1> QED
  BY <1>1, Initially DEF SInv, Requested, Referenced, Settled

\* The launcher looks for a cancellation when it records its session.
LEMMA SLauncher ==
    ASSUME SInv, IInv',
           \/ AddWorktree \/ SaveRecord \/ Register \/ Rollback \/ CreateSession \/ SessionAnswer
           \/ RecordSession \/ LauncherCloses \/ LauncherLost
    PROVE  SInv'
<1> USE DEF SInv, IInv, Placed, Cancelled, Sole, Requested, Referenced, Settled, WithSession,
            EndSession, files, host, run, cmd
<1>1. CASE AddWorktree
  BY <1>1 DEF AddWorktree
<1>2. CASE SaveRecord
  BY <1>2 DEF SaveRecord
<1>3. CASE Register
  BY <1>3 DEF Register
<1>4. CASE Rollback
  BY <1>4 DEF Rollback
<1>5. CASE CreateSession
  BY <1>5 DEF CreateSession
<1>6. CASE SessionAnswer
  BY <1>6 DEF SessionAnswer
<1>7. CASE RecordSession
  BY <1>7 DEF RecordSession
<1>8. CASE LauncherCloses
  BY <1>8 DEF LauncherCloses
<1>9. CASE LauncherLost
  BY <1>9 DEF LauncherLost
<1> QED
  BY <1>1, <1>2, <1>3, <1>4, <1>5, <1>6, <1>7, <1>8, <1>9

\* A session opens only for the launch that asked for it.
LEMMA SHost ==
    ASSUME SInv, IInv',
           \/ HostRefuses \/ SessionEnds \/ \E r \in Runners : HostCreates(r)
    PROVE  SInv'
<1> USE DEF SInv, IInv, Cancelled, NobodyRan, Sole, Requested, Referenced, Settled, EndSession,
            files, run, cmd
<1>1. CASE HostRefuses
  BY <1>1 DEF HostRefuses
<1>2. CASE SessionEnds
  BY <1>2 DEF SessionEnds
<1>3. ASSUME NEW r \in Runners, HostCreates(r) PROVE SInv'
  BY <1>3 DEF HostCreates
<1> QED
  BY <1>1, <1>2, <1>3

\* A run-task that records a cancellation is over; another run is no sole one.
LEMMA SRun ==
    ASSUME SInv, IInv',
           \E r \in Runners : \/ Rerun(r) \/ RunTask(r) \/ HarnessExits(r) \/ RunnerLost(r)
    PROVE  SInv'
<1> USE DEF SInv, IInv, TypeOK, Placed, Sole, Requested, Referenced, Settled, WithState,
            Record, Step, files, host, cmd
<1>1. ASSUME NEW r \in Runners, Rerun(r) PROVE SInv'
  BY <1>1 DEF Rerun
<1>2. ASSUME NEW r \in Runners, VerifyTask(r) PROVE SInv'
  BY <1>2 DEF VerifyTask
<1>3. ASSUME NEW r \in Runners, OpenOwner(r) PROVE SInv'
  BY <1>3 DEF OpenOwner
<1>4. ASSUME NEW r \in Runners, LockOwner(r) PROVE SInv'
  BY <1>4 DEF LockOwner
<1>5. ASSUME NEW r \in Runners, VerifyAgain(r) PROVE SInv'
  BY <1>5 DEF VerifyAgain
<1>6. ASSUME NEW r \in Runners, HarnessExits(r) PROVE SInv'
  BY <1>6 DEF HarnessExits
<1>7. ASSUME NEW r \in Runners, RunnerLost(r) PROVE SInv'
  BY <1>7 DEF RunnerLost
<1>8. ASSUME NEW r \in Runners, SetRunning(r) PROVE SInv'
  BY <1>8 DEF SetRunning
<1>9. ASSUME NEW r \in Runners, LookForCancel(r) PROVE SInv'
  BY <1>9 DEF LookForCancel
<1>10. ASSUME NEW r \in Runners, Spawn(r) PROVE SInv'
  BY <1>10 DEF Spawn
<1>11. ASSUME NEW r \in Runners, SeeExit(r) PROVE SInv'
  BY <1>11 DEF SeeExit
<1>12. ASSUME NEW r \in Runners, SeeCancel(r) PROVE SInv'
  BY <1>12 DEF SeeCancel
<1>13. ASSUME NEW r \in Runners, RecordOutcome(r) PROVE SInv'
  BY <1>13 DEF RecordOutcome
<1>14. ASSUME NEW r \in Runners, RecordStartupError(r) PROVE SInv'
  BY <1>14 DEF RecordStartupError
<1> QED
  BY <1>1, <1>2, <1>3, <1>4, <1>5, <1>6, <1>7, <1>8, <1>9, <1>10, <1>11, <1>12, <1>13, <1>14 DEF RunTask

\* A command confirms what the record says, and closes the session that it names.
LEMMA SClient ==
    ASSUME SInv, IInv',
           \E c \in Clients : CancelRead(c) \/ CancelWrite(c) \/ CancelPoll(c) \/ CancelSettle(c)
    PROVE  SInv'
<1> USE DEF SInv, IInv, TypeOK, Sole, Requested, Referenced, Settled, EndSession, files,
            host, run
<1>1. ASSUME NEW c \in Clients, CancelRead(c) PROVE SInv'
  BY <1>1 DEF CancelRead
<1>2. ASSUME NEW c \in Clients, CancelWrite(c) PROVE SInv'
  BY <1>2 DEF CancelWrite
<1>3. ASSUME NEW c \in Clients, CancelPoll(c) PROVE SInv'
  BY <1>3 DEF CancelPoll
<1>4. ASSUME NEW c \in Clients, CancelSettle(c) PROVE SInv'
  BY <1>4 DEF CancelSettle
<1> QED
  BY <1>1, <1>2, <1>3, <1>4

\* A listing leaves a cancelled record alone.
LEMMA SList ==
    ASSUME SInv, IInv',
           ListBegin \/ ListingStep
    PROVE  SInv'
<1> USE DEF SInv, IInv, Placed, Sole, Requested, Referenced, Settled, Live, LiveStates,
            WithState, files, host, run, cmd
<1>1. CASE ListBegin
  BY <1>1 DEF ListBegin
<1>2. CASE ProbeOwner
  BY <1>2 DEF ProbeOwner
<1>3. CASE ProbeEnd
  BY <1>3 DEF ProbeEnd
<1>4. CASE AskHost
  BY <1>4 DEF AskHost
<1>5. CASE SetExitedIfLive
  BY <1>5 DEF SetExitedIfLive
<1> QED
  BY <1>1, <1>2, <1>3, <1>4, <1>5 DEF ListingStep

LEMMA SInductive == ASSUME SInv, [Next]_vars PROVE SInv'
<1>1. IInv'
  BY Inductive DEF SInv
<1>2. CASE UNCHANGED vars
  BY <1>1, <1>2 DEF SInv, Sole, Requested, Referenced, Settled, vars, files, host, run, cmd, list
<1>3. CASE \/ AddWorktree \/ SaveRecord \/ Register \/ Rollback \/ CreateSession \/ SessionAnswer
           \/ RecordSession \/ LauncherCloses \/ LauncherLost
  BY <1>1, <1>3, SLauncher
<1>4. CASE HostRefuses \/ SessionEnds \/ \E r \in Runners : HostCreates(r)
  BY <1>1, <1>4, SHost
<1>5. CASE \E r \in Runners : Rerun(r) \/ RunTask(r) \/ HarnessExits(r) \/ RunnerLost(r)
  BY <1>1, <1>5, SRun
<1>6. CASE \E c \in Clients : CancelRead(c) \/ CancelWrite(c) \/ CancelPoll(c) \/ CancelSettle(c)
  BY <1>1, <1>6, SClient
<1>7. CASE ListBegin \/ ListingStep
  BY <1>1, <1>7, SList
<1> QED
  BY <1>2, <1>3, <1>4, <1>5, <1>6, <1>7 DEF Next

\* The session of a cancelled task does not stay open: the command that confirmed
\* the cancellation closed the session it knew of, or the launcher did.
THEOREM CancelledIsClosed == Spec => []CancelledSessionClosed
<1>1. SInv => CancelledSessionClosed
  BY DEF SInv, Sole, Settled, CancelledSessionClosed
<1>2. SInv /\ [Next]_vars => SInv'
  BY SInductive
<1> QED
  BY SInitially, <1>1, <1>2, PTL DEF Spec

=================================================================================
