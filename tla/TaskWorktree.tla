----------------------------- MODULE TaskWorktree -----------------------------
(***************************************************************************)
(* What a task promises to whoever uses its worktree, as long as no        *)
(* supervisor is lost: one worker at a time; each attempt has one worker   *)
(* at most, and none once it has a verdict; a verdict is given when the    *)
(* worker is gone, and stands once another attempt has its turn; attempts  *)
(* follow each other, and a cancellation is lifted, only when nothing      *)
(* runs and every attempt that ran has its verdict; and nothing starts     *)
(* while the task is cancelled.                                            *)
(***************************************************************************)
CONSTANTS
    Attempts, Outcomes, None,
    Workers     \* those that may ever run

VARIABLES
    turn,       \* the attempt that has its turn
    running,    \* the workers that may still act
    spent,      \* the attempts that ever had a worker
    verdict,    \* how each attempt ended, or None
    stopped     \* is the task cancelled?

wvars == <<turn, running, spent, verdict, stopped>>

WInit ==
    /\ turn \in Attempts
    /\ running = {} /\ spent = {}
    /\ verdict = [a \in Attempts |-> None]
    /\ stopped = FALSE

\* Nothing runs, and what ran has its verdict.
Settled == running = {} /\ \A a \in spent : verdict[a] # None

Start(w) ==
    /\ Settled /\ ~stopped
    /\ turn \notin spent /\ verdict[turn] = None
    /\ running' = {w} /\ spent' = spent \cup {turn}
    /\ UNCHANGED <<turn, verdict, stopped>>

Stop ==
    /\ running # {} /\ running' = {}
    /\ UNCHANGED <<turn, spent, verdict, stopped>>

\* An attempt may get a verdict that never ran; a failure to record the end
\* replaces the verdict of the same attempt.
Judge(outcome) ==
    /\ running = {}
    /\ verdict' = [verdict EXCEPT ![turn] = outcome]
    /\ UNCHANGED <<turn, running, spent, stopped>>

\* A supervisor that fails takes its worker with it.
Abort(outcome) ==
    /\ running # {} /\ running' = {}
    /\ verdict[turn] = None /\ verdict' = [verdict EXCEPT ![turn] = outcome]
    /\ UNCHANGED <<turn, spent, stopped>>

Turn ==
    /\ Settled /\ turn' \in Attempts
    /\ UNCHANGED <<running, spent, verdict, stopped>>

Cancel ==
    /\ stopped' = TRUE
    /\ UNCHANGED <<turn, running, spent, verdict>>

Lift ==
    /\ Settled /\ stopped' = FALSE
    /\ UNCHANGED <<turn, running, spent, verdict>>

WNext ==
    \/ \E w \in Workers : Start(w)
    \/ Stop \/ Turn \/ Cancel \/ Lift
    \/ \E outcome \in Outcomes : Judge(outcome) \/ Abort(outcome)

WSpec == WInit /\ [][WNext]_wvars
===============================================================================
