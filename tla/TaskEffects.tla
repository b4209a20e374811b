------------------------------ MODULE TaskEffects ------------------------------
(***************************************************************************)
(* What the agent task service promises about the effects it asks an       *)
(* execution adapter for, whatever controllers run, race and die: an       *)
(* effect is called at most once and only after it was claimed, one call   *)
(* is in flight at a time, and none is made once the task is over.         *)
(***************************************************************************)
CONSTANTS Effects, None

VARIABLES
    phase,      \* how far each effect is
    inflight,   \* the effect whose call is in flight, or None
    over        \* is the task over?

tvars == <<phase, inflight, over>>

TInit ==
    /\ phase = [e \in Effects |-> "absent"]
    /\ inflight = None
    /\ over = FALSE

Ask(e) ==
    /\ phase[e] = "absent" /\ ~over
    /\ phase' = [phase EXCEPT ![e] = "pending"]
    /\ UNCHANGED <<inflight, over>>

\* Effects nobody claimed are decided without a call, perhaps with the task.
Settle(decided) ==
    /\ \A e \in decided : phase[e] \in {"absent", "pending"}
    /\ inflight = None
    /\ phase' = [e \in Effects |-> IF e \in decided THEN "settled" ELSE phase[e]]
    /\ over' \in BOOLEAN /\ (over => over')
    /\ UNCHANGED inflight

Claim(e) ==
    /\ phase[e] = "pending" /\ ~over
    /\ phase' = [phase EXCEPT ![e] = "claimed"]
    /\ UNCHANGED <<inflight, over>>

Call(e) ==
    /\ phase[e] = "claimed" /\ inflight = None /\ ~over
    /\ phase' = [phase EXCEPT ![e] = "called"]
    /\ inflight' = e
    /\ UNCHANGED over

\* The call returns, or its caller dies.
CallEnds ==
    /\ inflight # None
    /\ inflight' = None
    /\ UNCHANGED <<phase, over>>

\* The task ends, but never under a call.
End ==
    /\ inflight = None
    /\ over' = TRUE
    /\ UNCHANGED <<phase, inflight>>

TNext ==
    \/ \E e \in Effects : Ask(e) \/ Claim(e) \/ Call(e)
    \/ \E decided \in SUBSET Effects : Settle(decided)
    \/ CallEnds \/ End

TSpec == TInit /\ [][TNext]_tvars
===============================================================================
