---------------------------- MODULE ApprovalPromise ----------------------------
(***************************************************************************)
(* What a human approval promises to who asks for it and to who decides,   *)
(* whatever workers, operators and resumes race and die: one request is    *)
(* open at a time; an approval is granted once, for a request that was     *)
(* approved and not rejected, while it is open; the attempt does not       *)
(* change under an open request; and nothing is approved or granted any    *)
(* more in an attempt in which a rejection took effect.                    *)
(*                                                                         *)
(* Who asks may be overtaken: its attempt is taken back although it began. *)
(* Until the checkpoint is cleared the last two promises, which are about  *)
(* attempts, are suspended; those about requests stand.                    *)
(***************************************************************************)
CONSTANTS Reqs, Attempts, None

VARIABLES
    phase,      \* how far each request is
    open,       \* the request that is open, or None
    turn,       \* the attempt that asks
    barred,     \* the attempts that were rejected
    overtaken   \* was an attempt that began taken back, and nothing cleared since?

pvars == <<phase, open, turn, barred, overtaken>>

PInit ==
    /\ phase = [r \in Reqs |-> "new"]
    /\ open = None
    /\ turn \in Attempts
    /\ barred = {}
    /\ overtaken = FALSE

Ask(r) ==
    /\ open = None /\ phase[r] = "new" /\ (turn \notin barred \/ overtaken)
    /\ open' = r
    /\ phase' = [phase EXCEPT ![r] = "asked"]
    /\ UNCHANGED <<turn, barred, overtaken>>

Approve ==
    /\ open # None /\ phase[open] = "asked" /\ (turn \notin barred \/ overtaken)
    /\ phase' = [phase EXCEPT ![open] = "approved"]
    /\ UNCHANGED <<open, turn, barred, overtaken>>

\* An approval that was not granted yet may still be taken back.
Reject ==
    /\ open # None /\ phase[open] \in {"asked", "approved"}
    /\ phase' = [phase EXCEPT ![open] = "rejected"]
    /\ UNCHANGED <<open, turn, barred, overtaken>>

\* The rejection takes effect.
Bar ==
    /\ open # None /\ phase[open] = "rejected"
    /\ barred' = barred \cup {turn}
    /\ UNCHANGED <<phase, open, turn, overtaken>>

\* Who asked is answered with the approval.
Grant ==
    /\ open # None /\ phase[open] = "approved" /\ (turn \notin barred \/ overtaken)
    /\ phase' = [phase EXCEPT ![open] = "granted"]
    /\ open' = None
    /\ UNCHANGED <<turn, barred, overtaken>>

\* Nobody waits for the request any more, or only for a refusal.
Withdraw ==
    /\ open # None /\ open' = None
    /\ UNCHANGED <<phase, turn, barred, overtaken>>

\* Another attempt has its turn.
Turn ==
    /\ open = None \/ overtaken
    /\ turn' \in Attempts
    /\ UNCHANGED <<phase, open, barred, overtaken>>

\* An attempt that began is taken back, whatever is open.
Overtake ==
    /\ overtaken' = TRUE
    /\ UNCHANGED <<phase, open, turn, barred>>

\* Nothing is open any more, and every promise stands again.
Clear ==
    /\ open' = None /\ overtaken' = FALSE
    /\ UNCHANGED <<phase, turn, barred>>

PNext ==
    \/ \E r \in Reqs : Ask(r)
    \/ Approve \/ Reject \/ Bar \/ Grant \/ Withdraw \/ Turn \/ Overtake \/ Clear

PSpec == PInit /\ [][PNext]_pvars
================================================================================
