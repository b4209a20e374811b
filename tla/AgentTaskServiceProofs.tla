------------------------ MODULE AgentTaskServiceProofs ------------------------
(***************************************************************************)
(* Theorems about AgentTaskService, for every number of sessions,          *)
(* controllers and operations.  The argument: a controller past its claim  *)
(* holds the execution lock, a claimed effect is never pending again, and  *)
(* an operation with a receipt is never accepted again.  For what readers  *)
(* see: every publication adds one change at the end of the window and     *)
(* drops at most the first, and receipts are only ever added.              *)
(***************************************************************************)
EXTENDS AgentTaskService, FiniteSetTheorems, TLAPS

Held == \A k \in Cores : pc[k] # "idle" => exec = k /\ eff[k] \in Effects

\* What a controller knows of the effect it dispatches.
Dispatching ==
    \A k \in Cores :
        /\ pc[k] = "call" => delivery[eff[k]] = "claimed" /\ calls[eff[k]] = 0
        /\ pc[k] \in {"calling", "ack"} => delivery[eff[k]] = "claimed" /\ calls[eff[k]] = 1
        /\ pc[k] \in {"call", "calling"} => ~Terminal(life)
        /\ pc[k] = "ack" => outcome[k] \in {"confirmed", "not_started", "unknown"}
        /\ pc[k] = "ack" /\ outcome[k] = "not_started" => eff[k] = "start" /\ work = "none"
        /\ pc[k] = "ack" /\ outcome[k] = "confirmed" /\ eff[k] = "cancel" => work # "running"

Counted ==
    \A e \in Effects :
        /\ calls[e] <= 1
        /\ delivery[e] \in {"none", "pending"} => calls[e] = 0

Entered ==
    /\ life = "absent" => \A e \in Effects : delivery[e] = "none"
    /\ \A o \in Ops : delivery[o] # "none" => receipts[o] # None
    /\ delivery["start"] = "pending" => delivery["cancel"] \in {"none", "pending"}

Worked ==
    /\ TerminalMeansOver
    /\ delivery["start"] = "pending" \/ (fresh /\ life = "absent") => work = "none"

\* The parts of TypeOK the argument needs.
Typed ==
    /\ life \in Lifecycles /\ wanted \in BOOLEAN
    /\ delivery \in [Effects -> Deliveries]
    /\ receipts \in [Ops -> Receipts \cup {None}]
    /\ request \in [Sessions -> Requests \cup {None}]
    /\ exec \in Cores \cup {None}
    /\ pc \in [Cores -> {"idle", "claim", "call", "calling", "ack"}]
    /\ eff \in [Cores -> Effects \cup {None}]
    /\ outcome \in [Cores -> {"confirmed", "not_started", "unknown", "none"}]
    /\ work \in {"none", "running", "ended"} /\ fresh \in BOOLEAN
    /\ calls \in [Effects -> Nat]
    /\ revision \in Revisions

SInv == Typed /\ Held /\ Dispatching /\ Counted /\ Entered /\ Worked

-----------------------------------------------------------------------------
\* The effects, without the way they are written.
LEMMA EffectNames ==
    /\ "start" \in Effects /\ "cancel" \in Effects /\ Ops \subseteq Effects
    /\ \A o \in Ops : o # "start" /\ o # "cancel"
    /\ \A e \in Effects : e # "start" /\ e # "cancel" => e \in Ops
    /\ \A e \in Effects : e # None
  BY OpsDistinct, NoneDistinct DEF Effects

LEMMA Initially == Init => SInv
<1> SUFFICES ASSUME Init PROVE SInv
  OBVIOUS
<1> USE RevisionBound, EffectNames DEF Init
<1>1. Typed
  <2>1. life \in Lifecycles /\ revision \in Revisions /\ delivery \in [Effects -> Deliveries]
    BY DEF Lifecycles, Revisions, Deliveries
  <2>2. pc \in [Cores -> {"idle", "claim", "call", "calling", "ack"}] /\ eff \in [Cores -> Effects \cup {None}]
    OBVIOUS
  <2>3. receipts \in [Ops -> Receipts \cup {None}] /\ request \in [Sessions -> Requests \cup {None}]
    OBVIOUS
  <2>4. calls \in [Effects -> Nat] /\ outcome \in [Cores -> {"confirmed", "not_started", "unknown", "none"}]
    OBVIOUS
  <2>5. work \in {"none", "running", "ended"} /\ fresh \in BOOLEAN
    OBVIOUS
  <2>6. QED
    BY <2>1, <2>2, <2>3, <2>4, <2>5 DEF Typed
<1>2. Held /\ Dispatching /\ Counted /\ Entered
  BY DEF Held, Dispatching, Counted, Entered
<1>3. Worked
  BY DEF Worked, TerminalMeansOver, Terminal, Terminals
<1>4. QED
  BY <1>1, <1>2, <1>3 DEF SInv

LEMMA ChangeCounts ==
    ASSUME Typed, Change
    PROVE  revision' \in Revisions
  BY RevisionBound DEF Typed, Change, Revisions

\* What an accepted mutation changes, request by request.
LEMMA Accepted ==
    ASSUME Typed, NEW c \in Sessions, Accept(c)
    PROVE  /\ request[c] \in Requests /\ request[c].op \in Ops
           /\ life # "absent" /\ receipts[request[c].op] = None
           /\ receipts' = [receipts EXCEPT ![request[c].op] = [req |-> request[c], rev |-> revision + 1]]
           /\ Submit \/ Cancel \/ Input(request[c].op)
           /\ revision' = revision + 1 /\ Change
           /\ UNCHANGED <<exec, pc, eff, outcome, work, fresh, calls>>
           /\ request' \in [Sessions -> Requests \cup {None}]
<1>1. request[c] \in Requests
  BY DEF Accept, Typed
<1>2. UNCHANGED <<exec, pc, eff, outcome, work, fresh, calls>>
  BY DEF Accept, coreVars
<1>3. request' \in [Sessions -> Requests \cup {None}]
  <2>1. Answered(c)
    BY DEF Accept
  <2>2. QED
    BY <2>1 DEF Answered, Typed
<1>4. revision' = revision + 1 /\ Change
  BY DEF Accept, Change
<1>5. QED
  BY <1>1, <1>2, <1>3, <1>4 DEF Accept, Requests

LEMMA TypedNext ==
    ASSUME SInv, Next
    PROVE  Typed'
<1> USE ChangeCounts, NoneDistinct, EffectNames DEF Leave, KGoto, entry, coreVars, history,
        SInv, Typed, Held, Revisions
<1>1. CASE RegisterAdmitted
  <2>1. life' \in Lifecycles
    BY <1>1 DEF RegisterAdmitted, Register, Lifecycles
  <2>2. delivery' \in [Effects -> Deliveries]
    BY <1>1 DEF RegisterAdmitted, Register, Deliveries
  <2>3. QED
    BY <1>1, <2>1, <2>2 DEF RegisterAdmitted, Register
<1>2. CASE TrackExisting
  <2>1. life' \in Lifecycles
    BY <1>2 DEF TrackExisting, Register, Lifecycles
  <2>2. delivery' \in [Effects -> Deliveries]
    BY <1>2 DEF TrackExisting, Register, Deliveries
  <2>3. QED
    BY <1>2, <2>1, <2>2 DEF TrackExisting, Register
<1>3. CASE \E c \in Sessions : Compose(c)
  BY <1>3 DEF Compose, Requests
<1>4. CASE \E c \in Sessions : Accept(c)
  <2>1. PICK c \in Sessions : Accept(c)
    BY <1>4
  <2> DEFINE q == request[c]
  <2>2. /\ q \in Requests /\ q.op \in Ops /\ (Submit \/ Cancel \/ Input(q.op))
        /\ receipts' = [receipts EXCEPT ![q.op] = [req |-> q, rev |-> revision + 1]]
        /\ revision' = revision + 1 /\ revision' \in Revisions
        /\ UNCHANGED <<exec, pc, eff, outcome, work, fresh, calls>>
        /\ request' \in [Sessions -> Requests \cup {None}]
    BY <2>1, Accepted, ChangeCounts
  <2>3. life' \in Lifecycles /\ wanted' \in BOOLEAN
    BY <2>2 DEF Submit, Cancel, Input, Lifecycles
  <2>4. delivery' \in [Effects -> Deliveries]
    BY <2>2 DEF Submit, Cancel, Input, Deliveries
  <2>5. [req |-> q, rev |-> revision + 1] \in Receipts
    BY <2>2 DEF Receipts
  <2>6. receipts' \in [Ops -> Receipts \cup {None}]
    BY <2>2, <2>5
  <2>7. QED
    BY <2>2, <2>3, <2>4, <2>6
<1>5. CASE \E c \in Sessions : Repeat(c)
  BY <1>5 DEF Repeat, Answered
<1>6. CASE \E c \in Sessions : GiveUp(c)
  BY <1>6 DEF GiveUp
<1>7. CASE \E k \in Cores, e \in Effects : Dispatch(k, e)
  BY <1>7 DEF Dispatch
<1>8. CASE \E k \in Cores : ClaimEffect(k)
  <2>1. PICK k \in Cores : ClaimEffect(k)
    BY <1>8
  <2>2. life' \in Lifecycles /\ delivery' \in [Effects -> Deliveries]
    BY <2>1 DEF ClaimEffect, Lifecycles, Deliveries
  <2>3. QED
    BY <2>1, <2>2 DEF ClaimEffect
<1>9. CASE \E k \in Cores : Withdraw(k)
  <2>1. PICK k \in Cores : Withdraw(k)
    BY <1>9
  <2>2. life' \in Lifecycles /\ delivery' \in [Effects -> Deliveries]
    BY <2>1 DEF Withdraw, Lifecycles, Terminals, Deliveries
  <2>3. QED
    BY <2>1, <2>2 DEF Withdraw
<1>10. CASE \E k \in Cores : Fail(k)
  BY <1>10 DEF Fail
<1>11. CASE \E k \in Cores : Call(k)
  BY <1>11 DEF Call
<1>12. CASE \E k \in Cores : Return(k)
  BY <1>12 DEF Return
<1>13. CASE \E k \in Cores : Acknowledge(k)
  <2>1. PICK k \in Cores : Acknowledge(k)
    BY <1>13
  <2>2. delivery' \in [Effects -> Deliveries]
    BY <2>1 DEF Acknowledge, Deliveries
  <2>3. After(eff[k], outcome[k]) \in Lifecycles
    BY <2>1 DEF Acknowledge, After, Lifecycles, Terminals, Dispatching
  <2>4. QED
    BY <2>1, <2>2, <2>3 DEF Acknowledge
<1>14. CASE \E l \in {"running", "waiting", "outcome_unknown"} \cup Terminals : Reconcile(l)
  BY <1>14 DEF Reconcile, Lifecycles
<1>15. CASE WorkStarts \/ WorkEnds
  BY <1>15 DEF WorkStarts, WorkEnds, Calling
<1>16. QED
  BY <1>1, <1>2, <1>3, <1>4, <1>5, <1>6, <1>7, <1>8, <1>9, <1>10, <1>11, <1>12, <1>13,
     <1>14, <1>15 DEF Next

LEMMA HeldNext ==
    ASSUME SInv, Next
    PROVE  Held'
<1> USE NoneDistinct, EffectNames DEF Leave, KGoto, entry, coreVars, history, SInv, Typed, Held
<1>1. CASE RegisterAdmitted
  BY <1>1 DEF RegisterAdmitted, Register
<1>2. CASE TrackExisting
  BY <1>2 DEF TrackExisting, Register
<1>3. CASE \E c \in Sessions : Compose(c)
  BY <1>3 DEF Compose, Requests
<1>4. CASE \E c \in Sessions : Accept(c)
  <2>1. PICK c \in Sessions : Accept(c)
    BY <1>4
  <2> DEFINE o == request[c].op
  <2>2. /\ o \in Ops /\ (Submit \/ Cancel \/ Input(o)) /\ receipts[o] = None /\ life # "absent"
        /\ receipts' = [receipts EXCEPT ![o] = [req |-> request[c], rev |-> revision + 1]]
        /\ request[c] \in Requests /\ revision + 1 \in Revisions
        /\ UNCHANGED <<exec, pc, eff, outcome, work, fresh, calls>>
    BY <2>1, Accepted, ChangeCounts
  <2>3. receipts'[o] # None
    BY <2>2, NoReceipt DEF Receipts
  <2> HIDE DEF o
  <2>4. QED
    BY <2>2, <2>3 DEF Submit, Cancel, Input
<1>5. CASE \E c \in Sessions : Repeat(c)
  BY <1>5 DEF Repeat, Answered
<1>6. CASE \E c \in Sessions : GiveUp(c)
  BY <1>6 DEF GiveUp
<1>7. CASE \E k \in Cores, e \in Effects : Dispatch(k, e)
  BY <1>7 DEF Dispatch
<1>8. CASE \E k \in Cores : ClaimEffect(k)
  BY <1>8 DEF ClaimEffect, Claimable
<1>9. CASE \E k \in Cores : Withdraw(k)
  BY <1>9 DEF Withdraw
<1>10. CASE \E k \in Cores : Fail(k)
  BY <1>10 DEF Fail
<1>11. CASE \E k \in Cores : Call(k)
  BY <1>11 DEF Call
<1>12. CASE \E k \in Cores : Return(k)
  BY <1>12 DEF Return
<1>13. CASE \E k \in Cores : Acknowledge(k)
  BY <1>13 DEF Acknowledge, After
<1>14. CASE \E l \in {"running", "waiting", "outcome_unknown"} \cup Terminals : Reconcile(l)
  BY <1>14 DEF Reconcile
<1>15. CASE WorkStarts \/ WorkEnds
  BY <1>15 DEF WorkStarts, WorkEnds, Calling
<1>16. QED
  BY <1>1, <1>2, <1>3, <1>4, <1>5, <1>6, <1>7, <1>8, <1>9, <1>10, <1>11, <1>12, <1>13,
     <1>14, <1>15 DEF Next

LEMMA DispatchingNext ==
    ASSUME SInv, Next
    PROVE  Dispatching'
<1> USE NoneDistinct, EffectNames DEF Leave, KGoto, entry, coreVars, history,
        SInv, Typed, Held, Dispatching, Counted, Entered, TakesInput, Terminal, Terminals
<1>1. CASE RegisterAdmitted
  BY <1>1 DEF RegisterAdmitted, Register
<1>2. CASE TrackExisting
  BY <1>2 DEF TrackExisting, Register
<1>3. CASE \E c \in Sessions : Compose(c)
  BY <1>3 DEF Compose, Requests
<1>4. CASE \E c \in Sessions : Accept(c)
  <2>1. PICK c \in Sessions : Accept(c)
    BY <1>4
  <2> DEFINE o == request[c].op
  <2>2. /\ o \in Ops /\ (Submit \/ Cancel \/ Input(o)) /\ receipts[o] = None /\ life # "absent"
        /\ receipts' = [receipts EXCEPT ![o] = [req |-> request[c], rev |-> revision + 1]]
        /\ request[c] \in Requests /\ revision + 1 \in Revisions
        /\ UNCHANGED <<exec, pc, eff, outcome, work, fresh, calls>>
    BY <2>1, Accepted, ChangeCounts
  <2>3. receipts'[o] # None
    BY <2>2, NoReceipt DEF Receipts
  <2> HIDE DEF o
  <2>4. QED
    BY <2>2, <2>3 DEF Submit, Cancel, Input
<1>5. CASE \E c \in Sessions : Repeat(c)
  BY <1>5 DEF Repeat, Answered
<1>6. CASE \E c \in Sessions : GiveUp(c)
  BY <1>6 DEF GiveUp
<1>7. CASE \E k \in Cores, e \in Effects : Dispatch(k, e)
  BY <1>7 DEF Dispatch
<1>8. CASE \E k \in Cores : ClaimEffect(k)
  <2>1. PICK k \in Cores : ClaimEffect(k)
    BY <1>8
  <2>2. /\ eff[k] \in Effects /\ delivery[eff[k]] = "pending" /\ calls[eff[k]] = 0
        /\ \A j \in Cores : j # k => pc[j] = "idle"
    BY <2>1 DEF ClaimEffect, Claimable, Counted
  <2>3. ~Terminal(life')
    BY <2>1 DEF ClaimEffect, Claimable
  <2>4. QED
    BY <2>1, <2>2, <2>3 DEF ClaimEffect
<1>9. CASE \E k \in Cores : Withdraw(k)
  BY <1>9 DEF Withdraw
<1>10. CASE \E k \in Cores : Fail(k)
  BY <1>10 DEF Fail
<1>11. CASE \E k \in Cores : Call(k)
  BY <1>11 DEF Call
<1>12. CASE \E k \in Cores : Return(k)
  BY <1>12 DEF Return
<1>13. CASE \E k \in Cores : Acknowledge(k)
  BY <1>13 DEF Acknowledge, After
<1>14. CASE \E l \in {"running", "waiting", "outcome_unknown"} \cup Terminals : Reconcile(l)
  BY <1>14 DEF Reconcile
<1>15. CASE WorkStarts \/ WorkEnds
  BY <1>15 DEF WorkStarts, WorkEnds, Calling
<1>16. QED
  BY <1>1, <1>2, <1>3, <1>4, <1>5, <1>6, <1>7, <1>8, <1>9, <1>10, <1>11, <1>12, <1>13,
     <1>14, <1>15 DEF Next

LEMMA CountedNext ==
    ASSUME SInv, Next
    PROVE  Counted'
<1> USE NoneDistinct, EffectNames DEF Leave, KGoto, entry, coreVars, history,
        SInv, Typed, Held, Dispatching, Counted, Entered
<1>1. CASE RegisterAdmitted
  BY <1>1 DEF RegisterAdmitted, Register
<1>2. CASE TrackExisting
  BY <1>2 DEF TrackExisting, Register
<1>3. CASE \E c \in Sessions : Compose(c)
  BY <1>3 DEF Compose, Requests
<1>4. CASE \E c \in Sessions : Accept(c)
  <2>1. PICK c \in Sessions : Accept(c)
    BY <1>4
  <2> DEFINE o == request[c].op
  <2>2. /\ o \in Ops /\ (Submit \/ Cancel \/ Input(o)) /\ receipts[o] = None /\ life # "absent"
        /\ receipts' = [receipts EXCEPT ![o] = [req |-> request[c], rev |-> revision + 1]]
        /\ request[c] \in Requests /\ revision + 1 \in Revisions
        /\ UNCHANGED <<exec, pc, eff, outcome, work, fresh, calls>>
    BY <2>1, Accepted, ChangeCounts
  <2>3. receipts'[o] # None
    BY <2>2, NoReceipt DEF Receipts
  <2> HIDE DEF o
  <2>4. QED
    BY <2>2, <2>3 DEF Submit, Cancel, Input
<1>5. CASE \E c \in Sessions : Repeat(c)
  BY <1>5 DEF Repeat, Answered
<1>6. CASE \E c \in Sessions : GiveUp(c)
  BY <1>6 DEF GiveUp
<1>7. CASE \E k \in Cores, e \in Effects : Dispatch(k, e)
  BY <1>7 DEF Dispatch
<1>8. CASE \E k \in Cores : ClaimEffect(k)
  BY <1>8 DEF ClaimEffect, Claimable
<1>9. CASE \E k \in Cores : Withdraw(k)
  BY <1>9 DEF Withdraw
<1>10. CASE \E k \in Cores : Fail(k)
  BY <1>10 DEF Fail
<1>11. CASE \E k \in Cores : Call(k)
  BY <1>11 DEF Call
<1>12. CASE \E k \in Cores : Return(k)
  BY <1>12 DEF Return
<1>13. CASE \E k \in Cores : Acknowledge(k)
  BY <1>13 DEF Acknowledge, After
<1>14. CASE \E l \in {"running", "waiting", "outcome_unknown"} \cup Terminals : Reconcile(l)
  BY <1>14 DEF Reconcile
<1>15. CASE WorkStarts \/ WorkEnds
  BY <1>15 DEF WorkStarts, WorkEnds, Calling
<1>16. QED
  BY <1>1, <1>2, <1>3, <1>4, <1>5, <1>6, <1>7, <1>8, <1>9, <1>10, <1>11, <1>12, <1>13,
     <1>14, <1>15 DEF Next

LEMMA EnteredNext ==
    ASSUME SInv, Next
    PROVE  Entered'
<1> USE NoneDistinct, EffectNames, NoReceipt DEF Leave, KGoto, entry, coreVars, history,
        SInv, Typed, Held, Dispatching, Counted, Entered, Terminal, Terminals, TakesInput
<1>1. CASE RegisterAdmitted
  BY <1>1 DEF RegisterAdmitted, Register
<1>2. CASE TrackExisting
  BY <1>2 DEF TrackExisting, Register
<1>3. CASE \E c \in Sessions : Compose(c)
  BY <1>3 DEF Compose, Requests
<1>4. CASE \E c \in Sessions : Accept(c)
  <2>1. PICK c \in Sessions : Accept(c)
    BY <1>4
  <2> DEFINE o == request[c].op
  <2>2. /\ o \in Ops /\ (Submit \/ Cancel \/ Input(o)) /\ receipts[o] = None /\ life # "absent"
        /\ receipts' = [receipts EXCEPT ![o] = [req |-> request[c], rev |-> revision + 1]]
        /\ request[c] \in Requests /\ revision + 1 \in Revisions
        /\ UNCHANGED <<exec, pc, eff, outcome, work, fresh, calls>>
    BY <2>1, Accepted, ChangeCounts
  <2>3. receipts'[o] # None
    BY <2>2, NoReceipt DEF Receipts
  <2> HIDE DEF o
  <2>4. QED
    BY <2>2, <2>3 DEF Submit, Cancel, Input
<1>5. CASE \E c \in Sessions : Repeat(c)
  BY <1>5 DEF Repeat, Answered
<1>6. CASE \E c \in Sessions : GiveUp(c)
  BY <1>6 DEF GiveUp
<1>7. CASE \E k \in Cores, e \in Effects : Dispatch(k, e)
  <2>1. UNCHANGED <<life, delivery, receipts>>
    BY <1>7 DEF Dispatch
  <2>2. QED
    BY <2>1
<1>8. CASE \E k \in Cores : ClaimEffect(k)
  BY <1>8 DEF ClaimEffect, Claimable
<1>9. CASE \E k \in Cores : Withdraw(k)
  BY <1>9 DEF Withdraw
<1>10. CASE \E k \in Cores : Fail(k)
  BY <1>10 DEF Fail
<1>11. CASE \E k \in Cores : Call(k)
  BY <1>11 DEF Call
<1>12. CASE \E k \in Cores : Return(k)
  BY <1>12 DEF Return
<1>13. CASE \E k \in Cores : Acknowledge(k)
  BY <1>13 DEF Acknowledge, After
<1>14. CASE \E l \in {"running", "waiting", "outcome_unknown"} \cup Terminals : Reconcile(l)
  BY <1>14 DEF Reconcile
<1>15. CASE WorkStarts \/ WorkEnds
  BY <1>15 DEF WorkStarts, WorkEnds, Calling
<1>16. QED
  BY <1>1, <1>2, <1>3, <1>4, <1>5, <1>6, <1>7, <1>8, <1>9, <1>10, <1>11, <1>12, <1>13,
     <1>14, <1>15 DEF Next

LEMMA WorkedNext ==
    ASSUME SInv, Next
    PROVE  Worked'
<1> USE NoneDistinct, EffectNames DEF Leave, KGoto, entry, coreVars, history,
        SInv, Typed, Held, Dispatching, Entered, Worked, TerminalMeansOver, Terminal, Terminals
<1>1. CASE RegisterAdmitted
  BY <1>1 DEF RegisterAdmitted, Register
<1>2. CASE TrackExisting
  <2>1. delivery'["start"] # "pending" /\ life' # "absent"
    BY <1>2 DEF TrackExisting, Register, Terminals
  <2>2. work' = work /\ (life' \in Terminals => work # "running")
    BY <1>2 DEF TrackExisting, Register
  <2>3. QED
    BY <2>1, <2>2
<1>3. CASE \E c \in Sessions : Compose(c)
  BY <1>3 DEF Compose, Requests
<1>4. CASE \E c \in Sessions : Accept(c)
  <2>1. PICK c \in Sessions : Accept(c)
    BY <1>4
  <2> DEFINE o == request[c].op
  <2>2. /\ o \in Ops /\ (Submit \/ Cancel \/ Input(o)) /\ receipts[o] = None /\ life # "absent"
        /\ receipts' = [receipts EXCEPT ![o] = [req |-> request[c], rev |-> revision + 1]]
        /\ request[c] \in Requests /\ revision + 1 \in Revisions
        /\ UNCHANGED <<exec, pc, eff, outcome, work, fresh, calls>>
    BY <2>1, Accepted, ChangeCounts
  <2>3. receipts'[o] # None
    BY <2>2, NoReceipt DEF Receipts
  <2> HIDE DEF o
  <2>4. QED
    BY <2>2, <2>3 DEF Submit, Cancel, Input
<1>5. CASE \E c \in Sessions : Repeat(c)
  BY <1>5 DEF Repeat, Answered
<1>6. CASE \E c \in Sessions : GiveUp(c)
  BY <1>6 DEF GiveUp
<1>7. CASE \E k \in Cores, e \in Effects : Dispatch(k, e)
  BY <1>7 DEF Dispatch
<1>8. CASE \E k \in Cores : ClaimEffect(k)
  BY <1>8 DEF ClaimEffect, Claimable
<1>9. CASE \E k \in Cores : Withdraw(k)
  <2>1. work' = work /\ work = "none" /\ life' = "cancelled" /\ delivery'["start"] = "confirmed"
    BY <1>9 DEF Withdraw
  <2>2. QED
    BY <2>1
<1>10. CASE \E k \in Cores : Fail(k)
  BY <1>10 DEF Fail
<1>11. CASE \E k \in Cores : Call(k)
  BY <1>11 DEF Call
<1>12. CASE \E k \in Cores : Return(k)
  BY <1>12 DEF Return
<1>13. CASE \E k \in Cores : Acknowledge(k)
  BY <1>13 DEF Acknowledge, After
<1>14. CASE \E l \in {"running", "waiting", "outcome_unknown"} \cup Terminals : Reconcile(l)
  BY <1>14 DEF Reconcile
<1>15. CASE WorkStarts \/ WorkEnds
  BY <1>15 DEF WorkStarts, WorkEnds, Calling
<1>16. QED
  BY <1>1, <1>2, <1>3, <1>4, <1>5, <1>6, <1>7, <1>8, <1>9, <1>10, <1>11, <1>12, <1>13,
     <1>14, <1>15 DEF Next

LEMMA StutterKeeps ==
    ASSUME SInv, UNCHANGED vars
    PROVE  SInv'
  BY DEF vars, entry, coreVars, history, SInv, Typed, Held, Dispatching, Counted, Entered, Worked,
     TerminalMeansOver, Terminal

\* The inductive invariant holds in every reachable state.
THEOREM ServiceInductive == Spec => []SInv
<1>1. SInv /\ [Next]_vars => SInv'
  BY TypedNext, HeldNext, DispatchingNext, CountedNext, EnteredNext, WorkedNext, StutterKeeps DEF SInv
<1>2. QED
  BY Initially, <1>1, PTL DEF Spec

\* At-most-once adapter invocation: no crash, repeated request, late answer or
\* reconciliation makes the adapter see an effect twice.
THEOREM InvokedAtMostOnce == Spec => []AtMostOnce
<1>1. SInv => AtMostOnce
  BY DEF SInv, Counted, AtMostOnce
<1>2. QED
  BY ServiceInductive, <1>1, PTL

\* The task's work does not run once the service has recorded that it is over.
THEOREM NoWorkAfterTheEnd == Spec => []TerminalMeansOver
<1>1. SInv => TerminalMeansOver
  BY DEF SInv, Worked
<1>2. QED
  BY ServiceInductive, <1>1, PTL

-----------------------------------------------------------------------------
(* The entry stays one that validation accepts: the replay window numbers   *)
(* its changes up to the revision, and a receipt is written once, within    *)
(* its limit.                                                               *)

\* The replay window: at most Window changes, numbered up to the revision, the
\* last of which is the snapshot.
Windowed ==
    /\ changes \in Seq(Changes)
    /\ Len(changes) <= Window /\ Len(changes) <= revision
    /\ \A i \in 1..Len(changes) : changes[i].rev = revision - Len(changes) + i
    /\ life # "absent" =>
          /\ Len(changes) > 0
          /\ changes[Len(changes)] = [rev |-> revision, life |-> life, wanted |-> wanted]

Withdrawn == wanted <=> delivery["cancel"] # "none"

Receipted == {o \in Ops : receipts[o] # None}

ReceiptsKept ==
    /\ IsFiniteSet(Receipted) /\ Cardinality(Receipted) <= MaxOperations
    /\ \A o \in Ops : receipts[o] # None => receipts[o].rev \in 1..revision

\* Every answer is the one the receipt still records.
Recorded ==
    /\ answers \subseteq Ops \X Revisions
    /\ \A a \in answers : receipts[a[1]] # None /\ receipts[a[1]].rev = a[2]

EInv == SInv /\ Windowed /\ Withdrawn /\ ReceiptsKept /\ Recorded

LEMMA EInitially == Init => EInv
<1> SUFFICES ASSUME Init PROVE EInv
  OBVIOUS
<1>1. Windowed /\ Withdrawn /\ Recorded
  BY WindowPositive, EffectNames DEF Init, Windowed, Withdrawn, Recorded
<1>2. Receipted = {}
  BY DEF Init, Receipted
<1>3. ReceiptsKept
  BY <1>2, FS_EmptySet, OperationsBound DEF ReceiptsKept, Init
<1>4. QED
  BY <1>1, <1>3, Initially DEF EInv

\* A step publishes one change of the entry, with an answer and its receipt when
\* a session asked for it; or it leaves the entry alone.
LEMMA Publishes ==
    ASSUME SInv, Next
    PROVE  \/ /\ UNCHANGED entry
              /\ \/ UNCHANGED answers
                 \/ \E o \in Ops : /\ receipts[o] # None
                                   /\ answers' = answers \cup {<<o, receipts[o].rev>>}
           \/ /\ Change /\ life' # "absent"
              /\ UNCHANGED <<receipts, answers>>
           \/ /\ Change /\ life' # "absent"
              /\ \E o \in Ops, q \in Requests :
                    /\ receipts[o] = None
                    /\ Cardinality(Receipted) < MaxOperations
                    /\ receipts' = [receipts EXCEPT ![o] = [req |-> q, rev |-> revision + 1]]
                    /\ answers' = answers \cup {<<o, revision + 1>>}
<1> USE DEF coreVars, history
<1>1. CASE RegisterAdmitted \/ TrackExisting
  BY <1>1 DEF RegisterAdmitted, TrackExisting, Register, Terminals
<1>2. CASE \E c \in Sessions : Compose(c) \/ GiveUp(c)
  BY <1>2 DEF Compose, GiveUp
<1>3. CASE \E c \in Sessions : Accept(c)
  <2>1. PICK c \in Sessions : Accept(c)
    BY <1>3
  <2>2. life' # "absent"
    BY <2>1 DEF Accept, Submit, Cancel, Input
  <2>3. QED
    BY <2>1, <2>2, Accepted DEF Accept, SInv, Receipted
<1>4. CASE \E c \in Sessions : Repeat(c)
  <2>1. PICK c \in Sessions : Repeat(c)
    BY <1>4
  <2>2. request[c].op \in Ops
    BY <2>1 DEF Repeat, SInv, Typed, Requests
  <2>3. QED
    BY <2>1, <2>2 DEF Repeat
<1>5. CASE \E k \in Cores, e \in Effects : Dispatch(k, e)
  BY <1>5 DEF Dispatch
<1>6. CASE \E k \in Cores : ClaimEffect(k)
  <2>1. PICK k \in Cores : ClaimEffect(k)
    BY <1>6
  <2>2. eff[k] \in Effects /\ life # "absent"
    BY <2>1 DEF ClaimEffect, Claimable, SInv, Held, Entered
  <2>3. QED
    BY <2>1, <2>2 DEF ClaimEffect
<1>7. CASE \E k \in Cores : Withdraw(k)
  BY <1>7 DEF Withdraw
<1>8. CASE \E k \in Cores : Fail(k) \/ Call(k) \/ Return(k)
  BY <1>8 DEF Fail, Call, Return
<1>9. CASE \E k \in Cores : Acknowledge(k)
  <2>1. PICK k \in Cores : Acknowledge(k)
    BY <1>9
  <2>2. eff[k] \in Effects /\ life # "absent"
    BY <2>1 DEF Acknowledge, SInv, Held, Dispatching, Entered
  <2>3. outcome[k] \in {"confirmed", "not_started", "unknown"}
    BY <2>1 DEF Acknowledge, SInv, Dispatching
  <2>4. QED
    BY <2>1, <2>2, <2>3 DEF Acknowledge, After
<1>10. CASE \E l \in {"running", "waiting", "outcome_unknown"} \cup Terminals : Reconcile(l)
  BY <1>10 DEF Reconcile, Terminals
<1>11. CASE WorkStarts \/ WorkEnds
  BY <1>11 DEF WorkStarts, WorkEnds
<1>12. QED
  BY <1>1, <1>2, <1>3, <1>4, <1>5, <1>6, <1>7, <1>8, <1>9, <1>10, <1>11 DEF Next

\* Entry::change slides the window.
LEMMA WindowMoves ==
    ASSUME Typed, Typed', Windowed, Change
    PROVE  Windowed'
<1> DEFINE n == Len(changes)
           new == [rev |-> revision + 1, life |-> life', wanted |-> wanted']
           all == Append(changes, new)
<1>1. /\ revision \in Nat /\ revision' = revision + 1 /\ new \in Changes
      /\ changes' = IF Len(all) > Window THEN Tail(all) ELSE all
  BY RevisionBound DEF Typed, Change, Changes, Revisions
<1>2. n \in Nat /\ n <= Window /\ n <= revision
  BY DEF Windowed
<1>3. /\ all \in Seq(Changes) /\ Len(all) = n + 1 /\ all[n + 1] = new
      /\ \A i \in 1..n : all[i] = changes[i]
  BY <1>1 DEF Windowed
<1>4. new.rev = revision + 1
  OBVIOUS
<1>5. \A i \in 1..n + 1 : all[i].rev = revision' - (n + 1) + i
  <2> SUFFICES ASSUME NEW i \in 1..n + 1 PROVE all[i].rev = revision' - (n + 1) + i
    OBVIOUS
  <2>1. CASE i = n + 1
    BY <2>1, <1>1, <1>2, <1>3, <1>4
  <2>2. CASE i \in 1..n
    <3>1. changes[i].rev = revision - n + i /\ all[i] = changes[i]
      BY <2>2, <1>3 DEF Windowed
    <3> HIDE DEF all, new, n
    <3>2. all[i].rev = revision - n + i /\ revision - n + i = revision' - (n + 1) + i
      BY <3>1, <2>2, <1>1, <1>2
    <3>3. QED
      BY <3>2
  <2>3. QED
    BY <2>1, <2>2, <1>2
<1> HIDE DEF all, new, n
<1>6. CASE Len(all) <= Window
  <2>1. changes' = all
    BY <1>1, <1>2, <1>3, <1>6, WindowPositive
  <2>2. \A i \in 1..Len(changes') : changes'[i].rev = revision' - Len(changes') + i
    BY <2>1, <1>3, <1>5
  <2>3. changes'[Len(changes')] = [rev |-> revision', life |-> life', wanted |-> wanted']
    BY <2>1, <1>1, <1>3 DEF new
  <2>4. Len(changes') <= Window /\ Len(changes') <= revision' /\ Len(changes') > 0
    BY <2>1, <1>1, <1>2, <1>3, <1>6
  <2>5. QED
    BY <2>1, <2>2, <2>3, <2>4, <1>3 DEF Windowed
<1>7. CASE Len(all) > Window
  <2>1. /\ changes' = Tail(all) /\ changes' \in Seq(Changes) /\ Len(changes') = n /\ n >= 1
        /\ \A i \in 1..n : changes'[i] = all[i + 1]
    BY <1>1, <1>2, <1>3, <1>7, WindowPositive
  <2>2. \A i \in 1..n : changes'[i].rev = revision' - n + i
    <3> SUFFICES ASSUME NEW i \in 1..n PROVE changes'[i].rev = revision' - n + i
      OBVIOUS
    <3>1. i + 1 \in 1..n + 1 /\ changes'[i] = all[i + 1]
      BY <2>1, <1>2
    <3>2. all[i + 1].rev = revision' - (n + 1) + (i + 1)
      BY <3>1, <1>5
    <3>3. revision' - (n + 1) + (i + 1) = revision' - n + i
      BY <1>1, <1>2
    <3>4. QED
      BY <3>1, <3>2, <3>3
  <2>3. changes'[n] = new
    BY <2>1, <1>2, <1>3
  <2>4. changes'[n] = [rev |-> revision', life |-> life', wanted |-> wanted']
    BY <2>3, <1>1 DEF new
  <2>5. n <= revision' /\ n > 0
    BY <2>1, <1>1, <1>2
  <2>6. \A i \in 1..Len(changes') : changes'[i].rev = revision' - Len(changes') + i
    BY <2>1, <2>2
  <2>7. changes'[Len(changes')] = [rev |-> revision', life |-> life', wanted |-> wanted']
    BY <2>1, <2>4
  <2>8. Len(changes') <= Window /\ Len(changes') <= revision' /\ Len(changes') > 0
    BY <2>1, <2>5, <1>2
  <2>9. QED
    BY <2>1, <2>6, <2>7, <2>8 DEF Windowed
<1>8. QED
  BY <1>2, <1>3, <1>6, <1>7, WindowPositive

LEMMA WindowedNext ==
    ASSUME EInv, Typed', Next
    PROVE  Windowed'
<1>1. CASE Change
  BY <1>1, WindowMoves DEF EInv, SInv
<1>2. CASE UNCHANGED entry
  BY <1>2 DEF entry, EInv, Windowed
<1>3. QED
  BY <1>1, <1>2, Publishes DEF EInv

LEMMA WithdrawnNext ==
    ASSUME EInv, Next
    PROVE  Withdrawn'
<1> USE EffectNames DEF entry, EInv, SInv, Typed, Withdrawn
<1>1. CASE RegisterAdmitted \/ TrackExisting
  BY <1>1 DEF RegisterAdmitted, TrackExisting, Register
<1>2. CASE \E c \in Sessions : Compose(c) \/ Repeat(c) \/ GiveUp(c)
  BY <1>2 DEF Compose, Repeat, GiveUp
<1>3. CASE \E c \in Sessions : Accept(c)
  <2>1. PICK c \in Sessions : Accept(c)
    BY <1>3
  <2>2. request[c].op \in Ops /\ (Submit \/ Cancel \/ Input(request[c].op))
    BY <2>1, Accepted
  <2>3. QED
    BY <2>2 DEF Submit, Cancel, Input
<1>4. CASE \E k \in Cores, e \in Effects : Dispatch(k, e)
  BY <1>4 DEF Dispatch
<1>5. CASE \E k \in Cores : ClaimEffect(k)
  <2>1. PICK k \in Cores : ClaimEffect(k)
    BY <1>5
  <2>2. eff[k] \in Effects /\ delivery[eff[k]] = "pending" /\ wanted' = wanted
    BY <2>1 DEF ClaimEffect, Claimable, Held
  <2>3. delivery' = [delivery EXCEPT ![eff[k]] = "claimed"]
    BY <2>1 DEF ClaimEffect
  <2>4. QED
    BY <2>2, <2>3
<1>6. CASE \E k \in Cores : Withdraw(k)
  <2>1. PICK k \in Cores : Withdraw(k)
    BY <1>6
  <2>2. wanted /\ wanted' = wanted /\ delivery'["cancel"] = "confirmed"
    BY <2>1 DEF Withdraw
  <2>3. QED
    BY <2>2
<1>7. CASE \E k \in Cores : Fail(k) \/ Call(k) \/ Return(k)
  BY <1>7 DEF Fail, Call, Return
<1>8. CASE \E k \in Cores : Acknowledge(k)
  <2>1. PICK k \in Cores : Acknowledge(k)
    BY <1>8
  <2>2. eff[k] \in Effects /\ delivery[eff[k]] = "claimed" /\ wanted' = wanted
    BY <2>1 DEF Acknowledge, Dispatching, Held
  <2>3. \E d \in {"unknown", "confirmed"} : delivery' = [delivery EXCEPT ![eff[k]] = d]
    BY <2>1 DEF Acknowledge
  <2>4. QED
    BY <2>2, <2>3
<1>9. CASE \E l \in {"running", "waiting", "outcome_unknown"} \cup Terminals : Reconcile(l)
  BY <1>9 DEF Reconcile
<1>10. CASE WorkStarts \/ WorkEnds
  BY <1>10 DEF WorkStarts, WorkEnds
<1>11. QED
  BY <1>1, <1>2, <1>3, <1>4, <1>5, <1>6, <1>7, <1>8, <1>9, <1>10 DEF Next

LEMMA ReceiptsNext ==
    ASSUME EInv, Typed', Next
    PROVE  ReceiptsKept' /\ Recorded'
<1>1. CASE UNCHANGED entry
  <2>1. ReceiptsKept'
    BY <1>1 DEF entry, EInv, ReceiptsKept, Receipted
  <2>2. CASE UNCHANGED answers
    BY <1>1, <2>1, <2>2 DEF entry, EInv, Recorded
  <2>3. CASE \E o \in Ops : receipts[o] # None /\ answers' = answers \cup {<<o, receipts[o].rev>>}
    <3>1. PICK o \in Ops : receipts[o] # None /\ answers' = answers \cup {<<o, receipts[o].rev>>}
      BY <2>3
    <3>2. receipts[o].rev \in Revisions
      BY <3>1 DEF EInv, SInv, Typed, Receipts
    <3>3. QED
      BY <1>1, <2>1, <3>1, <3>2 DEF entry, EInv, Recorded
  <2>4. QED
    BY <1>1, <2>2, <2>3, Publishes DEF EInv, entry, Change, SInv, Typed, Revisions
<1>2. CASE Change /\ UNCHANGED <<receipts, answers>>
  BY <1>2, RevisionBound DEF EInv, ReceiptsKept, Recorded, Receipted, Change, SInv, Typed, Revisions
<1>3. CASE /\ Change
           /\ \E o \in Ops, q \in Requests :
                 /\ receipts[o] = None
                 /\ Cardinality(Receipted) < MaxOperations
                 /\ receipts' = [receipts EXCEPT ![o] = [req |-> q, rev |-> revision + 1]]
                 /\ answers' = answers \cup {<<o, revision + 1>>}
  <2>1. PICK o \in Ops, q \in Requests :
                 /\ receipts[o] = None
                 /\ Cardinality(Receipted) < MaxOperations
                 /\ receipts' = [receipts EXCEPT ![o] = [req |-> q, rev |-> revision + 1]]
                 /\ answers' = answers \cup {<<o, revision + 1>>}
    BY <1>3
  <2>2. /\ revision' = revision + 1 /\ revision \in Nat /\ revision + 1 \in Revisions
        /\ receipts \in [Ops -> Receipts \cup {None}]
    BY <1>3, RevisionBound DEF Change, EInv, SInv, Typed, Revisions
  <2>3. receipts'[o] # None /\ receipts'[o].rev = revision + 1
    <3>1. [req |-> q, rev |-> revision + 1] \in Receipts
      BY <2>2 DEF Receipts
    <3>2. QED
      BY <2>1, <2>2, <3>1, NoReceipt
  <2>4. Receipted' = Receipted \cup {o} /\ o \notin Receipted
    BY <2>1, <2>2, <2>3 DEF Receipted
  <2>5. IsFiniteSet(Receipted') /\ Cardinality(Receipted') <= MaxOperations
    <3>1. IsFiniteSet(Receipted') /\ Cardinality(Receipted') = Cardinality(Receipted) + 1
      BY <2>4, FS_AddElement DEF EInv, ReceiptsKept
    <3>2. Cardinality(Receipted) \in Nat
      BY FS_CardinalityType DEF EInv, ReceiptsKept
    <3>3. QED
      BY <2>1, <3>1, <3>2, OperationsBound
  <2>6. \A p \in Ops : receipts'[p] # None => receipts'[p].rev \in 1..revision'
    BY <2>1, <2>2, <2>3 DEF EInv, ReceiptsKept
  <2>7. Recorded'
    BY <2>1, <2>2, <2>3 DEF EInv, Recorded
  <2>8. QED
    BY <2>5, <2>6, <2>7 DEF ReceiptsKept
<1>4. QED
  BY <1>1, <1>2, <1>3, Publishes DEF EInv

THEOREM EntryInductive == Spec => []EInv
<1>1. EInv /\ SInv' /\ [Next]_vars => EInv'
  <2> SUFFICES ASSUME EInv, SInv', [Next]_vars PROVE EInv'
    OBVIOUS
  <2>1. CASE Next
    BY <2>1, WindowedNext, WithdrawnNext, ReceiptsNext DEF EInv, SInv
  <2>2. CASE UNCHANGED vars
    BY <2>2 DEF vars, entry, history, EInv, Windowed, Withdrawn, ReceiptsKept, Receipted, Recorded
  <2>3. QED
    BY <2>1, <2>2
<1>2. QED
  BY EInitially, ServiceInductive, <1>1, PTL DEF Spec

\* Every entry a transaction publishes is one Entry::validate accepts, so no
\* later transaction is refused because of what an earlier one wrote: at the
\* limits of the window, of the receipts and of the revision neither.
THEOREM EntriesStayValid == Spec => []EntryValid
<1>1. EInv => EntryValid
  <2> SUFFICES ASSUME EInv PROVE EntryValid
    OBVIOUS
  <2>1. TypeOK
    BY DEF EInv, SInv, Typed, Windowed, Recorded, TypeOK
  <2>2. ASSUME life # "absent" PROVE Valid
    <3> DEFINE n == Len(changes)
    <3>1. /\ n \in 1..Window /\ n <= revision /\ revision \in Nat
          /\ \A i \in 1..n : changes[i].rev = revision - n + i
      BY <2>2, WindowPositive, RevisionBound DEF EInv, SInv, Typed, Windowed, Revisions
    <3>2. changes[n] = [rev |-> revision, life |-> life, wanted |-> wanted]
      BY <2>2 DEF EInv, Windowed
    <3> HIDE DEF n
    <3>3. changes[1].rev # 0
      <4>1. changes[1].rev = revision - n + 1 /\ revision - n + 1 # 0
        BY <3>1, WindowPositive
      <4>2. QED
        BY <4>1
    <3>4. \A i \in 1..n - 1 : changes[i].rev + 1 = changes[i + 1].rev
      <4> SUFFICES ASSUME NEW i \in 1..n - 1 PROVE changes[i].rev + 1 = changes[i + 1].rev
        OBVIOUS
      <4>1. i \in 1..n /\ i + 1 \in 1..n
        BY <3>1, WindowPositive
      <4>2. changes[i].rev = revision - n + i /\ changes[i + 1].rev = revision - n + (i + 1)
        BY <4>1, <3>1
      <4>3. QED
        BY <4>1, <4>2, <3>1, WindowPositive
    <3>5. QED
      BY <3>1, <3>2, <3>3, <3>4 DEF n, EInv, Withdrawn, ReceiptsKept, Receipted, Valid
  <2>3. QED
    BY <2>1, <2>2 DEF EntryValid
<1>2. QED
  BY EntryInductive, <1>1, PTL

\* However often a request is repeated, and whoever asks, every answer to an
\* operation names the revision it was applied at.
THEOREM OneAnswerPerOperation == Spec => []AnswersAgree
<1>1. EInv => AnswersAgree
  BY DEF EInv, Recorded, AnswersAgree
<1>2. QED
  BY EntryInductive, <1>1, PTL

\* A reader whose cursor has not expired gets every later revision once, in
\* order, however far the window has slid.
THEOREM ReplayMissesNothing == Spec => []ReplayComplete
<1>1. EInv => ReplayComplete
  <2> SUFFICES ASSUME EInv, life # "absent", NEW after \in 0..revision, ~Expired(after)
               PROVE  /\ {Replay(after)[i].rev : i \in DOMAIN Replay(after)} = after + 1..revision
                      /\ \A i, j \in DOMAIN Replay(after) :
                            i < j => Replay(after)[i].rev < Replay(after)[j].rev
    BY DEF ReplayComplete
  <2> DEFINE n == Len(changes)
             kept == Replay(after)
  <2>1. /\ n \in Nat /\ n >= 1 /\ n <= revision /\ revision \in Nat /\ DOMAIN changes = 1..n
        /\ \A i \in 1..n : changes[i].rev = revision - n + i
    BY RevisionBound DEF EInv, SInv, Typed, Windowed, Revisions
  <2>2. /\ DOMAIN kept = {i \in 1..n : changes[i].rev > after}
        /\ \A i \in DOMAIN kept : kept[i] = changes[i]
    BY <2>1 DEF Replay
  <2>3. after + 1 >= changes[1].rev
    BY <2>1 DEF Expired
  <2> HIDE DEF n, kept
  <2>4. \A i \in DOMAIN kept : i \in 1..n /\ kept[i].rev = revision - n + i /\ kept[i].rev > after
    BY <2>1, <2>2
  <2>5. \A r \in after + 1..revision : \E i \in DOMAIN kept : kept[i].rev = r
    <3> SUFFICES ASSUME NEW r \in after + 1..revision PROVE \E i \in DOMAIN kept : kept[i].rev = r
      OBVIOUS
    <3>1. changes[1].rev = revision - n + 1
      BY <2>1
    <3>2. r + n - revision \in 1..n
      BY <3>1, <2>1, <2>3
    <3>3. changes[r + n - revision].rev = r
      <4>1. changes[r + n - revision].rev = revision - n + (r + n - revision)
        BY <3>2, <2>1
      <4>2. QED
        BY <4>1, <2>1
    <3>4. r + n - revision \in DOMAIN kept
      BY <3>2, <3>3, <2>2
    <3>5. QED
      BY <3>3, <3>4, <2>2
  <2>6. {kept[i].rev : i \in DOMAIN kept} = after + 1..revision
    <3>1. \A i \in DOMAIN kept : kept[i].rev \in after + 1..revision
      BY <2>1, <2>4
    <3>2. QED
      BY <3>1, <2>5
  <2>7. \A i, j \in DOMAIN kept : i < j => kept[i].rev < kept[j].rev
    BY <2>1, <2>4
  <2>8. QED
    BY <2>6, <2>7 DEF kept
<1>2. QED
  BY EntryInductive, <1>1, PTL

-----------------------------------------------------------------------------
(* The service implements TaskEffects.                                     *)

Phase == [e \in Effects |-> PhaseOf(e)]
Inflight == IF exec # None /\ pc[exec] = "calling" THEN eff[exec] ELSE None

\* The mapping sees a call exactly while its controller is in it.
LEMMA InflightIs ==
    ASSUME SInv
    PROVE  /\ \A k \in Cores : pc[k] = "calling" => Inflight = eff[k]
           /\ (\A k \in Cores : pc[k] # "calling") => Inflight = None
           /\ \A k \in Cores : pc[k] \notin {"idle", "calling"} => Inflight = None
  BY NoneDistinct DEF SInv, Typed, Held, Inflight

\* Steps that touch neither deliveries nor calls keep every phase.
LEMMA SamePhases ==
    ASSUME delivery' = delivery, calls' = calls
    PROVE  Phase' = Phase
  BY DEF Phase, PhaseOf

\* A step that touches one effect moves the phase of that effect.
LEMMA OnePhase ==
    ASSUME NEW e \in Effects, NEW p,
           \A f \in Effects : f # e => delivery'[f] = delivery[f] /\ calls'[f] = calls[f],
           PhaseOf(e)' = p
    PROVE  Phase' = [Phase EXCEPT ![e] = p]
<1>1. \A f \in Effects : f # e => PhaseOf(f)' = PhaseOf(f)
  BY DEF PhaseOf
<1>2. QED
  BY <1>1 DEF Phase

LEMMA ImplementsStep ==
    ASSUME SInv, SInv', [Next]_vars
    PROVE  [Promise!TNext]_<<Phase, Inflight, Terminal(life)>>
<1> USE EffectNames
<1>1. CASE RegisterAdmitted
  <2>1. /\ life = "absent" /\ ~Terminal(life) /\ ~Terminal(life')
        /\ delivery' = [delivery EXCEPT !["start"] = "pending"]
        /\ UNCHANGED <<calls, exec, pc, eff>>
    BY <1>1 DEF RegisterAdmitted, Register, Terminal, Terminals, coreVars, history
  <2>2. Phase["start"] = "absent" /\ Phase' = [Phase EXCEPT !["start"] = "pending"]
    <3>1. Phase["start"] = "absent" /\ PhaseOf("start")' = "pending"
      BY <2>1 DEF SInv, Typed, Counted, Entered, Phase, PhaseOf
    <3>2. \A f \in Effects : f # "start" => delivery'[f] = delivery[f] /\ calls'[f] = calls[f]
      BY <2>1 DEF SInv, Typed
    <3>3. QED
      BY <2>1, <3>1, <3>2, OnePhase
  <2>3. Inflight' = Inflight /\ Terminal(life)' = Terminal(life)
    BY <2>1 DEF Inflight, Terminal
  <2>4. Promise!Ask("start")
    BY <2>1, <2>2, <2>3 DEF Promise!Ask, Phase, Inflight
  <2>5. QED
    BY <2>4 DEF Promise!TNext
<1>2. CASE TrackExisting
  <2>1. /\ life = "absent" /\ ~Terminal(life)
        /\ \E d \in {"unknown", "confirmed"} : delivery' = [delivery EXCEPT !["start"] = d]
        /\ UNCHANGED <<calls, exec, pc, eff>>
    BY <1>2 DEF TrackExisting, Register, Terminal, Terminals, coreVars, history
  <2>2. /\ Phase["start"] = "absent"
        /\ Phase' = [e \in Effects |-> IF e \in {"start"} THEN "settled" ELSE Phase[e]]
    BY <2>1 DEF SInv, Typed, Entered, Counted, Phase, PhaseOf
  <2>3. \A k \in Cores : pc[k] # "calling"
    BY <2>1 DEF SInv, Dispatching, Held, Entered, Typed
  <2>4. Inflight = None /\ Inflight' = Inflight
    BY <2>1, <2>3, InflightIs DEF Inflight
  <2>5. Promise!Settle({"start"})
    BY <2>1, <2>2, <2>4 DEF Promise!Settle, Phase, Inflight, Terminal
  <2>6. QED
    BY <2>5 DEF Promise!TNext
<1>3. CASE \E c \in Sessions : Compose(c) \/ Repeat(c) \/ GiveUp(c)
  <2>1. UNCHANGED <<life, delivery, calls, exec, pc, eff>>
    BY <1>3 DEF Compose, Repeat, GiveUp, entry, coreVars, history
  <2>2. QED
    BY <2>1, SamePhases DEF Inflight
<1>4. CASE \E c \in Sessions : Accept(c)
  <2>1. PICK c \in Sessions : Accept(c)
    BY <1>4
  <2>2. /\ request[c].op \in Ops /\ receipts[request[c].op] = None
        /\ Submit \/ Cancel \/ Input(request[c].op)
        /\ UNCHANGED <<calls, exec, pc, eff>>
    BY <2>1, Accepted DEF SInv
  <2>3. Inflight' = Inflight
    BY <2>2 DEF Inflight
  <2>4. CASE Submit
    BY <2>2, <2>3, <2>4, SamePhases DEF Submit, Terminal, Terminals
  <2>5. CASE Cancel /\ delivery["cancel"] # "none"
    <3>1. delivery' = delivery
      BY <2>5 DEF Cancel, SInv, Typed
    <3>2. QED
      BY <2>2, <2>3, <2>5, <3>1, SamePhases DEF Cancel
  <2>6. CASE Cancel /\ delivery["cancel"] = "none"
    <3>1. Phase["cancel"] = "absent" /\ Phase' = [Phase EXCEPT !["cancel"] = "pending"]
      <4>1. Phase["cancel"] = "absent" /\ PhaseOf("cancel")' = "pending"
        BY <2>2, <2>6 DEF Cancel, SInv, Typed, Counted, Entered, Phase, PhaseOf
      <4>2. \A f \in Effects : f # "cancel" => delivery'[f] = delivery[f] /\ calls'[f] = calls[f]
        BY <2>2, <2>6 DEF Cancel, SInv, Typed
      <4>3. QED
        BY <2>2, <2>6, <4>1, <4>2, OnePhase
    <3>2. Promise!Ask("cancel")
      BY <2>3, <2>6, <3>1 DEF Cancel, Promise!Ask, Phase, Inflight
    <3>3. QED
      BY <3>2 DEF Promise!TNext
  <2>7. CASE Input(request[c].op)
    <3>0. PICK o \in Ops : o = request[c].op
      BY <2>2
    <3>1. delivery[o] = "none" /\ delivery' = [delivery EXCEPT ![o] = "pending"]
      BY <2>2, <2>7, <3>0 DEF Input, SInv, Entered
    <3>2. ~Terminal(life) /\ life' = life
      BY <2>7 DEF Input, TakesInput, Terminal, Terminals
    <3>3. o \in Effects
      BY <3>0
    <3>4. Phase[o] = "absent" /\ Phase' = [Phase EXCEPT ![o] = "pending"]
      <4>1. Phase[o] = "absent" /\ PhaseOf(o)' = "pending"
        BY <2>2, <3>1, <3>3 DEF SInv, Typed, Counted, Entered, Phase, PhaseOf
      <4>2. \A f \in Effects : f # o => delivery'[f] = delivery[f] /\ calls'[f] = calls[f]
        BY <2>2, <3>1, <3>3 DEF SInv, Typed
      <4>3. QED
        BY <2>2, <3>1, <3>3, <4>1, <4>2, OnePhase
    <3>5. Promise!Ask(o)
      BY <2>3, <3>2, <3>4 DEF Promise!Ask, Phase, Inflight, Terminal
    <3>6. QED
      BY <3>3, <3>5 DEF Promise!TNext
  <2>8. QED
    BY <2>2, <2>4, <2>5, <2>6, <2>7
<1>5. CASE \E k \in Cores, e \in Effects : Dispatch(k, e)
  <2>1. PICK k \in Cores : pc[k] = "idle" /\ pc' = [pc EXCEPT ![k] = "claim"] /\ exec = None /\ exec' = k
    BY <1>5 DEF Dispatch, KGoto
  <2>2. Inflight = None /\ Inflight' = None
    BY <2>1 DEF Inflight, SInv, Typed
  <2>3. UNCHANGED <<life, delivery, calls>>
    BY <1>5 DEF Dispatch, entry, history
  <2>4. QED
    BY <2>2, <2>3, SamePhases
<1>6. CASE \E k \in Cores : ClaimEffect(k)
  <2>1. PICK k \in Cores : ClaimEffect(k)
    BY <1>6
  <2>e. PICK e \in Effects : e = eff[k]
    BY <2>1 DEF ClaimEffect, SInv, Held
  <2>2. /\ delivery[e] = "pending" /\ calls[e] = 0 /\ ~Terminal(life)
        /\ delivery' = [delivery EXCEPT ![e] = "claimed"] /\ calls' = calls
        /\ ~Terminal(life')
    BY <2>1, <2>e DEF ClaimEffect, Claimable, TakesInput, Terminal, Terminals, SInv, Counted, history
  <2>3. Inflight = None /\ Inflight' = None
    <3>1. pc[k] = "claim" /\ exec = k
      BY <2>1 DEF ClaimEffect, SInv, Held
    <3>2. (pc' = [pc EXCEPT ![k] = "call"] /\ exec' = exec) \/ exec' = None
      BY <2>1 DEF ClaimEffect, KGoto, Leave
    <3>3. QED
      BY <3>1, <3>2 DEF Inflight, SInv, Typed
  <2>4. Phase[e] = "pending" /\ Phase' = [Phase EXCEPT ![e] = "claimed"]
    <3>1. Phase[e] = "pending" /\ PhaseOf(e)' = "claimed"
      BY <2>2 DEF SInv, Typed, Counted, Entered, Phase, PhaseOf
    <3>2. \A f \in Effects : f # e => delivery'[f] = delivery[f] /\ calls'[f] = calls[f]
      BY <2>2 DEF SInv, Typed
    <3>3. QED
      BY <2>2, <3>1, <3>2, OnePhase
  <2>5. Promise!Claim(e)
    BY <2>2, <2>3, <2>4 DEF Promise!Claim, Phase, Inflight, Terminal
  <2>6. QED
    BY <2>2, <2>5 DEF Promise!TNext
<1>7. CASE \E k \in Cores : Withdraw(k)
  <2>1. PICK k \in Cores : Withdraw(k)
    BY <1>7
  <2>2. /\ delivery["start"] = "pending" /\ delivery["cancel"] \in {"none", "pending"}
        /\ calls["start"] = 0 /\ calls["cancel"] = 0 /\ calls' = calls
        /\ delivery' = [delivery EXCEPT !["start"] = "confirmed", !["cancel"] = "confirmed"]
        /\ ~Terminal(life)
    BY <2>1 DEF Withdraw, SInv, Entered, Counted, history
  <2>3. Inflight = None /\ Inflight' = None
    BY <2>1 DEF Withdraw, Leave, SInv, Typed, Held, Inflight
  <2>4. /\ Phase["start"] \in {"absent", "pending"} /\ Phase["cancel"] \in {"absent", "pending"}
        /\ Phase' = [e \in Effects |-> IF e \in {"start", "cancel"} THEN "settled" ELSE Phase[e]]
    BY <2>2 DEF SInv, Typed, Phase, PhaseOf
  <2>5. Promise!Settle({"start", "cancel"})
    BY <2>2, <2>3, <2>4 DEF Promise!Settle, Phase, Inflight, Terminal
  <2>6. QED
    BY <2>5 DEF Promise!TNext
<1>8. CASE \E k \in Cores : Fail(k)
  <2>1. UNCHANGED <<life, delivery, calls>> /\ Inflight' = None
    BY <1>8 DEF Fail, Leave, entry, history, Inflight
  <2>2. Phase' = Phase
    BY <2>1, SamePhases
  <2>3. CASE Inflight = None
    BY <2>1, <2>2, <2>3
  <2>4. CASE Inflight # None
    <3>1. Promise!CallEnds
      BY <2>1, <2>2, <2>4 DEF Promise!CallEnds, Phase, Inflight
    <3>2. QED
      BY <3>1 DEF Promise!TNext
  <2>5. QED
    BY <2>3, <2>4
<1>9. CASE \E k \in Cores : Call(k)
  <2>1. PICK k \in Cores : Call(k)
    BY <1>9
  <2>e. PICK e \in Effects : e = eff[k]
    BY <2>1 DEF Call, SInv, Held
  <2>2. /\ delivery[e] = "claimed" /\ calls[e] = 0 /\ ~Terminal(life)
        /\ calls' = [calls EXCEPT ![e] = @ + 1] /\ UNCHANGED <<life, delivery, exec, eff>>
        /\ exec = k /\ pc[k] = "call" /\ pc' = [pc EXCEPT ![k] = "calling"]
    BY <2>1, <2>e DEF Call, KGoto, SInv, Held, Dispatching, entry
  <2>3. Inflight = None /\ Inflight' = e
    BY <2>2, <2>e, NoneDistinct DEF SInv, Typed, Inflight
  <2>4. Phase[e] = "claimed" /\ Phase' = [Phase EXCEPT ![e] = "called"]
    <3>1. Phase[e] = "claimed" /\ PhaseOf(e)' = "called"
      BY <2>2 DEF SInv, Typed, Counted, Entered, Phase, PhaseOf
    <3>2. \A f \in Effects : f # e => delivery'[f] = delivery[f] /\ calls'[f] = calls[f]
      BY <2>2 DEF SInv, Typed
    <3>3. QED
      BY <2>2, <3>1, <3>2, OnePhase
  <2>5. Promise!Call(e)
    BY <2>2, <2>3, <2>4 DEF Promise!Call, Phase, Inflight, Terminal
  <2>6. QED
    BY <2>2, <2>5 DEF Promise!TNext
<1>10. CASE \E k \in Cores : Return(k)
  <2>1. PICK k \in Cores : Return(k)
    BY <1>10
  <2>2. /\ UNCHANGED <<life, delivery, calls, exec, eff>> /\ exec = k /\ eff[k] \in Effects
        /\ pc[k] = "calling" /\ pc' = [pc EXCEPT ![k] = "ack"]
    BY <2>1 DEF Return, KGoto, SInv, Held, entry, history
  <2>3. Phase' = Phase
    BY <2>2, SamePhases
  <2>4. Inflight # None /\ Inflight' = None
    BY <2>2, NoneDistinct DEF SInv, Typed, Inflight
  <2>5. Promise!CallEnds
    BY <2>2, <2>3, <2>4 DEF Promise!CallEnds, Phase, Inflight
  <2>6. QED
    BY <2>5 DEF Promise!TNext
<1>11. CASE \E k \in Cores : Acknowledge(k)
  <2>1. PICK k \in Cores : Acknowledge(k)
    BY <1>11
  <2>2. /\ eff[k] \in Effects /\ calls[eff[k]] = 1 /\ calls' = calls
        /\ \E d \in {"unknown", "confirmed"} : delivery' = [delivery EXCEPT ![eff[k]] = d]
    BY <2>1 DEF Acknowledge, SInv, Held, Dispatching, history
  <2>3. Phase' = Phase
    BY <2>2 DEF SInv, Typed, Phase, PhaseOf
  <2>4. Inflight = None /\ Inflight' = None
    BY <2>1 DEF Acknowledge, Leave, SInv, Typed, Held, Inflight
  <2>5. Terminal(life) => Terminal(life')
    BY <2>1 DEF Acknowledge, After
  <2>6. CASE Terminal(life')
    <3>1. Promise!End
      BY <2>3, <2>4, <2>6 DEF Promise!End, Phase, Inflight, Terminal
    <3>2. QED
      BY <3>1 DEF Promise!TNext
  <2>7. CASE ~Terminal(life')
    BY <2>3, <2>4, <2>5, <2>7 DEF Terminal
  <2>8. QED
    BY <2>6, <2>7
<1>12. CASE \E l \in {"running", "waiting", "outcome_unknown"} \cup Terminals : Reconcile(l)
  <2>1. exec = None /\ ~Terminal(life) /\ UNCHANGED <<delivery, calls, exec, pc, eff>>
    BY <1>12 DEF Reconcile, coreVars, history
  <2>2. Phase' = Phase /\ Inflight = None /\ Inflight' = None
    BY <2>1, SamePhases DEF Inflight
  <2>3. CASE Terminal(life')
    <3>1. Promise!End
      BY <2>2, <2>3 DEF Promise!End, Phase, Inflight, Terminal
    <3>2. QED
      BY <3>1 DEF Promise!TNext
  <2>4. CASE ~Terminal(life')
    BY <2>1, <2>2, <2>4 DEF Terminal
  <2>5. QED
    BY <2>3, <2>4
<1>13. CASE WorkStarts \/ WorkEnds \/ UNCHANGED vars
  <2>1. UNCHANGED <<life, delivery, calls, exec, pc, eff>>
    BY <1>13 DEF WorkStarts, WorkEnds, vars, entry, coreVars, history
  <2>2. QED
    BY <2>1, SamePhases DEF Inflight
<1>14. QED
  BY <1>1, <1>2, <1>3, <1>4, <1>5, <1>6, <1>7, <1>8, <1>9, <1>10, <1>11, <1>12, <1>13 DEF Next

\* Every behaviour of the service is one TaskEffects allows: an effect is
\* called at most once, only after its claim, one at a time, and never once the
\* task is over.
THEOREM Refinement == Spec => KeepsPromise
<1>1. Init => Promise!TInit
  BY EffectNames DEF Init, Promise!TInit, PhaseOf, Terminal, Terminals
<1>2. SInv /\ SInv' /\ [Next]_vars => [Promise!TNext]_(Promise!tvars)
  BY ImplementsStep DEF Promise!tvars, Phase, Inflight
<1>3. QED
  BY ServiceInductive, <1>1, <1>2, PTL DEF Spec, KeepsPromise, Promise!TSpec
===============================================================================
