--------------------------- MODULE AgentTaskService ---------------------------
(***************************************************************************)
(* The durable entry of one task in the agent task service, the sessions   *)
(* that read and mutate it, and the controllers that dispatch its effects  *)
(* to an execution adapter.                                                *)
(*                                                                         *)
(* A transaction reads, checks and atomically replaces the entry under the *)
(* entry's lock: it is one step here, and may also fail without any change *)
(* (the lock is busy, a read or write fails) or fail after publication.    *)
(***************************************************************************)
EXTENDS Naturals, Sequences, FiniteSets

CONSTANTS
    Sessions,       \* sessions of the owner: they share its operation identifiers
    Cores,          \* controllers that dispatch effects and reconcile
    Ops,            \* operation identifiers the owner uses
    Window,         \* REPLAY_WINDOW
    MaxOperations,  \* MAX_OPERATIONS: receipts kept
    MaxRevision,    \* the largest revision (u64::MAX in the code)
    None            \* no entry, no request, no process

ASSUME WindowPositive == Window \in Nat \ {0}
ASSUME OperationsBound == MaxOperations \in Nat
ASSUME RevisionBound == MaxRevision \in Nat
ASSUME OpsDistinct == "start" \notin Ops /\ "cancel" \notin Ops
ASSUME NoneDistinct == None \notin Ops \cup Cores \cup {"start", "cancel"}

Effects == {"start", "cancel"} \cup Ops
Deliveries == {"none", "pending", "claimed", "confirmed", "unknown"}
Terminals == {"exited", "failed", "cancelled"}
Lifecycles == {"absent", "prepared", "queued", "starting", "running", "waiting", "outcome_unknown"}
              \cup Terminals
Revisions == 0..MaxRevision
\* A mutation: its identifier, its action, and the revision it was composed for.
Requests == [op : Ops, act : {"submit", "cancel", "input"}, exp : Revisions]
Receipts == [req : Requests, rev : Revisions]
Changes == [rev : Revisions, life : Lifecycles, wanted : BOOLEAN]

ASSUME NoReceipt == None \notin Receipts

VARIABLES
    \* the entry, published as one file
    life,       \* snapshot.lifecycle, or "absent" before registration
    wanted,     \* snapshot.cancellation_requested
    revision,   \* snapshot.revision
    delivery,   \* start, cancel and each input: "none" is a missing Option or input
    receipts,   \* the receipt of each operation, or None
    changes,    \* the replay window
    \* sessions
    request,    \* the request a session has not seen answered, or None
    \* controllers
    exec,       \* holder of the execution lock
    pc,         \* where a controller is
    eff,        \* the effect it dispatches
    outcome,    \* what the adapter answered
    \* the provider's side and history
    work,       \* the task's own process: "none", "running" or "ended"
    fresh,      \* has nobody but this service ever been asked to run the task?
    calls,      \* how often the adapter was called for each effect
    answers     \* <<operation, revision>> of every answer published or replayed

entry == <<life, wanted, revision, delivery, receipts, changes>>
coreVars == <<exec, pc, eff, outcome>>
history == <<fresh, calls, answers>>
vars == <<entry, request, coreVars, work, history>>

TypeOK ==
    /\ life \in Lifecycles /\ wanted \in BOOLEAN /\ revision \in Revisions
    /\ delivery \in [Effects -> Deliveries]
    /\ receipts \in [Ops -> Receipts \cup {None}]
    /\ changes \in Seq(Changes)
    /\ request \in [Sessions -> Requests \cup {None}]
    /\ exec \in Cores \cup {None}
    /\ pc \in [Cores -> {"idle", "claim", "call", "calling", "ack"}]
    /\ eff \in [Cores -> Effects \cup {None}]
    /\ outcome \in [Cores -> {"confirmed", "not_started", "unknown", "none"}]
    /\ work \in {"none", "running", "ended"} /\ fresh \in BOOLEAN
    /\ calls \in [Effects -> Nat]
    /\ answers \subseteq Ops \X Revisions

\* The task is either a newly admitted one, or a record of an earlier execution.
Init ==
    /\ life = "absent" /\ wanted = FALSE /\ revision = 0
    /\ delivery = [e \in Effects |-> "none"]
    /\ receipts = [o \in Ops |-> None]
    /\ changes = <<>>
    /\ request = [c \in Sessions |-> None]
    /\ exec = None
    /\ pc = [k \in Cores |-> "idle"]
    /\ eff = [k \in Cores |-> None]
    /\ outcome = [k \in Cores |-> "none"]
    /\ fresh \in BOOLEAN
    /\ work \in IF fresh THEN {"none"} ELSE {"none", "running", "ended"}
    /\ calls = [e \in Effects |-> 0]
    /\ answers = {}

Terminal(l) == l \in Terminals

\* Entry::change: number the new snapshot and remember it in the replay window.
\* The caller has said what lifecycle and cancellation intent become.
Change ==
    /\ revision < MaxRevision
    /\ revision' = revision + 1
    /\ LET all == Append(changes, [rev |-> revision + 1, life |-> life', wanted |-> wanted'])
       IN  changes' = IF Len(all) > Window THEN Tail(all) ELSE all

-----------------------------------------------------------------------------
(* Registration.                                                           *)

Register(lifecycle, start) ==
    /\ life = "absent"
    /\ life' = lifecycle
    /\ delivery' = [delivery EXCEPT !["start"] = start]
    /\ UNCHANGED wanted /\ Change
    /\ UNCHANGED <<receipts, request, coreVars, work, history>>

RegisterAdmitted == fresh /\ Register("prepared", "pending")

\* The lifecycle is what the task's own record says; it may lag behind the work.
TrackExisting ==
    /\ ~fresh
    /\ \/ Register("outcome_unknown", "unknown")
       \/ work # "none" /\ Register("running", "confirmed")
       \/ work # "none" /\ Register("waiting", "confirmed")
       \/ work # "running" /\ \E l \in Terminals : Register(l, "confirmed")

-----------------------------------------------------------------------------
(* Sessions: read, and mutate with a request that may be repeated.         *)

\* The session reads a snapshot and composes a request for it.
Compose(c) ==
    /\ request[c] = None /\ life # "absent"
    /\ \E o \in Ops, act \in {"submit", "cancel", "input"} :
          request' = [request EXCEPT ![c] = [op |-> o, act |-> act, exp |-> revision]]
    /\ UNCHANGED <<entry, coreVars, work, history>>

\* The answer arrives, or it is lost and the session will repeat the request.
Answered(c) == request' = [request EXCEPT ![c] = None] \/ UNCHANGED request

TakesInput == life \in {"running", "waiting"} /\ ~wanted

\* mutate: what each action does to the entry.
Submit ==
    /\ life = "prepared" /\ life' = "queued"
    /\ UNCHANGED <<wanted, delivery>>

\* A mutated form of Cancel: the intent is recorded without its effect.
CancelUnrecorded ==
    /\ ~Terminal(life) /\ UNCHANGED <<life, delivery>>
    /\ wanted' = TRUE

Cancel ==
    /\ ~Terminal(life) /\ UNCHANGED life
    /\ wanted' = TRUE
    /\ delivery' = [delivery EXCEPT !["cancel"] = IF @ = "none" THEN "pending" ELSE @]

Input(o) ==
    /\ TakesInput /\ UNCHANGED <<life, wanted>>
    /\ delivery' = [delivery EXCEPT ![o] = "pending"]

\* A mutated form of Accept: the receipt is not looked up.
AcceptAgain(c) ==
    /\ request[c] # None
    /\ LET q == request[c] IN
          /\ \/ q.act = "submit" /\ Submit
             \/ q.act = "cancel" /\ Cancel
             \/ q.act = "input" /\ Input(q.op)
          /\ Change
          /\ receipts' = [receipts EXCEPT ![q.op] = [req |-> q, rev |-> revision + 1]]
          /\ answers' = answers \cup {<<q.op, revision + 1>>}
          /\ Answered(c)
    /\ UNCHANGED <<coreVars, work, fresh, calls>>

Accept(c) ==
    /\ request[c] # None /\ life # "absent"
    /\ LET q == request[c] IN
          /\ receipts[q.op] = None
          /\ revision = q.exp
          /\ Cardinality({o \in Ops : receipts[o] # None}) < MaxOperations
          /\ \/ q.act = "submit" /\ Submit
             \/ q.act = "cancel" /\ Cancel
             \/ q.act = "input" /\ Input(q.op)
          /\ Change
          /\ receipts' = [receipts EXCEPT ![q.op] = [req |-> q, rev |-> revision + 1]]
          /\ answers' = answers \cup {<<q.op, revision + 1>>}
          /\ Answered(c)
    /\ UNCHANGED <<coreVars, work, fresh, calls>>

\* The exact request again: its original answer, whatever happened since.
Repeat(c) ==
    /\ request[c] # None
    /\ LET q == request[c] IN
          /\ receipts[q.op] # None /\ receipts[q.op].req = q
          /\ answers' = answers \cup {<<q.op, receipts[q.op].rev>>}
          /\ Answered(c)
    /\ UNCHANGED <<entry, coreVars, work, fresh, calls>>

\* The request is refused (conflict, stale revision, capacity, lifecycle, busy),
\* or its session gives up.
GiveUp(c) ==
    /\ request[c] # None
    /\ request' = [request EXCEPT ![c] = None]
    /\ UNCHANGED <<entry, coreVars, work, history>>

-----------------------------------------------------------------------------
(* Controllers: dispatch_start, dispatch_cancel and dispatch_input.        *)

KGoto(k, step) == pc' = [pc EXCEPT ![k] = step]

\* The dispatch ends, by an answer, an error or a crash; the kernel releases the
\* execution lock.
Leave(k) ==
    /\ KGoto(k, "idle")
    /\ exec' = None
    /\ eff' = [eff EXCEPT ![k] = None]
    /\ outcome' = [outcome EXCEPT ![k] = "none"]

\* A mutated form of Dispatch: nobody is excluded.
DispatchUnlocked(k, e) ==
    /\ pc[k] = "idle"
    /\ exec' = k
    /\ eff' = [eff EXCEPT ![k] = e]
    /\ KGoto(k, "claim")
    /\ UNCHANGED <<entry, request, outcome, work, history>>

Dispatch(k, e) ==
    /\ pc[k] = "idle" /\ exec = None
    /\ exec' = k
    /\ eff' = [eff EXCEPT ![k] = e]
    /\ KGoto(k, "claim")
    /\ UNCHANGED <<entry, request, outcome, work, history>>

\* A mutated form of Claimable: an effect of unknown outcome is tried again.
ClaimableAgain(e) ==
    /\ delivery[e] \in {"pending", "unknown"}
    /\ \/ e = "start" /\ life \in {"queued", "outcome_unknown"} /\ ~wanted
       \/ e = "cancel" /\ ~Terminal(life) /\ delivery["start"] # "pending"
       \/ e \in Ops /\ TakesInput

\* An effect that is pending and still makes sense is claimed.
Claimable(e) ==
    /\ delivery[e] = "pending"
    /\ \/ e = "start" /\ life = "queued" /\ ~wanted
       \/ e = "cancel" /\ ~Terminal(life) /\ delivery["start"] # "pending"
       \/ e \in Ops /\ TakesInput

\* The controller goes on to call the adapter only if it knows the claim was
\* published.
ClaimEffect(k) ==
    /\ pc[k] = "claim" /\ Claimable(eff[k])
    /\ delivery' = [delivery EXCEPT ![eff[k]] = "claimed"]
    /\ life' = IF eff[k] = "start" THEN "starting" ELSE life
    /\ UNCHANGED wanted /\ Change
    /\ \/ KGoto(k, "call") /\ UNCHANGED <<exec, eff, outcome>>
       \/ Leave(k)
    /\ UNCHANGED <<receipts, request, work, history>>

\* A task that was cancelled before its start was claimed ends without a call.
Withdraw(k) ==
    /\ pc[k] = "claim"
    /\ delivery["start"] = "pending" /\ ~Terminal(life)
    /\ \/ eff[k] = "start" /\ life = "queued" /\ wanted
       \/ eff[k] = "cancel" /\ delivery["cancel"] = "pending"
    /\ delivery' = [delivery EXCEPT !["start"] = "confirmed", !["cancel"] = "confirmed"]
    /\ life' = "cancelled"
    /\ UNCHANGED wanted /\ Change
    /\ Leave(k)
    /\ UNCHANGED <<receipts, request, work, history>>

\* A refusal, a busy entry, a failed write, or the death of the controller.
Fail(k) ==
    /\ pc[k] # "idle"
    /\ Leave(k)
    /\ UNCHANGED <<entry, request, work, history>>

Call(k) ==
    /\ pc[k] = "call"
    /\ KGoto(k, "calling")
    /\ calls' = [calls EXCEPT ![eff[k]] = @ + 1]
    /\ UNCHANGED <<entry, request, exec, eff, outcome, work, fresh, answers>>

\* The adapter answers what it knows to be true, or that it does not know.
Return(k) ==
    /\ pc[k] = "calling"
    /\ KGoto(k, "ack")
    /\ \E o \in {"confirmed", "not_started", "unknown"} :
          /\ o = "not_started" => eff[k] = "start" /\ work = "none"
          /\ o = "confirmed" /\ eff[k] = "start" => work # "none"
          /\ o = "confirmed" /\ eff[k] = "cancel" => work # "running"
          /\ outcome' = [outcome EXCEPT ![k] = o]
    /\ UNCHANGED <<entry, request, exec, eff, work, history>>

\* The lifecycle an acknowledged effect leads to.
After(e, o) ==
    IF Terminal(life) THEN life
    ELSE IF e = "start" THEN [confirmed |-> "running", not_started |-> "failed",
                              unknown |-> "outcome_unknown"][o]
    ELSE IF e = "cancel" /\ o = "confirmed" THEN "cancelled"
    ELSE life

Acknowledge(k) ==
    /\ pc[k] = "ack"
    /\ delivery' = [delivery EXCEPT ![eff[k]] = IF outcome[k] = "unknown" THEN "unknown"
                                                ELSE "confirmed"]
    /\ life' = After(eff[k], outcome[k])
    /\ UNCHANGED wanted /\ Change
    /\ Leave(k)
    /\ UNCHANGED <<receipts, request, work, history>>

\* A mutated form of Reconcile: it does not wait for the execution lock.
ReconcileUnlocked(lifecycle) ==
    /\ life # "absent" /\ delivery["start"] # "pending"
    /\ ~Terminal(life) /\ life # lifecycle
    /\ lifecycle \in {"running", "waiting"} => work # "none"
    /\ Terminal(lifecycle) => work # "running"
    /\ life' = lifecycle
    /\ UNCHANGED <<wanted, delivery>> /\ Change
    /\ UNCHANGED <<receipts, request, coreVars, work, history>>

\* Core reports evidence it has for the current revision; the evidence is true.
Reconcile(lifecycle) ==
    /\ exec = None
    /\ life # "absent" /\ delivery["start"] # "pending"
    /\ ~Terminal(life) /\ life # lifecycle
    /\ lifecycle \in {"running", "waiting"} => work # "none"
    /\ Terminal(lifecycle) => work # "running"
    /\ life' = lifecycle
    /\ UNCHANGED <<wanted, delivery>> /\ Change
    /\ UNCHANGED <<receipts, request, coreVars, work, history>>

-----------------------------------------------------------------------------
(* The provider: a call to start may start the work, a call to cancel may  *)
(* end it, and the work may end by itself.                                 *)

Calling(e) == \E k \in Cores : pc[k] = "calling" /\ eff[k] = e

WorkStarts ==
    /\ Calling("start") /\ work = "none"
    /\ work' = "running"
    /\ UNCHANGED <<entry, request, coreVars, history>>

WorkEnds ==
    /\ work = "running"
    /\ work' = "ended"
    /\ UNCHANGED <<entry, request, coreVars, history>>

Next ==
    \/ RegisterAdmitted \/ TrackExisting
    \/ \E c \in Sessions : Compose(c) \/ Accept(c) \/ Repeat(c) \/ GiveUp(c)
    \/ \E k \in Cores : \/ \E e \in Effects : Dispatch(k, e)
                        \/ ClaimEffect(k) \/ Withdraw(k) \/ Fail(k)
                        \/ Call(k) \/ Return(k) \/ Acknowledge(k)
    \/ \E l \in {"running", "waiting", "outcome_unknown"} \cup Terminals : Reconcile(l)
    \/ WorkStarts \/ WorkEnds

Spec == Init /\ [][Next]_vars
-----------------------------------------------------------------------------
(* Properties.                                                             *)

\* No crash, repeated request, late answer or reconciliation makes the adapter
\* see an effect twice: "at-most-once adapter invocation".
AtMostOnce == \A e \in Effects : calls[e] <= 1

\* A terminal lifecycle is never recorded while the task's work runs, and none
\* starts later: the execution lock keeps a cancellation from confirming
\* termination before a start returns.
TerminalMeansOver == Terminal(life) => work # "running"

\* However often a request is repeated, it was applied once: every answer to an
\* operation names the same revision.
AnswersAgree == \A x, y \in answers : x[1] = y[1] => x[2] = y[2]

\* Entry::validate: what a read of the entry accepts.
Valid ==
    /\ Len(changes) \in 1..Window
    /\ changes[1].rev # 0
    /\ changes[Len(changes)] = [rev |-> revision, life |-> life, wanted |-> wanted]
    /\ \A i \in 1..Len(changes) - 1 : changes[i].rev + 1 = changes[i + 1].rev
    /\ wanted <=> delivery["cancel"] # "none"
    /\ Cardinality({o \in Ops : receipts[o] # None}) <= MaxOperations
    /\ \A o \in Ops : receipts[o] # None => receipts[o].rev \in 1..revision

\* Types; and no transition publishes an entry that every later transaction would
\* refuse, at the limit of the revision neither.
EntryValid == TypeOK /\ (life # "absent" => Valid)

\* replay: the changes after a cursor, each at its place in the window, or that
\* they are gone.
\* A mutated form of Expired: one revision short.
ExpiredLate(after) == after + 2 < changes[1].rev
Expired(after) == after + 1 < changes[1].rev
Replay(after) == [i \in {j \in DOMAIN changes : changes[j].rev > after} |-> changes[i]]

\* A reader that follows the replay from any cursor gets every later revision
\* once, in order, or is told that its cursor expired.
ReplayComplete ==
    life # "absent" =>
        \A after \in 0..revision :
            LET kept == Replay(after) IN
            ~Expired(after) =>
                /\ {kept[i].rev : i \in DOMAIN kept} = after + 1..revision
                /\ \A i, j \in DOMAIN kept : i < j => kept[i].rev < kept[j].rev

\* The service keeps its promise about effects, whatever its lifecycle does.
PhaseOf(e) ==
    IF calls[e] > 0 THEN "called"
    ELSE IF delivery[e] = "none" THEN "absent"
    ELSE IF delivery[e] \in {"confirmed", "unknown"} THEN "settled"
    ELSE delivery[e]

Promise == INSTANCE TaskEffects WITH
    phase <- [e \in Effects |-> PhaseOf(e)],
    inflight <- IF exec # None /\ pc[exec] = "calling" THEN eff[exec] ELSE None,
    over <- Terminal(life)

KeepsPromise == Promise!TSpec
===============================================================================
