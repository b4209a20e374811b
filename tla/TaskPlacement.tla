---------------------------- MODULE TaskPlacement -----------------------------
(***************************************************************************)
(* Where tasks live: the handle a launch reserves, the checkout it adds,   *)
(* the launch intent that covers the time in between, the record, the      *)
(* index entry, and the removal of all of it beside a supervisor or a      *)
(* resume that wants the task.  Headless launches hold launch.lock of the  *)
(* store, interactive ones the coordination lock: only the handle files    *)
(* are common to both.                                                     *)
(***************************************************************************)
EXTENDS Naturals, FiniteSets

CONSTANTS
    Headless, Interactive,  \* task ids; each is one launch and its process
    Names,                  \* generated names 1..n: base, base-2, ...
    Owners,                 \* supervisor and resume processes
    Remover,                \* `ahu remove`
    MaxInode,               \* bound: owner.lock files ever created for a task
    None

Tasks == Headless \cup Interactive

ASSUME NamesBound == Names = 1..Cardinality(Names)
ASSUME InodeBound == MaxInode \in Nat \ {0}
ASSUME KindsDisjoint == Headless \cap Interactive = {}
ASSUME ProcessesDistinct ==
    None \notin Tasks \cup Owners \cup {Remover} /\ Remover \notin Tasks \cup Owners
    /\ Tasks \cap Owners = {}
ASSUME NoneIsNoRecord ==
    None \notin [task : Tasks, ok : BOOLEAN] \cup [name : Names, ok : BOOLEAN]

VARIABLES
    byName, byId,   \* the handle files: names/<name>.json and ids/<task>.json
    cand, fixed,    \* a launch: the name it tries next; whether it was asked for
    lpc,            \* a launch
    lock, coord,    \* launch.lock of the headless store, the coordination lock
    intent,         \* the launch intent (placement-intent file): its task
    wt,             \* checkouts: "none", "clean", "dirty"
    dir,            \* the task directory: "none", "task" (without headless.json), "full",
                    \* "part" and "empty" (during a removal)
    state,          \* the recorded state
    index,          \* tasks with an index entry
    ino,            \* the inode of owner.lock, 0 without the file
    made,           \* owner.lock inodes created so far
    flock,          \* who holds the flock of each inode
    fd, ppc,        \* owners and remover: the descriptor they opened, where they are
    kept, removed   \* history: checkouts left on purpose, tasks a removal took on

naming == <<byName, byId, cand, fixed>>
places == <<intent, wt, dir, state, index>>
launch == <<lpc, lock, coord>>
guards == <<ino, made, flock, fd, ppc>>
vars == <<naming, places, launch, guards, kept, removed>>

Processes == Owners \cup {Remover}
Inodes == 1..MaxInode
Gone == {"done", "dead"}

Init ==
    /\ byName = [n \in Names |-> None] /\ byId = [t \in Tasks |-> None]
    /\ cand \in [Tasks -> Names] /\ fixed \in [Tasks -> BOOLEAN]
    /\ \A t \in Tasks : fixed[t] \/ cand[t] = 1
    /\ lpc = [t \in Tasks |-> "begin"] /\ lock = None /\ coord = None
    /\ intent = None /\ wt = [t \in Tasks |-> "none"] /\ dir = [t \in Tasks |-> "none"]
    /\ state = [t \in Tasks |-> "live"] /\ index = {}
    /\ ino = [t \in Tasks |-> 0] /\ made = [t \in Tasks |-> 0]
    /\ flock = [t \in Tasks |-> [i \in Inodes |-> None]]
    /\ fd = [p \in Processes |-> None] /\ ppc = [p \in Processes |-> "idle"]
    /\ kept = {} /\ removed = {}

(***************************************************************************)
(* Handles (task_handles.rs).  Both directions must be readable and agree. *)
(***************************************************************************)
Resolve(n) ==
    LET b == byName[n]
    IN  IF b # None /\ b.ok /\ byId[b.task] # None /\ byId[b.task].ok /\ byId[b.task].name = n
        THEN b.task ELSE None

Goto(t, to) == lpc' = [lpc EXCEPT ![t] = to]

\* A launch that fails or is killed keeps what it wrote; its locks are released.
Leave(t, to) ==
    /\ Goto(t, to)
    /\ lock' = IF lock = t THEN None ELSE lock
    /\ coord' = IF coord = t THEN None ELSE coord

\* Mutated form of TakeName: a name whose file cannot be read is taken over.
TakeUnreadable(t) ==
    /\ lpc[t] = "name"
    /\ ~(byName[cand[t]] # None /\ byName[cand[t]].ok)
    /\ byName' = [byName EXCEPT ![cand[t]] = [task |-> t, ok |-> FALSE]]
    /\ Goto(t, "nameWrite")
    /\ UNCHANGED <<byId, cand, fixed, places, lock, coord, guards, kept, removed>>

\* create(): O_EXCL, then the content; a crash in between leaves an unreadable file.
TakeName(t) ==
    /\ lpc[t] = "name" /\ byName[cand[t]] = None
    /\ byName' = [byName EXCEPT ![cand[t]] = [task |-> t, ok |-> FALSE]]
    /\ Goto(t, "nameWrite")
    /\ UNCHANGED <<byId, cand, fixed, places, lock, coord, guards, kept, removed>>

\* Mutated form of NameTaken: a name that exists is taken for this launch's own.
NameTakenIsOwn(t) ==
    /\ lpc[t] = "name" /\ byName[cand[t]] # None /\ Goto(t, "id")
    /\ UNCHANGED <<naming, places, lock, coord, guards, kept, removed>>

NameTaken(t) ==
    /\ lpc[t] = "name" /\ byName[cand[t]] # None
    /\ IF fixed[t] \/ cand[t] + 1 \notin Names
       THEN Leave(t, "dead") /\ cand' = cand
       ELSE cand' = [cand EXCEPT ![t] = @ + 1] /\ UNCHANGED launch
    /\ UNCHANGED <<byName, byId, fixed, places, guards, kept, removed>>

WriteName(t) ==
    /\ lpc[t] = "nameWrite"
    /\ byName' = [byName EXCEPT ![cand[t]] = [task |-> t, ok |-> TRUE]] /\ Goto(t, "id")
    /\ UNCHANGED <<byId, cand, fixed, places, lock, coord, guards, kept, removed>>

TakeId(t) ==
    /\ lpc[t] = "id" /\ byId[t] = None
    /\ byId' = [byId EXCEPT ![t] = [name |-> cand[t], ok |-> FALSE]] /\ Goto(t, "idWrite")
    /\ UNCHANGED <<byName, cand, fixed, places, lock, coord, guards, kept, removed>>

WriteId(t) ==
    /\ lpc[t] = "idWrite"
    /\ byId' = [byId EXCEPT ![t] = [name |-> cand[t], ok |-> TRUE]]
    /\ Goto(t, IF t \in Headless THEN "intent" ELSE "worktree")
    /\ UNCHANGED <<byName, cand, fixed, places, lock, coord, guards, kept, removed>>

(***************************************************************************)
(* Headless placement (launch), under launch.lock.                         *)
(***************************************************************************)
Acquire(t) ==
    /\ lpc[t] = "begin"
    /\ IF t \in Headless THEN lock = None /\ lock' = t /\ coord' = coord /\ Goto(t, "sweep")
                         ELSE coord = None /\ coord' = t /\ lock' = lock /\ Goto(t, "name")
    /\ UNCHANGED <<naming, places, guards, kept, removed>>

\* Mutated form of Sweep: a task record does not protect its checkout.
SweepRecorded(t) ==
    /\ lpc[t] = "sweep" /\ Goto(t, "name") /\ intent' = None
    /\ wt' = IF intent # None /\ lpc[intent] \in Gone /\ wt[intent] = "clean"
             THEN [wt EXCEPT ![intent] = "none"] ELSE wt
    /\ UNCHANGED <<naming, dir, state, index, lock, coord, guards, kept, removed>>

\* sweep_placement_intent: the intent of an earlier launch is consumed; its checkout goes
\* only if the recorder is dead, nothing was recorded and Git finds it clean.  A process
\* id in use again keeps it.
Sweep(t) ==
    /\ lpc[t] = "sweep" /\ Goto(t, "name")
    /\ intent' = None
    /\ \/ /\ intent # None /\ lpc[intent] \in Gone /\ dir[intent] = "none"
          /\ wt' = [wt EXCEPT ![intent] = IF @ = "clean" THEN "none" ELSE @]
          /\ kept' = IF wt[intent] = "dirty" THEN kept \cup {intent} ELSE kept
       \/ wt' = wt /\ kept' = kept \cup (IF intent = None THEN {} ELSE {intent})
    /\ UNCHANGED <<naming, dir, state, index, lock, coord, guards, removed>>

\* Mutated form of WriteIntent: the checkout is added before the intent is written.
WriteIntentLate(t) ==
    /\ lpc[t] = "intent" /\ intent' = intent /\ Goto(t, "worktree")
    /\ UNCHANGED <<naming, wt, dir, state, index, lock, coord, guards, kept, removed>>

WriteIntent(t) ==
    /\ lpc[t] = "intent" /\ intent' = t /\ Goto(t, "worktree")
    /\ UNCHANGED <<naming, wt, dir, state, index, lock, coord, guards, kept, removed>>

AddWorktree(t) ==
    /\ lpc[t] = "worktree" /\ wt' = [wt EXCEPT ![t] = "clean"] /\ Goto(t, "prepare")
    /\ UNCHANGED <<naming, intent, dir, state, index, lock, coord, guards, kept, removed>>

\* Materialized configuration may leave the checkout dirty.  Configuration that changed
\* meanwhile ends a headless launch, whose checkout is preserved on purpose.
Materialize(t) ==
    /\ lpc[t] = "prepare"
    /\ \E w \in {"clean", "dirty"} : wt' = [wt EXCEPT ![t] = w]
    /\ \/ Goto(t, "save") /\ UNCHANGED <<lock, coord, intent, kept>>
       \/ t \in Headless /\ intent' = None /\ kept' = kept \cup {t} /\ Leave(t, "dead")
    /\ UNCHANGED <<naming, dir, state, index, guards, removed>>

\* task::save; the specification follows in a headless launch.
SaveTask(t) ==
    /\ lpc[t] = "save"
    /\ dir' = [dir EXCEPT ![t] = IF t \in Headless THEN "task" ELSE "full"]
    /\ Goto(t, IF t \in Headless THEN "spec" ELSE "register")
    /\ UNCHANGED <<naming, intent, wt, state, index, lock, coord, guards, kept, removed>>

SaveSpec(t) ==
    /\ lpc[t] = "spec" /\ dir' = [dir EXCEPT ![t] = "full"] /\ Goto(t, "drop")
    /\ UNCHANGED <<naming, intent, wt, state, index, lock, coord, guards, kept, removed>>

DropIntent(t) ==
    /\ lpc[t] = "drop" /\ intent' = None /\ Goto(t, "register")
    /\ UNCHANGED <<naming, wt, dir, state, index, lock, coord, guards, kept, removed>>

Register(t) ==
    /\ lpc[t] = "register" /\ index' = index \cup {t} /\ Leave(t, "done")
    /\ UNCHANGED <<naming, intent, wt, dir, state, guards, kept, removed>>

\* rollback_worktree: an interactive launch that fails takes back what it placed; Git
\* refuses to remove a dirty checkout, which is then the user's.
Rollback(t) ==
    /\ t \in Interactive /\ lpc[t] \in {"prepare", "save", "register"}
    /\ index' = index \ {t} /\ dir' = [dir EXCEPT ![t] = "none"]
    /\ wt' = [wt EXCEPT ![t] = IF @ = "clean" THEN "none" ELSE @]
    /\ kept' = IF wt[t] = "dirty" THEN kept \cup {t} ELSE kept
    /\ Leave(t, "dead")
    /\ UNCHANGED <<naming, intent, state, guards, removed>>

\* Any other failure of a launch, and a launch that is killed.
LaunchEnds(t) ==
    /\ lpc[t] \notin Gone \cup {"begin"} /\ Leave(t, "dead")
    /\ UNCHANGED <<naming, places, guards, kept, removed>>

(***************************************************************************)
(* Ownership of a headless task: flock of an inode.  The path may name     *)
(* another inode by the time the lock is granted.                          *)
(***************************************************************************)
At(p, pc) == ppc[p] = pc
Go(p, to) == ppc' = [ppc EXCEPT ![p] = to]

Release(p) ==
    flock' = [t \in Tasks |-> [i \in Inodes |-> IF flock[t][i] = p THEN None ELSE flock[t][i]]]

\* Opens owner.lock: a supervisor or a resume creates it, a removal does not.
OpenLock(p, t) ==
    /\ At(p, "idle") /\ dir[t] # "none" /\ lpc[t] = "done" /\ t \in Headless
    /\ p = Remover => dir[t] = "full" /\ state[t] = "terminal"
    /\ \/ ino[t] # 0 /\ UNCHANGED <<ino, made>>
       \/ /\ ino[t] = 0 /\ p # Remover /\ made[t] < MaxInode
          /\ made' = [made EXCEPT ![t] = @ + 1] /\ ino' = [ino EXCEPT ![t] = made'[t]]
    /\ fd' = [fd EXCEPT ![p] = [task |-> t, ino |-> ino'[t]]] /\ Go(p, "open")
    /\ UNCHANGED <<naming, places, launch, flock, kept, removed>>

TakeLock(p) ==
    /\ At(p, "open")
    /\ LET t == fd[p].task  i == fd[p].ino
       IN  IF flock[t][i] = None
           THEN flock' = [flock EXCEPT ![t][i] = p] /\ Go(p, "locked") /\ fd' = fd
           ELSE flock' = flock /\ Go(p, "idle") /\ fd' = [fd EXCEPT ![p] = None]
    /\ UNCHANGED <<naming, places, launch, ino, made, kept, removed>>

Task(p) == fd[p].task

\* The record and the specification are read under the lock.  A checkout that is missing
\* is found by the attempt, which records that in the task directory.
Own(p) ==
    /\ p \in Owners /\ At(p, "locked")
    /\ IF dir[Task(p)] = "full"
       THEN /\ Go(p, "work") /\ state' = [state EXCEPT ![Task(p)] = "live"]
            /\ UNCHANGED <<flock, fd>>
       ELSE Go(p, "idle") /\ Release(p) /\ fd' = [fd EXCEPT ![p] = None] /\ state' = state
    /\ UNCHANGED <<naming, intent, wt, dir, index, launch, ino, made, kept, removed>>

\* A worker may leave changes in its checkout.
EndWork(p) ==
    /\ p \in Owners /\ At(p, "work")
    /\ state' = [state EXCEPT ![Task(p)] = "terminal"]
    /\ \/ wt' = wt
       \/ wt[Task(p)] = "clean" /\ wt' = [wt EXCEPT ![Task(p)] = "dirty"]
    /\ Go(p, "idle") /\ Release(p) /\ fd' = [fd EXCEPT ![p] = None]
    /\ UNCHANGED <<naming, intent, dir, index, launch, ino, made, kept, removed>>

OwnerLost(p) ==
    /\ p \in Owners /\ ~At(p, "idle")
    /\ Go(p, "idle") /\ Release(p) /\ fd' = [fd EXCEPT ![p] = None]
    /\ UNCHANGED <<naming, places, launch, ino, made, kept, removed>>

(***************************************************************************)
(* Removal (remove_cmd, removal_guard, RemovalGuard::remove_record).       *)
(***************************************************************************)
RStop ==
    /\ Go(Remover, "idle") /\ Release(Remover) /\ fd' = [fd EXCEPT ![Remover] = None]

GuardRemoval ==
    /\ At(Remover, "locked")
    /\ LET t == Task(Remover)
       IN  \/ /\ dir[t] = "full" /\ state[t] = "terminal"
              /\ Go(Remover, "worktree") /\ removed' = removed \cup {t} /\ UNCHANGED <<flock, fd>>
           \/ RStop /\ removed' = removed
    /\ UNCHANGED <<naming, places, launch, ino, made, kept>>

\* Git keeps a checkout with changes, and then nothing is removed.
RemoveWorktree ==
    /\ At(Remover, "worktree")
    /\ LET t == Task(Remover)
       IN  \/ wt[t] = "dirty" /\ RStop /\ removed' = removed \ {t} /\ wt' = wt
           \/ /\ wt[t] # "dirty" /\ wt' = [wt EXCEPT ![t] = "none"] /\ Go(Remover, "inputs")
              /\ UNCHANGED <<flock, fd, removed>>
    /\ UNCHANGED <<naming, intent, dir, state, index, launch, ino, made, kept>>

\* Mutated form of RemoveInputs: a plain remove_dir_all, which may meet owner.lock first.
RemoveAnyOrder ==
    /\ At(Remover, "inputs")
    /\ LET t == Task(Remover)
       IN  \/ ino' = [ino EXCEPT ![t] = 0] /\ UNCHANGED <<dir, ppc>>
           \/ /\ ino' = ino
              /\ IF dir[t] = "full" THEN dir' = [dir EXCEPT ![t] = "part"] /\ ppc' = ppc
                 ELSE dir' = [dir EXCEPT ![t] = "empty"] /\ Go(Remover, "unlink")
    /\ UNCHANGED <<naming, intent, wt, state, index, launch, made, flock, fd, kept, removed>>

\* remove_execution_inputs, entry by entry; owner.lock stays.
RemoveInputs ==
    /\ At(Remover, "inputs")
    /\ LET t == Task(Remover)
       IN  IF dir[t] = "full" THEN dir' = [dir EXCEPT ![t] = "part"] /\ ppc' = ppc
                              ELSE dir' = [dir EXCEPT ![t] = "empty"] /\ Go(Remover, "unlink")
    /\ UNCHANGED <<naming, intent, wt, state, index, launch, ino, made, flock, fd, kept, removed>>

Unlink ==
    /\ At(Remover, "unlink") /\ Go(Remover, "rmdir")
    /\ ino' = [ino EXCEPT ![Task(Remover)] = 0]
    /\ UNCHANGED <<naming, places, launch, made, flock, fd, kept, removed>>

\* The directory, the branch and the index entry; who created owner.lock anew meanwhile
\* keeps the empty directory, and the removal is reported as partial.
RemoveDirectory ==
    /\ At(Remover, "rmdir") /\ RStop
    /\ LET t == Task(Remover)
       IN  IF ino[t] = 0 THEN dir' = [dir EXCEPT ![t] = "none"] /\ index' = index \ {t}
                         ELSE UNCHANGED <<dir, index>>
    /\ UNCHANGED <<naming, intent, wt, state, launch, ino, made, kept, removed>>

RemoverLost ==
    /\ ~At(Remover, "idle") /\ RStop
    /\ UNCHANGED <<naming, places, launch, ino, made, kept, removed>>

Launch(t) ==
    \/ Acquire(t) \/ Sweep(t) \/ TakeName(t) \/ NameTaken(t) \/ WriteName(t) \/ TakeId(t)
    \/ WriteId(t) \/ WriteIntent(t) \/ AddWorktree(t) \/ Materialize(t) \/ SaveTask(t)
    \/ SaveSpec(t) \/ DropIntent(t) \/ Register(t) \/ Rollback(t) \/ LaunchEnds(t)

Next ==
    \/ \E t \in Tasks : Launch(t)
    \/ \E p \in Processes : TakeLock(p) \/ \E t \in Tasks : OpenLock(p, t)
    \/ \E p \in Owners : Own(p) \/ EndWork(p) \/ OwnerLost(p)
    \/ GuardRemoval \/ RemoveWorktree \/ RemoveInputs \/ Unlink \/ RemoveDirectory
    \/ RemoverLost

Spec == Init /\ [][Next]_vars

(***************************************************************************)
(* Properties.                                                             *)
(***************************************************************************)

\* Types; a launch that writes holds the lock of its kind.
TypeOK ==
    /\ byName \in [Names -> [task : Tasks, ok : BOOLEAN] \cup {None}]
    /\ byId \in [Tasks -> [name : Names, ok : BOOLEAN] \cup {None}]
    /\ cand \in [Tasks -> Names] /\ fixed \in [Tasks -> BOOLEAN]
    /\ lpc \in [Tasks -> {"begin", "sweep", "name", "nameWrite", "id", "idWrite", "intent",
                          "worktree", "prepare", "save", "spec", "drop", "register"} \cup Gone]
    /\ lock \in Headless \cup {None} /\ coord \in Interactive \cup {None}
    /\ intent \in Headless \cup {None}
    /\ wt \in [Tasks -> {"none", "clean", "dirty"}]
    /\ dir \in [Tasks -> {"none", "task", "full", "part", "empty"}]
    /\ state \in [Tasks -> {"live", "terminal"}] /\ index \subseteq Tasks
    /\ ino \in [Tasks -> 0..MaxInode] /\ made \in [Tasks -> 0..MaxInode]
    /\ flock \in [Tasks -> [Inodes -> Processes \cup {None}]]
    /\ fd \in [Processes -> [task : Tasks, ino : Inodes] \cup {None}]
    /\ ppc \in [Processes -> {"idle", "open", "locked", "work", "worktree", "inputs",
                              "unlink", "rmdir"}]
    /\ kept \subseteq Tasks /\ removed \subseteq Tasks
    /\ \A t \in Tasks : lpc[t] \notin Gone \cup {"begin"} => t \in {lock, coord}

\* A handle that resolved to a task resolves to that task for ever: names are never
\* reclaimed, also not those whose launch was killed (task_handles::create).
HandleStable ==
    [][\A n \in Names : Resolve(n) # None => Resolve(n)' = Resolve(n)]_vars

\* A task that was launched and not removed is found under its handle, with its record
\* and its checkout, whatever other launches, sweeps and removals do.
LaunchedIsFound ==
    \A t \in Tasks : lpc[t] = "done" /\ t \notin removed =>
        dir[t] = "full" /\ wt[t] # "none" /\ t \in index /\ \E n \in Names : Resolve(n) = t

\* A record names a checkout that is there, also when its launch was killed between the
\* record and the end of its intent; only a removal takes both.
RecordHasCheckout ==
    \A t \in Tasks : dir[t] # "none" /\ t \notin removed => wt[t] # "none"

\* A clean checkout that a dead headless launch left without a record is either what the
\* intent names, so that the next launch removes it, or was kept on purpose.
OrphanCovered ==
    \A t \in Headless : lpc[t] = "dead" /\ dir[t] = "none" /\ wt[t] = "clean" =>
        intent = t \/ t \in kept

\* No supervisor or resume works on a task whose files are being removed, and no two of
\* them on one task: owner.lock is unlinked after everything it protects.
OwnersApart ==
    \A p, q \in Processes :
        LET Busy(x) == ppc[x] \in {"work", "worktree", "inputs"}
        IN  p # q /\ Busy(p) /\ Busy(q) => Task(p) # Task(q)
==============================================================================
