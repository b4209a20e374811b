-------------------------- MODULE TaskPlacementProofs --------------------------
(***************************************************************************)
(* For any number of launches, owners and names: handles stay, launched    *)
(* tasks are found, records keep their checkouts, dead launches leave no   *)
(* checkout that nothing covers, and a removal never meets a worker.       *)
(***************************************************************************)
EXTENDS TaskPlacement, TLAPS

Steps == {"begin", "sweep", "name", "nameWrite", "id", "idWrite", "intent", "worktree",
          "prepare", "save", "spec", "drop", "register"} \cup Gone

NameOf(t, ok) == [task |-> t, ok |-> ok]
IdOf(t, ok) == [name |-> cand[t], ok |-> ok]

\* What a launch has written of its handle.
NamedBy(t) ==
    /\ lpc[t] = "nameWrite" => byName[cand[t]] = NameOf(t, FALSE)
    /\ lpc[t] = "id" => byName[cand[t]] = NameOf(t, TRUE)
    /\ lpc[t] = "idWrite" => byName[cand[t]] = NameOf(t, TRUE) /\ byId[t] = IdOf(t, FALSE)
    /\ lpc[t] \in {"intent", "worktree", "prepare", "save", "spec", "drop", "register", "done"}
         => byName[cand[t]] = NameOf(t, TRUE) /\ byId[t] = IdOf(t, TRUE)
Named == \A t \in Tasks : NamedBy(t)

\* The locks, the intent, and what a launch has placed.
Locked ==
    \A t \in Tasks :
        /\ lpc[t] \notin Gone \cup {"begin"} =>
              (t \in Headless => lock = t) /\ (t \in Interactive => coord = t)
        /\ lpc[t] \in {"sweep", "intent", "spec", "drop"} => t \in Headless

Intended ==
    /\ \A t \in Headless :
          /\ lpc[t] \in {"name", "nameWrite", "id", "idWrite", "intent", "register"}
                => intent = None
          /\ lpc[t] \in {"worktree", "prepare", "save", "spec", "drop"} => intent = t
    /\ intent # None => lpc[intent] \in {"worktree", "prepare", "save", "spec", "drop", "dead"}

Placed ==
    \A t \in Tasks :
        /\ lpc[t] \in {"begin", "sweep", "name", "nameWrite", "id", "idWrite", "intent", "worktree"}
             => wt[t] = "none" /\ dir[t] = "none"
        /\ lpc[t] \in {"prepare", "save"} => wt[t] # "none" /\ dir[t] = "none"
        /\ lpc[t] = "spec" => wt[t] # "none" /\ dir[t] = "task"
        /\ lpc[t] \in {"drop", "register"} => wt[t] # "none" /\ dir[t] = "full"
        /\ lpc[t] = "done" /\ dir[t] = "full" => t \in index
        /\ lpc[t] = "done" /\ t \notin removed => wt[t] # "none" /\ dir[t] = "full"

\* Who has the task: the flock of the inode that owner.lock names.
Holds == {"locked", "work", "worktree", "inputs", "unlink", "rmdir"}
Removes == {"worktree", "inputs", "unlink", "rmdir"}

OwnedBy(p) ==
    /\ ppc[p] # "idle" =>
          fd[p] \in [task : Tasks, ino : Inodes] /\ lpc[fd[p].task] = "done"
    /\ ppc[p] \in Holds => flock[fd[p].task][fd[p].ino] = p
    /\ ppc[p] # "idle" /\ dir[fd[p].task] = "full" => fd[p].ino = ino[fd[p].task]
    /\ ppc[p] \in {"work", "worktree", "inputs", "unlink"} => fd[p].ino = ino[fd[p].task]
    /\ ppc[p] \in Removes => p = Remover /\ fd[p].task \in removed
    /\ ppc[p] = "work" => p # Remover
    /\ ppc[p] = "worktree" => dir[fd[p].task] = "full"
    /\ ppc[p] \in {"unlink", "rmdir"} => dir[fd[p].task] # "full"
Owned == \A p \in Processes : OwnedBy(p)

IInv == TypeOK /\ Named /\ Locked /\ Intended /\ Placed /\ Owned
            /\ RecordHasCheckout /\ OrphanCovered

\* The initial states satisfy it.
LEMMA Initially == Init => IInv
<1> SUFFICES ASSUME Init PROVE IInv
  OBVIOUS
<1>1. TypeOK
  BY InodeBound, ProcessesDistinct, NamesBound DEF Init, TypeOK, Inodes, Processes, Gone
<1>2. Named /\ Locked /\ Intended /\ Placed /\ Owned /\ RecordHasCheckout /\ OrphanCovered
  BY DEF Init, Tasks, Named, NamedBy, Locked, Intended, Placed, Owned, OwnedBy,
     RecordHasCheckout, OrphanCovered, Gone, Holds, Removes
<1> QED
  BY <1>1, <1>2 DEF IInv

\* A handle file is never None.
LEMMA NamesAreRecords == \A u \in Tasks, ok \in BOOLEAN : NameOf(u, ok) # None
<1> TAKE u \in Tasks, ok \in BOOLEAN
<1>1. NameOf(u, ok) \in [task : Tasks, ok : BOOLEAN]
  BY DEF NameOf
<1> QED
  BY <1>1, NoneIsNoRecord

Checkouts == {"none", "clean", "dirty"}
Directories == {"none", "task", "full", "part", "empty"}

\* One checkout, or one task directory, changes at most.
LEMMA CheckoutTyped ==
    ASSUME wt \in [Tasks -> Checkouts],
           wt' = wt \/ \E x \in Tasks, w \in Checkouts : wt' = [wt EXCEPT ![x] = w]
    PROVE  wt' \in [Tasks -> Checkouts]
OBVIOUS

LEMMA DirectoryTyped ==
    ASSUME dir \in [Tasks -> Directories],
           dir' = dir \/ \E x \in Tasks, d \in Directories : dir' = [dir EXCEPT ![x] = d]
    PROVE  dir' \in [Tasks -> Directories]
OBVIOUS

\* Locks: a launch that writes holds the lock of its kind.
LEMMA LaunchLocked ==
    ASSUME IInv, NEW t \in Tasks, Launch(t)
    PROVE  Locked'
<1> USE KindsDisjoint, ProcessesDistinct DEF IInv, TypeOK, Tasks, Locked, Gone, Goto, Leave,
   naming, places, launch, guards
<1>1. CASE Acquire(t)
  BY <1>1 DEF Acquire
<1>2. CASE Sweep(t)
  BY <1>2 DEF Sweep
<1>3. CASE TakeName(t)
  BY <1>3 DEF TakeName
<1>4. CASE NameTaken(t)
  BY <1>4 DEF NameTaken
<1>5. CASE WriteName(t)
  BY <1>5 DEF WriteName
<1>6. CASE TakeId(t)
  BY <1>6 DEF TakeId
<1>7. CASE WriteId(t)
  BY <1>7 DEF WriteId
<1>8. CASE WriteIntent(t)
  BY <1>8 DEF WriteIntent
<1>9. CASE AddWorktree(t)
  BY <1>9 DEF AddWorktree
<1>10. CASE Materialize(t)
  BY <1>10 DEF Materialize
<1>11. CASE SaveTask(t)
  BY <1>11 DEF SaveTask
<1>12. CASE SaveSpec(t)
  BY <1>12 DEF SaveSpec
<1>13. CASE DropIntent(t)
  BY <1>13 DEF DropIntent
<1>14. CASE Register(t)
  BY <1>14 DEF Register
<1>15. CASE Rollback(t)
  BY <1>15 DEF Rollback
<1>16. CASE LaunchEnds(t)
  BY <1>16 DEF LaunchEnds
<1> QED
  BY <1>1, <1>2, <1>3, <1>4, <1>5, <1>6, <1>7, <1>8, <1>9, <1>10, <1>11, <1>12, <1>13,
     <1>14, <1>15, <1>16 DEF Launch

\* Types.
LEMMA LaunchTypeOK ==
    ASSUME IInv, NEW t \in Tasks, Launch(t)
    PROVE  TypeOK'
<1> USE NamesBound, ProcessesDistinct, KindsDisjoint DEF IInv, TypeOK, Tasks, Locked, Gone,
   Goto, Leave, naming, places, launch, guards
<1>0. Locked'
  BY LaunchLocked
<1>1. CASE Acquire(t)
  <2>1. CASE t \in Headless
    BY <1>0, <1>1, <2>1 DEF Acquire
  <2>2. CASE t \notin Headless
    BY <1>0, <1>1, <2>2 DEF Acquire
  <2> QED
    BY <2>1, <2>2
<1>2. CASE Sweep(t)
  <2>1. lpc' = [lpc EXCEPT ![t] = "name"] /\ intent' = None
        /\ UNCHANGED <<naming, dir, state, index, lock, coord, guards, removed>>
    BY <1>2 DEF Sweep
  <2>2. intent = None \/ intent \in Tasks
    OBVIOUS
  <2>3. wt' \in [Tasks -> Checkouts]
    <3>1. wt' = wt \/ \E x \in Tasks, w \in Checkouts : wt' = [wt EXCEPT ![x] = w]
      BY <1>2, <2>2 DEF Sweep, Checkouts
    <3>2. wt \in [Tasks -> Checkouts]
      BY DEF Checkouts
    <3> HIDE DEF IInv, TypeOK
    <3> QED
      BY <3>1, <3>2, CheckoutTyped, DirectoryTyped
  <2>4. kept' \subseteq Tasks
    BY <1>2, <2>2 DEF Sweep
  <2> QED
    BY <1>0, <2>1, <2>3, <2>4 DEF Checkouts
<1>3. CASE TakeName(t)
  BY <1>0, <1>3 DEF TakeName
<1>4. CASE NameTaken(t)
  <2>1. CASE fixed[t] \/ cand[t] + 1 \notin Names
    BY <1>0, <1>4, <2>1 DEF NameTaken
  <2>2. CASE ~(fixed[t] \/ cand[t] + 1 \notin Names)
    BY <1>0, <1>4, <2>2 DEF NameTaken
  <2> QED
    BY <2>1, <2>2
<1>5. CASE WriteName(t)
  BY <1>0, <1>5 DEF WriteName
<1>6. CASE TakeId(t)
  BY <1>0, <1>6 DEF TakeId
<1>7. CASE WriteId(t)
  BY <1>0, <1>7 DEF WriteId
<1>8. CASE WriteIntent(t)
  BY <1>0, <1>8 DEF WriteIntent
<1>9. CASE AddWorktree(t)
  BY <1>0, <1>9 DEF AddWorktree
<1>10. CASE Materialize(t)
  BY <1>0, <1>10 DEF Materialize
<1>11. CASE SaveTask(t)
  BY <1>0, <1>11 DEF SaveTask
<1>12. CASE SaveSpec(t)
  BY <1>0, <1>12 DEF SaveSpec
<1>13. CASE DropIntent(t)
  BY <1>0, <1>13 DEF DropIntent
<1>14. CASE Register(t)
  BY <1>0, <1>14 DEF Register
<1>15. CASE Rollback(t)
  BY <1>0, <1>15 DEF Rollback
<1>16. CASE LaunchEnds(t)
  BY <1>0, <1>16 DEF LaunchEnds
<1> QED
  BY <1>1, <1>2, <1>3, <1>4, <1>5, <1>6, <1>7, <1>8, <1>9, <1>10, <1>11, <1>12, <1>13,
     <1>14, <1>15, <1>16 DEF Launch

\* Handles: O_EXCL keeps other launches off a name that is taken.
LEMMA LaunchNamed ==
    ASSUME IInv, NEW t \in Tasks, Launch(t)
    PROVE  Named'
<1> USE ProcessesDistinct, NoneIsNoRecord DEF IInv, TypeOK, Tasks, Named, NamedBy, NameOf,
   IdOf, Gone, Goto, Leave, naming, places, launch, guards
<1> SUFFICES ASSUME NEW u \in Tasks PROVE NamedBy(u)'
  OBVIOUS
<1>1. CASE Acquire(t)
  <2>1. byName' = byName /\ byId' = byId /\ cand' = cand /\ lpc[t] = "begin"
    BY <1>1 DEF Acquire
  <2>2. lpc' = [lpc EXCEPT ![t] = "sweep"] \/ lpc' = [lpc EXCEPT ![t] = "name"]
    BY <1>1, Zenon DEF Acquire
  <2>3. \A x \in Tasks \ {t} : lpc[x]' = lpc[x]
    BY <2>2
  <2>4. lpc[t]' \in {"sweep", "name"}
    BY <2>2
  <2> QED
    BY <2>1, <2>3, <2>4
<1>2. CASE Sweep(t)
  BY <1>2 DEF Sweep
<1>3. CASE TakeName(t)
  <2>1. CASE u = t
    BY <1>3, <2>1 DEF TakeName
  <2>2. CASE u # t
    <3>1. lpc[u]' = lpc[u] /\ cand[u]' = cand[u] /\ byId[u]' = byId[u]
      BY <1>3, <2>2 DEF TakeName
    <3>2. CASE cand[u] = cand[t]
      <4>1. byName[cand[u]] = None
        BY <1>3, <3>2 DEF TakeName
      <4>2. \A ok \in BOOLEAN : byName[cand[u]] # NameOf(u, ok)
        BY <4>1, NamesAreRecords
      <4> QED
        BY <3>1, <4>2
    <3>3. CASE cand[u] # cand[t]
      <4>1. byName[cand[u]]' = byName[cand[u]]
        BY <1>3, <3>1, <3>3 DEF TakeName
      <4> QED
        BY <3>1, <4>1
    <3> QED
      BY <3>2, <3>3
  <2> QED
    BY <2>1, <2>2
<1>4. CASE NameTaken(t)
  <2>1. byName' = byName /\ byId' = byId /\ lpc[t] = "name"
    BY <1>4 DEF NameTaken
  <2>2. \/ lpc' = [lpc EXCEPT ![t] = "dead"] /\ cand' = cand
        \/ lpc' = lpc /\ cand' = [cand EXCEPT ![t] = @ + 1]
    BY <1>4, Zenon DEF NameTaken, launch
  <2>3. CASE u = t
    <3>1. lpc[t]' \in {"name", "dead"}
      BY <2>1, <2>2
    <3> QED
      BY <2>3, <3>1
  <2>4. CASE u # t
    <3>1. lpc[u]' = lpc[u]
      BY <2>2, <2>4
    <3>2. cand[u]' = cand[u]
      BY <2>2, <2>4
    <3> QED
      BY <2>1, <3>1, <3>2
  <2> QED
    BY <2>3, <2>4
<1>5. CASE WriteName(t)
  <2>1. CASE u = t
    BY <1>5, <2>1 DEF WriteName
  <2>2. CASE u # t
    <3>1. lpc[u]' = lpc[u] /\ cand[u]' = cand[u] /\ byId[u]' = byId[u]
      BY <1>5, <2>2 DEF WriteName
    <3>2. CASE cand[u] = cand[t]
      <4>1. byName[cand[u]] = NameOf(t, FALSE)
        BY <1>5, <3>2 DEF WriteName
      <4>2. \A ok \in BOOLEAN : byName[cand[u]] # NameOf(u, ok)
        BY <2>2, <4>1
      <4> QED
        BY <3>1, <4>2
    <3>3. CASE cand[u] # cand[t]
      <4>1. byName[cand[u]]' = byName[cand[u]]
        BY <1>5, <3>1, <3>3 DEF WriteName
      <4> QED
        BY <3>1, <4>1
    <3> QED
      BY <3>2, <3>3
  <2> QED
    BY <2>1, <2>2
<1>6. CASE TakeId(t)
  BY <1>6 DEF TakeId
<1>7. CASE WriteId(t)
  BY <1>7 DEF WriteId
<1>8. CASE WriteIntent(t)
  BY <1>8 DEF WriteIntent
<1>9. CASE AddWorktree(t)
  BY <1>9 DEF AddWorktree
<1>10. CASE Materialize(t)
  <2>1. byName' = byName /\ byId' = byId /\ cand' = cand /\ lpc[t] = "prepare"
    BY <1>10 DEF Materialize
  <2>2. lpc' = [lpc EXCEPT ![t] = "save"] \/ lpc' = [lpc EXCEPT ![t] = "dead"]
    BY <1>10, Zenon DEF Materialize
  <2>3. CASE u = t
    <3>1. lpc[t]' \in {"save", "dead"}
      BY <2>1, <2>2
    <3> QED
      BY <2>1, <2>3, <3>1
  <2>4. CASE u # t
    <3>1. lpc[u]' = lpc[u]
      BY <2>2, <2>4
    <3> QED
      BY <2>1, <3>1
  <2> QED
    BY <2>3, <2>4
<1>11. CASE SaveTask(t)
  BY <1>11 DEF SaveTask
<1>12. CASE SaveSpec(t)
  BY <1>12 DEF SaveSpec
<1>13. CASE DropIntent(t)
  BY <1>13 DEF DropIntent
<1>14. CASE Register(t)
  BY <1>14 DEF Register
<1>15. CASE Rollback(t)
  BY <1>15 DEF Rollback
<1>16. CASE LaunchEnds(t)
  BY <1>16 DEF LaunchEnds
<1> QED
  BY <1>1, <1>2, <1>3, <1>4, <1>5, <1>6, <1>7, <1>8, <1>9, <1>10, <1>11, <1>12, <1>13,
     <1>14, <1>15, <1>16 DEF Launch

\* The intent is written, and consumed, under launch.lock only.
LEMMA LaunchIntended ==
    ASSUME IInv, NEW t \in Tasks, Launch(t)
    PROVE  Intended'
<1> USE ProcessesDistinct DEF IInv, TypeOK, Tasks, Intended, Locked, Gone, Goto, Leave,
   naming, places, launch, guards
<1>1. CASE Acquire(t)
  BY <1>1 DEF Acquire
<1>2. CASE Sweep(t)
  BY <1>2 DEF Sweep
<1>3. CASE TakeName(t)
  BY <1>3 DEF TakeName
<1>4. CASE NameTaken(t)
  BY <1>4 DEF NameTaken
<1>5. CASE WriteName(t)
  BY <1>5 DEF WriteName
<1>6. CASE TakeId(t)
  BY <1>6 DEF TakeId
<1>7. CASE WriteId(t)
  BY <1>7 DEF WriteId
<1>8. CASE WriteIntent(t)
  BY <1>8 DEF WriteIntent
<1>9. CASE AddWorktree(t)
  BY <1>9 DEF AddWorktree
<1>10. CASE Materialize(t)
  BY <1>10 DEF Materialize
<1>11. CASE SaveTask(t)
  BY <1>11 DEF SaveTask
<1>12. CASE SaveSpec(t)
  BY <1>12 DEF SaveSpec
<1>13. CASE DropIntent(t)
  BY <1>13 DEF DropIntent
<1>14. CASE Register(t)
  BY <1>14 DEF Register
<1>15. CASE Rollback(t)
  BY <1>15 DEF Rollback
<1>16. CASE LaunchEnds(t)
  BY <1>16 DEF LaunchEnds
<1> QED
  BY <1>1, <1>2, <1>3, <1>4, <1>5, <1>6, <1>7, <1>8, <1>9, <1>10, <1>11, <1>12, <1>13,
     <1>14, <1>15, <1>16 DEF Launch

\* What a launch has placed, in its order.
LEMMA LaunchPlaced ==
    ASSUME IInv, NEW t \in Tasks, Launch(t)
    PROVE  Placed'
<1> USE ProcessesDistinct DEF IInv, TypeOK, Tasks, Placed, Intended, Gone, Goto, Leave,
   naming, places, launch, guards
<1>1. CASE Acquire(t)
  BY <1>1 DEF Acquire
<1>2. CASE Sweep(t)
  BY <1>2 DEF Sweep
<1>3. CASE TakeName(t)
  BY <1>3 DEF TakeName
<1>4. CASE NameTaken(t)
  BY <1>4 DEF NameTaken
<1>5. CASE WriteName(t)
  BY <1>5 DEF WriteName
<1>6. CASE TakeId(t)
  BY <1>6 DEF TakeId
<1>7. CASE WriteId(t)
  BY <1>7 DEF WriteId
<1>8. CASE WriteIntent(t)
  BY <1>8 DEF WriteIntent
<1>9. CASE AddWorktree(t)
  BY <1>9 DEF AddWorktree
<1>10. CASE Materialize(t)
  BY <1>10 DEF Materialize
<1>11. CASE SaveTask(t)
  BY <1>11 DEF SaveTask
<1>12. CASE SaveSpec(t)
  BY <1>12 DEF SaveSpec
<1>13. CASE DropIntent(t)
  BY <1>13 DEF DropIntent
<1>14. CASE Register(t)
  BY <1>14 DEF Register
<1>15. CASE Rollback(t)
  BY <1>15 DEF Rollback
<1>16. CASE LaunchEnds(t)
  BY <1>16, SMTT(30) DEF LaunchEnds
<1> QED
  BY <1>1, <1>2, <1>3, <1>4, <1>5, <1>6, <1>7, <1>8, <1>9, <1>10, <1>11, <1>12, <1>13,
     <1>14, <1>15, <1>16 DEF Launch

\* Owners have tasks whose launch is over; no launch touches them.
LEMMA LaunchOwned ==
    ASSUME IInv, NEW t \in Tasks, Launch(t)
    PROVE  Owned'
<1> USE ProcessesDistinct DEF IInv, TypeOK, Owned, OwnedBy, Placed, Holds, Removes, Inodes,
   Processes, Gone, Goto, Leave, naming, places, launch, guards
<1>1. CASE Acquire(t)
  BY <1>1 DEF Acquire
<1>2. CASE Sweep(t)
  BY <1>2 DEF Sweep
<1>3. CASE TakeName(t)
  BY <1>3 DEF TakeName
<1>4. CASE NameTaken(t)
  BY <1>4 DEF NameTaken
<1>5. CASE WriteName(t)
  BY <1>5 DEF WriteName
<1>6. CASE TakeId(t)
  BY <1>6 DEF TakeId
<1>7. CASE WriteId(t)
  BY <1>7 DEF WriteId
<1>8. CASE WriteIntent(t)
  BY <1>8 DEF WriteIntent
<1>9. CASE AddWorktree(t)
  BY <1>9 DEF AddWorktree
<1>10. CASE Materialize(t)
  BY <1>10 DEF Materialize
<1>11. CASE SaveTask(t)
  BY <1>11 DEF SaveTask
<1>12. CASE SaveSpec(t)
  BY <1>12 DEF SaveSpec
<1>13. CASE DropIntent(t)
  BY <1>13 DEF DropIntent
<1>14. CASE Register(t)
  BY <1>14 DEF Register
<1>15. CASE Rollback(t)
  BY <1>15 DEF Rollback
<1>16. CASE LaunchEnds(t)
  BY <1>16 DEF LaunchEnds
<1> QED
  BY <1>1, <1>2, <1>3, <1>4, <1>5, <1>6, <1>7, <1>8, <1>9, <1>10, <1>11, <1>12, <1>13,
     <1>14, <1>15, <1>16 DEF Launch

\* The record comes after the checkout.
LEMMA LaunchRecordHasCheckout ==
    ASSUME IInv, NEW t \in Tasks, Launch(t)
    PROVE  RecordHasCheckout'
<1> USE ProcessesDistinct DEF IInv, TypeOK, Tasks, RecordHasCheckout, Placed, Gone, Goto,
   Leave, naming, places, launch, guards
<1>1. CASE Acquire(t)
  BY <1>1 DEF Acquire
<1>2. CASE Sweep(t)
  BY <1>2 DEF Sweep
<1>3. CASE TakeName(t)
  BY <1>3 DEF TakeName
<1>4. CASE NameTaken(t)
  BY <1>4 DEF NameTaken
<1>5. CASE WriteName(t)
  BY <1>5 DEF WriteName
<1>6. CASE TakeId(t)
  BY <1>6 DEF TakeId
<1>7. CASE WriteId(t)
  BY <1>7 DEF WriteId
<1>8. CASE WriteIntent(t)
  BY <1>8 DEF WriteIntent
<1>9. CASE AddWorktree(t)
  BY <1>9 DEF AddWorktree
<1>10. CASE Materialize(t)
  BY <1>10 DEF Materialize
<1>11. CASE SaveTask(t)
  BY <1>11 DEF SaveTask
<1>12. CASE SaveSpec(t)
  BY <1>12 DEF SaveSpec
<1>13. CASE DropIntent(t)
  BY <1>13 DEF DropIntent
<1>14. CASE Register(t)
  BY <1>14 DEF Register
<1>15. CASE Rollback(t)
  BY <1>15 DEF Rollback
<1>16. CASE LaunchEnds(t)
  BY <1>16 DEF LaunchEnds
<1> QED
  BY <1>1, <1>2, <1>3, <1>4, <1>5, <1>6, <1>7, <1>8, <1>9, <1>10, <1>11, <1>12, <1>13,
     <1>14, <1>15, <1>16 DEF Launch

\* The intent comes before the checkout and goes after the record.
LEMMA LaunchOrphanCovered ==
    ASSUME IInv, NEW t \in Tasks, Launch(t)
    PROVE  OrphanCovered'
<1> USE ProcessesDistinct, KindsDisjoint DEF IInv, TypeOK, Tasks, OrphanCovered, Placed,
   Intended, Locked, Gone, Goto, Leave, naming, places, launch, guards
<1>1. CASE Acquire(t)
  BY <1>1 DEF Acquire
<1>2. CASE Sweep(t)
  BY <1>2 DEF Sweep
<1>3. CASE TakeName(t)
  BY <1>3 DEF TakeName
<1>4. CASE NameTaken(t)
  BY <1>4 DEF NameTaken
<1>5. CASE WriteName(t)
  BY <1>5 DEF WriteName
<1>6. CASE TakeId(t)
  BY <1>6 DEF TakeId
<1>7. CASE WriteId(t)
  BY <1>7 DEF WriteId
<1>8. CASE WriteIntent(t)
  BY <1>8 DEF WriteIntent
<1>9. CASE AddWorktree(t)
  BY <1>9 DEF AddWorktree
<1>10. CASE Materialize(t)
  BY <1>10 DEF Materialize
<1>11. CASE SaveTask(t)
  BY <1>11 DEF SaveTask
<1>12. CASE SaveSpec(t)
  BY <1>12 DEF SaveSpec
<1>13. CASE DropIntent(t)
  BY <1>13 DEF DropIntent
<1>14. CASE Register(t)
  BY <1>14 DEF Register
<1>15. CASE Rollback(t)
  BY <1>15 DEF Rollback
<1>16. CASE LaunchEnds(t)
  BY <1>16 DEF LaunchEnds
<1> QED
  BY <1>1, <1>2, <1>3, <1>4, <1>5, <1>6, <1>7, <1>8, <1>9, <1>10, <1>11, <1>12, <1>13,
     <1>14, <1>15, <1>16 DEF Launch

-----------------------------------------------------------------------------
(* The steps of supervisors, resumes and the removal. *)
Work ==
    \/ \E p \in Processes : TakeLock(p) \/ \E t \in Tasks : OpenLock(p, t)
    \/ \E p \in Owners : Own(p) \/ EndWork(p) \/ OwnerLost(p)
    \/ GuardRemoval \/ RemoveWorktree \/ RemoveInputs \/ Unlink \/ RemoveDirectory
    \/ RemoverLost

\* They leave every launch as it is.
LEMMA WorkSparesLaunches ==
    ASSUME Work
    PROVE  UNCHANGED <<naming, launch, intent>>
BY DEF Work, TakeLock, OpenLock, Own, EndWork, OwnerLost, GuardRemoval, RemoveWorktree,
       RemoveInputs, Unlink, RemoveDirectory, RemoverLost, places

\* Hence what is said of launches stays.
LEMMA WorkNamed ==
    ASSUME IInv, Work
    PROVE  Named' /\ Locked' /\ Intended'
BY WorkSparesLaunches DEF IInv, naming, launch, Named, NamedBy, NameOf, IdOf, Locked, Intended

\* The types of what they write.
WorkTypes ==
    /\ wt \in [Tasks -> {"none", "clean", "dirty"}]
    /\ dir \in [Tasks -> {"none", "task", "full", "part", "empty"}]
    /\ state \in [Tasks -> {"live", "terminal"}] /\ index \subseteq Tasks
    /\ ino \in [Tasks -> 0..MaxInode] /\ made \in [Tasks -> 0..MaxInode]
    /\ flock \in [Tasks -> [Inodes -> Processes \cup {None}]]
    /\ fd \in [Processes -> [task : Tasks, ino : Inodes] \cup {None}]
    /\ ppc \in [Processes -> {"idle", "open", "locked", "work", "worktree", "inputs",
                              "unlink", "rmdir"}]
    /\ kept \subseteq Tasks /\ removed \subseteq Tasks

\* Whoever lets go of its lock and its descriptor.
LEMMA LetGo ==
    ASSUME WorkTypes, NEW p \in Processes, Release(p), Go(p, "idle"), fd' = [fd EXCEPT ![p] = None]
    PROVE  /\ flock' \in [Tasks -> [Inodes -> Processes \cup {None}]]
           /\ fd' \in [Processes -> [task : Tasks, ino : Inodes] \cup {None}]
           /\ ppc' \in [Processes -> {"idle", "open", "locked", "work", "worktree", "inputs",
                                      "unlink", "rmdir"}]
<1>1. flock' \in [Tasks -> [Inodes -> Processes \cup {None}]]
  BY DEF WorkTypes, Release
<1>2. fd' \in [Processes -> [task : Tasks, ino : Inodes] \cup {None}]
  BY DEF WorkTypes
<1>3. ppc' \in [Processes -> {"idle", "open", "locked", "work", "worktree", "inputs",
                              "unlink", "rmdir"}]
  BY DEF WorkTypes, Go
<1> QED
  BY <1>1, <1>2, <1>3

\* Types.
LEMMA WorkTypeOK ==
    ASSUME IInv, Work
    PROVE  TypeOK'
<1> SUFFICES WorkTypes'
  BY WorkSparesLaunches DEF IInv, TypeOK, WorkTypes, naming, launch
<1>0. WorkTypes /\ Owned
  BY DEF IInv, TypeOK, WorkTypes
<1> HIDE DEF IInv
<1> USE <1>0, InodeBound DEF WorkTypes, Owned, OwnedBy, At, Task, Inodes, Processes, Tasks,
   naming, places, launch
<1>1. ASSUME NEW p \in Processes, TakeLock(p) PROVE WorkTypes'
  <2> DEFINE t == fd[p].task
             i == fd[p].ino
  <2>1. t \in Tasks /\ i \in Inodes
    BY <1>1 DEF TakeLock
  <2>2. flock' \in [Tasks -> [Inodes -> Processes \cup {None}]]
    <3>1. flock' = flock \/ flock' = [flock EXCEPT ![t][i] = p]
      BY <1>1, Zenon DEF TakeLock
    <3>2. [flock EXCEPT ![t][i] = p] = [flock EXCEPT ![t] = [flock[t] EXCEPT ![i] = p]]
      BY <2>1
    <3>3. [flock[t] EXCEPT ![i] = p] \in [Inodes -> Processes \cup {None}]
      BY <2>1
    <3> DEFINE row == [flock[t] EXCEPT ![i] = p]
    <3>4. ASSUME NEW r \in [Inodes -> Processes \cup {None}]
          PROVE  [flock EXCEPT ![t] = r] \in [Tasks -> [Inodes -> Processes \cup {None}]]
      BY <2>1
    <3>5. [flock EXCEPT ![t] = row] \in [Tasks -> [Inodes -> Processes \cup {None}]]
      BY <3>3, <3>4
    <3>6. CASE flock' = flock
      BY <3>6
    <3>7. CASE flock' = [flock EXCEPT ![t][i] = p]
      BY <3>2, <3>5, <3>7, Zenon
    <3> QED
      BY <3>1, <3>6, <3>7
  <2>3. fd' \in [Processes -> [task : Tasks, ino : Inodes] \cup {None}]
    BY <1>1 DEF TakeLock
  <2>4. ppc' \in [Processes -> {"idle", "open", "locked", "work", "worktree", "inputs",
                                "unlink", "rmdir"}]
    <3>1. ppc' = [ppc EXCEPT ![p] = "locked"] \/ ppc' = [ppc EXCEPT ![p] = "idle"]
      BY <1>1, Zenon DEF TakeLock, Go
    <3> QED
      BY <3>1
  <2> QED
    BY <1>1, <2>2, <2>3, <2>4 DEF TakeLock
<1>2. ASSUME NEW p \in Processes, NEW t \in Tasks, OpenLock(p, t) PROVE WorkTypes'
  <2>1. ino' \in [Tasks -> 0..MaxInode] /\ made' \in [Tasks -> 0..MaxInode] /\ ino'[t] \in Inodes
    <3>1. CASE ino[t] # 0 /\ UNCHANGED <<ino, made>>
      BY <3>1
    <3>2. CASE /\ ino[t] = 0 /\ made[t] < MaxInode
               /\ made' = [made EXCEPT ![t] = @ + 1] /\ ino' = [ino EXCEPT ![t] = made'[t]]
      <4>1. made[t] + 1 \in 1..MaxInode
        BY <3>2
      <4>2. made' \in [Tasks -> 0..MaxInode] /\ made'[t] \in 1..MaxInode
        BY <3>2, <4>1
      <4> QED
        BY <3>2, <4>2
    <3> QED
      BY <1>2, <3>1, <3>2 DEF OpenLock
  <2>2. fd' \in [Processes -> [task : Tasks, ino : Inodes] \cup {None}]
    BY <1>2, <2>1 DEF OpenLock
  <2> QED
    BY <1>2, <2>1, <2>2 DEF OpenLock, Go
<1>3. ASSUME NEW p \in Owners, Own(p) PROVE WorkTypes'
  <2>1. CASE dir[Task(p)] = "full"
    <3>1. Go(p, "work") /\ state' = [state EXCEPT ![Task(p)] = "live"] /\ UNCHANGED <<flock, fd>>
      BY <1>3, <2>1 DEF Own
    <3> QED
      BY <1>3, <3>1 DEF Own, Go
  <2>2. CASE dir[Task(p)] # "full"
    <3>1. Go(p, "idle") /\ Release(p) /\ fd' = [fd EXCEPT ![p] = None] /\ state' = state
      BY <1>3, <2>2 DEF Own
    <3> QED
      BY <1>3, <3>1, LetGo DEF Own
  <2> QED
    BY <2>1, <2>2
<1>4. ASSUME NEW p \in Owners, EndWork(p) PROVE WorkTypes'
  <2>1. /\ flock' \in [Tasks -> [Inodes -> Processes \cup {None}]]
        /\ fd' \in [Processes -> [task : Tasks, ino : Inodes] \cup {None}]
        /\ ppc' \in [Processes -> {"idle", "open", "locked", "work", "worktree", "inputs",
                                   "unlink", "rmdir"}]
    BY <1>4, LetGo DEF EndWork
  <2>2. wt' \in [Tasks -> Checkouts]
    <3>1. wt' = wt \/ \E x \in Tasks, w \in Checkouts : wt' = [wt EXCEPT ![x] = w]
      BY <1>4 DEF EndWork, Checkouts
    <3>2. wt \in [Tasks -> Checkouts]
      BY DEF Checkouts
    <3> HIDE DEF WorkTypes
    <3> QED
      BY <3>1, <3>2, CheckoutTyped, DirectoryTyped
  <2>3. state' \in [Tasks -> {"live", "terminal"}]
    BY <1>4 DEF EndWork
  <2> QED
    BY <1>4, <2>1, <2>2, <2>3 DEF EndWork, Checkouts
<1>5. ASSUME NEW p \in Owners, OwnerLost(p) PROVE WorkTypes'
  BY <1>5, LetGo DEF OwnerLost
<1>6. CASE GuardRemoval
  <2>1. Remover \in Processes /\ Task(Remover) \in Tasks
    BY <1>6 DEF GuardRemoval
  <2>4. removed' \subseteq Tasks
    BY <1>6, <2>1 DEF GuardRemoval
  <2>2. CASE RStop
    BY <1>6, <2>1, <2>2, <2>4, LetGo DEF GuardRemoval, RStop
  <2>3. CASE Go(Remover, "worktree") /\ UNCHANGED <<flock, fd>>
    BY <1>6, <2>1, <2>3 DEF GuardRemoval, RStop, Go
  <2> QED
    BY <1>6, <2>2, <2>3 DEF GuardRemoval
<1>7. CASE RemoveWorktree
  <2>1. Remover \in Processes /\ Task(Remover) \in Tasks
    BY <1>7 DEF RemoveWorktree
  <2>6. removed' \subseteq Tasks
    BY <1>7 DEF RemoveWorktree
  <2>7. wt' \in [Tasks -> Checkouts]
    <3>1. wt' = wt \/ \E x \in Tasks, w \in Checkouts : wt' = [wt EXCEPT ![x] = w]
      BY <1>7 DEF RemoveWorktree, Checkouts
    <3>2. wt \in [Tasks -> Checkouts]
      BY DEF Checkouts
    <3> HIDE DEF WorkTypes
    <3> QED
      BY <3>1, <3>2, CheckoutTyped, DirectoryTyped
  <2>2. wt' \in [Tasks -> {"none", "clean", "dirty"}] /\ removed' \subseteq Tasks
    BY <2>6, <2>7 DEF Checkouts
  <2>3. CASE RStop
    BY <1>7, <2>2, <2>3, LetGo DEF RemoveWorktree, RStop
  <2>4. CASE Go(Remover, "inputs") /\ UNCHANGED <<flock, fd>>
    BY <1>7, <2>2, <2>4 DEF RemoveWorktree, Go
  <2> QED
    BY <1>7, <2>3, <2>4 DEF RemoveWorktree
<1>8. CASE RemoveInputs
  <2>1. Remover \in Processes
    OBVIOUS
  <2>2. ppc' = ppc \/ ppc' = [ppc EXCEPT ![Remover] = "unlink"]
    BY <1>8 DEF RemoveInputs, Go
  <2>4. UNCHANGED <<wt, state, index, ino, made, flock, fd, kept, removed>>
    BY <1>8 DEF RemoveInputs
  <2>5. dir' \in [Tasks -> Directories]
    <3>1. dir' = dir \/ \E x \in Tasks, d \in Directories : dir' = [dir EXCEPT ![x] = d]
      BY <1>8 DEF RemoveInputs, Directories
    <3>2. dir \in [Tasks -> Directories]
      BY DEF Directories
    <3> HIDE DEF WorkTypes
    <3> QED
      BY <3>1, <3>2, CheckoutTyped, DirectoryTyped
  <2>6. ppc' \in [Processes -> {"idle", "open", "locked", "work", "worktree", "inputs",
                                "unlink", "rmdir"}]
    BY <2>1, <2>2
  <2> QED
    BY <2>4, <2>5, <2>6 DEF Directories
<1>9. CASE Unlink
  BY <1>9 DEF Unlink, Go
<1>10. CASE RemoveDirectory
  <2>1. Remover \in Processes /\ RStop
    BY <1>10 DEF RemoveDirectory
  <2>2. index' \subseteq Tasks
    BY <1>10 DEF RemoveDirectory
  <2>4. dir' \in [Tasks -> Directories]
    <3>1. dir' = dir \/ \E x \in Tasks, d \in Directories : dir' = [dir EXCEPT ![x] = d]
      BY <1>10 DEF RemoveDirectory, Directories
    <3>2. dir \in [Tasks -> Directories]
      BY DEF Directories
    <3> HIDE DEF WorkTypes
    <3> QED
      BY <3>1, <3>2, CheckoutTyped, DirectoryTyped
  <2> QED
    BY <1>10, <2>1, <2>2, <2>4, LetGo DEF RemoveDirectory, RStop, Directories
<1>11. CASE RemoverLost
  BY <1>11, LetGo DEF RemoverLost, RStop
<1> QED
  BY <1>1, <1>2, <1>3, <1>4, <1>5, <1>6, <1>7, <1>8, <1>9, <1>10, <1>11 DEF Work

\* A task that no removal took on keeps what its launch placed.
LEMMA WorkPlaced ==
    ASSUME IInv, Work
    PROVE  Placed'
<1> USE ProcessesDistinct DEF IInv, TypeOK, Placed, Owned, OwnedBy, Removes, Holds, At, Go,
   Task, Release, RStop, Inodes, Processes, Tasks, naming, places, launch
<1>1. ASSUME NEW p \in Processes, TakeLock(p) PROVE Placed'
  BY <1>1 DEF TakeLock
<1>2. ASSUME NEW p \in Processes, NEW t \in Tasks, OpenLock(p, t) PROVE Placed'
  BY <1>2 DEF OpenLock
<1>3. ASSUME NEW p \in Owners, Own(p) PROVE Placed'
  BY <1>3 DEF Own
<1>4. ASSUME NEW p \in Owners, EndWork(p) PROVE Placed'
  BY <1>4 DEF EndWork
<1>5. ASSUME NEW p \in Owners, OwnerLost(p) PROVE Placed'
  BY <1>5 DEF OwnerLost
<1>6. CASE GuardRemoval
  BY <1>6 DEF GuardRemoval
<1>7. CASE RemoveWorktree
  BY <1>7 DEF RemoveWorktree
<1>8. CASE RemoveInputs
  BY <1>8 DEF RemoveInputs
<1>9. CASE Unlink
  BY <1>9 DEF Unlink
<1>10. CASE RemoveDirectory
  BY <1>10 DEF RemoveDirectory
<1>11. CASE RemoverLost
  BY <1>11, SMTT(30) DEF RemoverLost
<1> QED
  BY <1>1, <1>2, <1>3, <1>4, <1>5, <1>6, <1>7, <1>8, <1>9, <1>10, <1>11 DEF Work

\* The flock of the inode that owner.lock names decides; inputs go before the path.
LEMMA WorkOwned ==
    ASSUME IInv, Work
    PROVE  Owned'
<1> USE InodeBound, ProcessesDistinct DEF IInv, TypeOK, Owned, OwnedBy, Removes, Holds, At,
   Go, Task, Release, RStop, Inodes, Processes, Tasks, naming, places, launch
<1>1. ASSUME NEW p \in Processes, TakeLock(p) PROVE Owned'
  <2> SUFFICES ASSUME NEW q \in Processes PROVE OwnedBy(q)'
    BY DEF Owned
  <2> DEFINE t == fd[p].task
             i == fd[p].ino
  <2>1. ppc[p] = "open" /\ t \in Tasks /\ i \in Inodes
    BY <1>1 DEF TakeLock
  <2>2. CASE flock[t][i] = None
    <3>1. flock' = [flock EXCEPT ![t][i] = p] /\ ppc' = [ppc EXCEPT ![p] = "locked"] /\ fd' = fd
      BY <1>1, <2>2 DEF TakeLock
    <3>2. flock[t][i]' = p /\ ppc[p]' = "locked"
      BY <2>1, <3>1
    <3>3. CASE q = p
      BY <1>1, <2>1, <3>1, <3>2, <3>3 DEF TakeLock
    <3>4. CASE q # p
      <4>1. ppc[q]' = ppc[q] /\ fd[q]' = fd[q]
        BY <3>1, <3>4
      <4>2. ASSUME ppc[q] \in Holds PROVE flock[fd[q].task][fd[q].ino]' = q
        <5>1. flock[fd[q].task][fd[q].ino] = q /\ fd[q].task \in Tasks /\ fd[q].ino \in Inodes
          BY <4>2
        <5>2. fd[q].task # t \/ fd[q].ino # i
          BY <2>2, <5>1, ProcessesDistinct
        <5> QED
          BY <2>1, <3>1, <4>1, <5>1, <5>2
      <4> QED
        BY <1>1, <4>1, <4>2 DEF TakeLock
    <3> QED
      BY <3>3, <3>4
  <2>3. CASE flock[t][i] # None
    BY <1>1, <2>1, <2>3 DEF TakeLock
  <2> QED
    BY <2>2, <2>3
<1>2. ASSUME NEW p \in Processes, NEW t \in Tasks, OpenLock(p, t) PROVE Owned'
  BY <1>2 DEF OpenLock
<1>3. ASSUME NEW p \in Owners, Own(p) PROVE Owned'
  BY <1>3 DEF Own
<1>4. ASSUME NEW p \in Owners, EndWork(p) PROVE Owned'
  BY <1>4 DEF EndWork
<1>5. ASSUME NEW p \in Owners, OwnerLost(p) PROVE Owned'
  BY <1>5 DEF OwnerLost
<1>6. CASE GuardRemoval
  BY <1>6 DEF GuardRemoval
<1>7. CASE RemoveWorktree
  BY <1>7 DEF RemoveWorktree
<1>8. CASE RemoveInputs
  BY <1>8 DEF RemoveInputs
<1>9. CASE Unlink
  BY <1>9 DEF Unlink
<1>10. CASE RemoveDirectory
  BY <1>10 DEF RemoveDirectory
<1>11. CASE RemoverLost
  BY <1>11 DEF RemoverLost
<1> QED
  BY <1>1, <1>2, <1>3, <1>4, <1>5, <1>6, <1>7, <1>8, <1>9, <1>10, <1>11 DEF Work

\* Only a removal takes a checkout.
LEMMA WorkRecordHasCheckout ==
    ASSUME IInv, Work
    PROVE  RecordHasCheckout'
<1> USE ProcessesDistinct DEF IInv, TypeOK, RecordHasCheckout, Owned, OwnedBy, Removes, At,
   Go, Task, Release, RStop, Inodes, Processes, Tasks, naming, places, launch
<1>1. ASSUME NEW p \in Processes, TakeLock(p) PROVE RecordHasCheckout'
  BY <1>1 DEF TakeLock
<1>2. ASSUME NEW p \in Processes, NEW t \in Tasks, OpenLock(p, t) PROVE RecordHasCheckout'
  BY <1>2 DEF OpenLock
<1>3. ASSUME NEW p \in Owners, Own(p) PROVE RecordHasCheckout'
  BY <1>3 DEF Own
<1>4. ASSUME NEW p \in Owners, EndWork(p) PROVE RecordHasCheckout'
  BY <1>4 DEF EndWork
<1>5. ASSUME NEW p \in Owners, OwnerLost(p) PROVE RecordHasCheckout'
  BY <1>5 DEF OwnerLost
<1>6. CASE GuardRemoval
  BY <1>6 DEF GuardRemoval
<1>7. CASE RemoveWorktree
  BY <1>7 DEF RemoveWorktree
<1>8. CASE RemoveInputs
  BY <1>8 DEF RemoveInputs
<1>9. CASE Unlink
  BY <1>9 DEF Unlink
<1>10. CASE RemoveDirectory
  BY <1>10 DEF RemoveDirectory
<1>11. CASE RemoverLost
  BY <1>11 DEF RemoverLost
<1> QED
  BY <1>1, <1>2, <1>3, <1>4, <1>5, <1>6, <1>7, <1>8, <1>9, <1>10, <1>11 DEF Work

\* Dead launches have no owners.
LEMMA WorkOrphanCovered ==
    ASSUME IInv, Work
    PROVE  OrphanCovered'
<1> USE ProcessesDistinct DEF IInv, TypeOK, OrphanCovered, Owned, OwnedBy, Removes, At, Go,
   Task, Release, RStop, Inodes, Processes, Tasks, naming, places, launch
<1>1. ASSUME NEW p \in Processes, TakeLock(p) PROVE OrphanCovered'
  BY <1>1 DEF TakeLock
<1>2. ASSUME NEW p \in Processes, NEW t \in Tasks, OpenLock(p, t) PROVE OrphanCovered'
  BY <1>2 DEF OpenLock
<1>3. ASSUME NEW p \in Owners, Own(p) PROVE OrphanCovered'
  BY <1>3 DEF Own
<1>4. ASSUME NEW p \in Owners, EndWork(p) PROVE OrphanCovered'
  BY <1>4 DEF EndWork
<1>5. ASSUME NEW p \in Owners, OwnerLost(p) PROVE OrphanCovered'
  BY <1>5 DEF OwnerLost
<1>6. CASE GuardRemoval
  BY <1>6 DEF GuardRemoval
<1>7. CASE RemoveWorktree
  BY <1>7 DEF RemoveWorktree
<1>8. CASE RemoveInputs
  BY <1>8 DEF RemoveInputs
<1>9. CASE Unlink
  BY <1>9 DEF Unlink
<1>10. CASE RemoveDirectory
  <2>1. lpc[Task(Remover)] = "done"
    BY <1>10 DEF RemoveDirectory
  <2>2. \A h \in Tasks : h # Task(Remover) => dir[h]' = dir[h]
    BY <1>10 DEF RemoveDirectory
  <2> QED
    BY <1>10, <2>1, <2>2 DEF RemoveDirectory
<1>11. CASE RemoverLost
  BY <1>11 DEF RemoverLost
<1> QED
  BY <1>1, <1>2, <1>3, <1>4, <1>5, <1>6, <1>7, <1>8, <1>9, <1>10, <1>11 DEF Work

-----------------------------------------------------------------------------
\* A name that resolves keeps its task in a step.
Stands == \A n \in Names : Resolve(n) # None => Resolve(n)' = Resolve(n)

\* No launch changes what a name resolves to.
LEMMA LaunchStands ==
    ASSUME IInv, NEW t \in Tasks, Launch(t)
    PROVE  Stands
<1> USE DEF IInv, TypeOK, Gone, Goto, Leave, Resolve
<1> SUFFICES ASSUME NEW n \in Names, Resolve(n) # None PROVE Resolve(n)' = Resolve(n)
  BY DEF Stands
<1>1. CASE TakeName(t)
  BY <1>1 DEF TakeName
<1>2. CASE WriteName(t)
  <2>1. byName[cand[t]] = NameOf(t, FALSE)
    BY <1>2 DEF WriteName, Named, NamedBy
  <2>2. n # cand[t]
    BY <2>1 DEF NameOf
  <2> QED
    BY <1>2, <2>2 DEF WriteName
<1>3. CASE TakeId(t)
  BY <1>3 DEF TakeId
<1>4. CASE WriteId(t)
  <2>1. byId[t] = IdOf(t, FALSE)
    BY <1>4 DEF WriteId, Named, NamedBy
  <2>2. byName[n].task # t
    BY <2>1 DEF IdOf
  <2> QED
    BY <1>4, <2>2 DEF WriteId
<1>5. CASE UNCHANGED <<byName, byId>>
  BY <1>5
<1> QED
  BY <1>1, <1>2, <1>3, <1>4, <1>5 DEF Launch, Acquire, Sweep, NameTaken, WriteIntent,
     AddWorktree,
     Materialize, SaveTask, SaveSpec, DropIntent, Register, Rollback, LaunchEnds, naming

\* One step.
LEMMA Inductive == IInv /\ [Next]_vars => IInv' /\ Stands
<1> SUFFICES ASSUME IInv, [Next]_vars PROVE IInv' /\ Stands
  OBVIOUS
<1>1. ASSUME NEW t \in Tasks, Launch(t) PROVE IInv' /\ Stands
  BY <1>1, LaunchLocked, LaunchTypeOK, LaunchNamed, LaunchIntended, LaunchPlaced, LaunchOwned,
     LaunchRecordHasCheckout, LaunchOrphanCovered, LaunchStands DEF IInv
<1>2. CASE Work
  <2>1. IInv'
    BY <1>2, WorkNamed, WorkTypeOK, WorkPlaced, WorkOwned, WorkRecordHasCheckout,
       WorkOrphanCovered DEF IInv
  <2> QED
    BY <1>2, <2>1, WorkSparesLaunches DEF Stands, Resolve, naming
<1>3. CASE UNCHANGED vars
  <2>1. UNCHANGED <<naming, places, launch, guards, kept, removed>>
    BY <1>3 DEF vars
  <2>2. TypeOK'
    BY <2>1 DEF IInv, TypeOK, naming, places, launch, guards
  <2>3. Named' /\ Locked' /\ Intended' /\ Placed'
    BY <2>1 DEF IInv, Named, NamedBy, NameOf, IdOf, Locked, Intended, Placed, naming,
       places, launch
  <2>4. Owned'
    BY <2>1 DEF IInv, Owned, OwnedBy, naming, places, launch, guards
  <2>5. RecordHasCheckout' /\ OrphanCovered'
    BY <2>1 DEF IInv, RecordHasCheckout, OrphanCovered, places, launch
  <2> QED
    BY <2>1, <2>2, <2>3, <2>4, <2>5 DEF IInv, Stands, Resolve, naming
<1> QED
  BY <1>1, <1>2, <1>3 DEF Next, Work

\* Hence always.
LEMMA Invariant == Spec => []IInv
<1>1. IInv /\ [Next]_vars => IInv'
  BY Inductive
<1> QED
  BY <1>1, Initially, PTL DEF Spec

\* The types, and that a launch that writes holds the lock of its kind.
THEOREM Types == Spec => []TypeOK
<1>1. IInv => TypeOK
  BY DEF IInv
<1> QED
  BY <1>1, Invariant, PTL

\* A handle that resolved to a task resolves to it for ever (task_handles::create never
\* takes over a name, also not one whose file is unreadable).
THEOREM HandlesStand == Spec => HandleStable
<1>1. IInv /\ [Next]_vars => [Stands]_vars
  BY Inductive
<1>2. IInv /\ [Next]_vars => [\A n \in Names : Resolve(n) # None => Resolve(n)' = Resolve(n)]_vars
  BY <1>1 DEF Stands
<1> QED
  BY <1>2, Invariant, PTL DEF Spec, HandleStable

\* A launched task that was not removed is found under its handle, with its record, its
\* index entry and its checkout.
THEOREM LaunchedTasksAreFound == Spec => []LaunchedIsFound
<1>1. IInv => LaunchedIsFound
  <2> SUFFICES ASSUME IInv, NEW t \in Tasks, lpc[t] = "done", t \notin removed
               PROVE  dir[t] = "full" /\ wt[t] # "none" /\ t \in index
                      /\ \E n \in Names : Resolve(n) = t
    BY DEF LaunchedIsFound
  <2>1. dir[t] = "full" /\ wt[t] # "none" /\ t \in index
    BY DEF IInv, Placed
  <2>2. cand[t] \in Names /\ byName[cand[t]] = NameOf(t, TRUE) /\ byId[t] = IdOf(t, TRUE)
    BY DEF IInv, TypeOK, Named, NamedBy
  <2>3. NameOf(t, TRUE) # None
    BY NamesAreRecords
  <2>4. IdOf(t, TRUE) \in [name : Names, ok : BOOLEAN]
    BY <2>2 DEF IdOf
  <2>5. IdOf(t, TRUE) # None
    BY <2>4, NoneIsNoRecord
  <2>6. Resolve(cand[t]) = t
    BY <2>2, <2>3, <2>5 DEF Resolve, NameOf, IdOf
  <2> QED
    BY <2>1, <2>2, <2>6
<1> QED
  BY <1>1, Invariant, PTL

\* A record that no removal took on names a checkout that is there (launch order in
\* headless::launch and launch::execute).
THEOREM RecordsKeepCheckouts == Spec => []RecordHasCheckout
<1>1. IInv => RecordHasCheckout
  BY DEF IInv
<1> QED
  BY <1>1, Invariant, PTL

\* A clean checkout that a dead headless launch left is covered by the intent or was kept
\* on purpose (sweep_placement_intent).
THEOREM OrphansAreCovered == Spec => []OrphanCovered
<1>1. IInv => OrphanCovered
  BY DEF IInv
<1> QED
  BY <1>1, Invariant, PTL

\* A removal and a supervisor or resume never have the same task at once, nor do two
\* supervisors: the flock they hold is of the inode owner.lock names.
THEOREM OwnersStayApart == Spec => []OwnersApart
<1>1. IInv => OwnersApart
  <2> SUFFICES ASSUME IInv, NEW p \in Processes, NEW q \in Processes,
                      ppc[p] \in {"work", "worktree", "inputs"},
                      ppc[q] \in {"work", "worktree", "inputs"}, fd[p].task = fd[q].task
               PROVE  p = q
    BY DEF OwnersApart, Task
  <2>1. OwnedBy(p) /\ OwnedBy(q)
    BY DEF IInv, Owned
  <2>2. fd[p].ino = ino[fd[p].task] /\ fd[q].ino = ino[fd[q].task]
    BY <2>1 DEF OwnedBy
  <2>3. flock[fd[p].task][fd[p].ino] = p /\ flock[fd[q].task][fd[q].ino] = q
    BY <2>1 DEF OwnedBy, Holds
  <2> QED
    BY <2>2, <2>3
<1> QED
  BY <1>1, Invariant, PTL
================================================================================
