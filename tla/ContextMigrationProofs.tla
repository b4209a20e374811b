------------------------- MODULE ContextMigrationProofs -------------------------
(***************************************************************************)
(* For any number of migrators, edits and crashes: the journal's backups   *)
(* are never replaced, a completed migration is never rolled back, a       *)
(* finished journal tells the truth about the files, and an interrupted    *)
(* migration can be rolled back.                                           *)
(***************************************************************************)
EXTENDS ContextMigration, TLAPS

\* The places a migrator reaches only with the guard, and those it reaches only
\* after a pending journal was published or found.
Guarded == {"guarded", "step", "write", "undo", "restore", "rewrite"}
Pending == {"step", "write", "restore", "rewrite"}

Places == {"idle", "planned"} \cup Guarded

OneAtATime == \A m \in Migrators : pc[m] \in Guarded => guard = m
WorkIsPending == \A m \in Migrators : pc[m] \in Pending => Prepared
JInv == pc \in [Migrators -> Places] /\ OneAtATime /\ WorkIsPending

LEMMA JInit == Init => JInv
BY DEF Init, JInv, OneAtATime, WorkIsPending, Places, Guarded, Pending, Prepared

\* Steps that leave the journal, the guard and every migrator alone.
LEMMA OthersStep ==
    ASSUME JInv, (\E i \in Files : Edit(i)) \/ StartUpdate \/ WriteUpdate \/ UNCHANGED vars
    PROVE  JInv' /\ UNCHANGED jn
BY DEF JInv, OneAtATime, WorkIsPending, Prepared, Edit, StartUpdate, WriteUpdate, Touches,
       vars, disk, local, others

\* Steps of a migrator that leave the journal alone.
LEMMA QuietStep ==
    ASSUME JInv, NEW m \in Migrators,
           \/ Preview(m) \/ TakeGuard(m) \/ CheckStep(m) \/ WriteStep(m) \/ Fails(m)
           \/ BeginRollback(m) \/ Validate(m) \/ CheckRestore(m) \/ Restore(m) \/ Lost(m)
    PROVE  JInv' /\ UNCHANGED jn
<1> USE NoneIsNobody DEF JInv, OneAtATime, WorkIsPending, Places, Guarded, Pending, Prepared, Go, Ends, disk, local
<1>1. CASE Preview(m)
  BY <1>1 DEF Preview
<1>2. CASE TakeGuard(m)
  BY <1>2 DEF TakeGuard
<1>3. CASE CheckStep(m)
  BY <1>3 DEF CheckStep
<1>4. CASE WriteStep(m)
  BY <1>4 DEF WriteStep
<1>5. CASE Fails(m)
  BY <1>5 DEF Fails
<1>6. CASE BeginRollback(m)
  BY <1>6 DEF BeginRollback
<1>7. CASE Validate(m)
  BY <1>7 DEF Validate
<1>8. CASE CheckRestore(m)
  BY <1>8 DEF CheckRestore
<1>9. CASE Restore(m)
  BY <1>9 DEF Restore
<1>10. CASE Lost(m)
  BY <1>10 DEF Lost
<1> QED
  BY <1>1, <1>2, <1>3, <1>4, <1>5, <1>6, <1>7, <1>8, <1>9, <1>10

KeepsBackups ==
    jn.phase # "none" =>
                 /\ Backups(jn'.before) = Backups(jn.before)
                 /\ jn.phase = "complete" => jn' = jn

\* The only writes of the journal: publication, and the two ends of a pending one.
LEMMA JournalStep ==
    ASSUME JInv, NEW m \in Migrators, Prepare(m) \/ Complete(m) \/ RolledBack(m)
    PROVE  JInv' /\ KeepsBackups
<1> USE NoneIsNobody DEF JInv, OneAtATime, WorkIsPending, Places, Guarded, Pending, Prepared, Go, Ends, KeepsBackups
<1>1. CASE Prepare(m)
  <2>1. CASE Unmoved(m)
    <3>1. /\ jn' = [phase |-> "prepared", before |-> files, after |-> plan[m].after]
          /\ pc' = [pc EXCEPT ![m] = "step"] /\ guard' = guard /\ pc[m] = "guarded"
      BY <1>1, <2>1 DEF Prepare
    <3>2. jn.phase # "none" => jn.phase = "rolled-back" /\ Backups(jn.before) = Backups(files)
      BY <2>1 DEF Unmoved, Plannable
    <3>3. jn'.before = files /\ jn'.phase = "prepared"
      BY <3>1
    <3> QED
      BY <3>1, <3>2, <3>3
  <2>2. CASE ~Unmoved(m)
    BY <1>1, <2>2 DEF Prepare
  <2> QED
    BY <2>1, <2>2
<1>2. CASE Complete(m)
  BY <1>2 DEF Complete, Phase
<1>3. CASE RolledBack(m)
  BY <1>3 DEF RolledBack, Phase
<1> QED
  BY <1>1, <1>2, <1>3

LEMMA JNext == ASSUME JInv, [Next]_vars PROVE JInv' /\ KeepsBackups
<1>1. CASE \E m \in Migrators : \/ Preview(m) \/ TakeGuard(m) \/ CheckStep(m) \/ WriteStep(m) \/ Fails(m)
                                \/ BeginRollback(m) \/ Validate(m) \/ CheckRestore(m) \/ Restore(m) \/ Lost(m)
  BY <1>1, QuietStep DEF KeepsBackups
<1>2. CASE \E m \in Migrators : Prepare(m) \/ Complete(m) \/ RolledBack(m)
  BY <1>2, JournalStep
<1>3. CASE (\E i \in Files : Edit(i)) \/ StartUpdate \/ WriteUpdate \/ UNCHANGED vars
  BY <1>3, OthersStep DEF KeepsBackups
<1> QED
  BY <1>1, <1>2, <1>3 DEF Next

\* "its backups are preserved": once published, a backup is never replaced, and a
\* completed migration stays completed.
THEOREM BackupsKept == Spec => JournalKept
<1>1. JInv /\ [Next]_vars => JInv' /\ KeepsBackups
  BY JNext
<1>2. JInv /\ [Next]_vars => [KeepsBackups]_vars
  BY JNext
<1> QED
  BY JInit, <1>1, <1>2, PTL DEF Spec, JournalKept, KeepsBackups

-----------------------------------------------------------------------------
(* What the files hold, step by step.                                      *)

Shape ==
    /\ files = [i \in Files |-> files[i]]
    /\ plan = [m \in Migrators |-> plan[m]]
    /\ step \in [Migrators -> 1..5]
    /\ \A m \in Migrators : pc[m] \in {"write", "rewrite"} => step[m] \in 1..4

\* A migrator that moves files follows the plan it published.
OwnPlan == \A m \in Migrators : pc[m] \in {"step", "write"} => plan[m].after = jn.after

\* A rollback has restored every file before the one in hand.
Undone ==
    \A m \in Migrators : pc[m] \in {"restore", "rewrite"} =>
        \A k \in 1..4 : k < step[m] /\ UndoOrder[k] \notin stray =>
            files[UndoOrder[k]].text = jn.before[UndoOrder[k]].text

FInv == JInv /\ Shape /\ OwnPlan /\ Recoverable /\ Undone /\ PhaseTruthful

LEMMA Orders ==
    /\ \A k \in 1..4 : Order[k] \in Files /\ UndoOrder[k] \in Files
    /\ \A i \in Files : \E k \in 1..4 : UndoOrder[k] = i
BY DEF Order, UndoOrder, Files

LEMMA FInit == Init => FInv
<1> SUFFICES ASSUME Init PROVE FInv
  OBVIOUS
<1>1. JInv
  BY JInit
<1>2. Shape
  BY DEF Init, Shape, Sources
<1> QED
  BY <1>1, <1>2 DEF Init, FInv, OwnPlan, Recoverable, Prepared, Undone, PhaseTruthful

\* Somebody else writes a file: it becomes stray.
LEMMA StrayStep ==
    ASSUME FInv, (\E i \in Files : Edit(i)) \/ StartUpdate \/ WriteUpdate \/ UNCHANGED vars
    PROVE  FInv'
<1>1. JInv'
  BY OthersStep DEF FInv
<1>2. UNCHANGED <<jn, pc, plan, step>>
  BY DEF Edit, StartUpdate, WriteUpdate, vars, disk, local
<1>3. /\ stray \subseteq stray'
      /\ \A i \in Files \ stray' : files'[i] = files[i]
      /\ files' = [i \in Files |-> files'[i]]
  BY DEF FInv, Shape, Edit, StartUpdate, WriteUpdate, Touches, vars, disk, Files
<1>4. Shape' /\ OwnPlan'
  BY <1>2, <1>3 DEF FInv, Shape, OwnPlan
<1>5. Recoverable' /\ PhaseTruthful'
  BY <1>2, <1>3 DEF FInv, Recoverable, PhaseTruthful, Restorable, AfterMode, Prepared
<1>6. Undone'
  BY <1>2, <1>3, Orders DEF FInv, Undone
<1> QED
  BY <1>1, <1>4, <1>5, <1>6 DEF FInv

\* A migrator's step that writes no file.
LEMMA LookStep ==
    ASSUME FInv, NEW m \in Migrators,
           \/ Preview(m) \/ TakeGuard(m) \/ CheckStep(m) \/ Fails(m)
           \/ BeginRollback(m) \/ Validate(m) \/ CheckRestore(m) \/ Lost(m)
    PROVE  FInv'
<1>1. JInv' /\ UNCHANGED jn
  BY QuietStep DEF FInv
<1>2. UNCHANGED <<files, stray>>
  BY DEF Preview, TakeGuard, CheckStep, Fails, BeginRollback, Validate, CheckRestore, Lost, disk
<1>3. Recoverable' /\ PhaseTruthful'
  BY <1>1, <1>2 DEF FInv, Recoverable, PhaseTruthful, Restorable, AfterMode, Prepared
<1>4. Shape'
  <2> USE <1>1, <1>2 DEF FInv, Shape, Go, At, Ends, JInv
  <2>1. CASE Preview(m) \/ TakeGuard(m) \/ Fails(m) \/ BeginRollback(m) \/ Lost(m)
    BY <2>1 DEF Preview, TakeGuard, Fails, BeginRollback, Lost, disk
  <2>2. CASE CheckStep(m)
    BY <2>2 DEF CheckStep, disk
  <2>3. CASE Validate(m)
    BY <2>3 DEF Validate
  <2>4. CASE CheckRestore(m)
    BY <2>4 DEF CheckRestore
  <2> QED
    BY <2>1, <2>2, <2>3, <2>4
<1>5. OwnPlan'
  <2> USE <1>1 DEF FInv, OwnPlan, Shape, Go, At, Ends, JInv
  <2>1. CASE Preview(m) \/ TakeGuard(m) \/ Fails(m) \/ BeginRollback(m) \/ Lost(m)
    BY <2>1 DEF Preview, TakeGuard, Fails, BeginRollback, Lost, disk
  <2>2. CASE CheckStep(m)
    BY <2>2 DEF CheckStep, disk
  <2>3. CASE Validate(m) \/ CheckRestore(m)
    BY <2>3 DEF Validate, CheckRestore
  <2> QED
    BY <2>1, <2>2, <2>3
<1>6. Undone'
  <2> USE <1>1, <1>2 DEF FInv, Undone, Shape, Go, At, Ends, JInv
  <2>1. CASE Preview(m) \/ TakeGuard(m) \/ Fails(m) \/ BeginRollback(m) \/ Lost(m)
    BY <2>1 DEF Preview, TakeGuard, Fails, BeginRollback, Lost, disk
  <2>2. CASE CheckStep(m)
    BY <2>2 DEF CheckStep, disk
  <2>3. CASE Validate(m)
    BY <2>3 DEF Validate
  <2>4. CASE CheckRestore(m)
    BY <2>4 DEF CheckRestore, Undoes
  <2> QED
    BY <2>1, <2>2, <2>3, <2>4
<1> QED
  BY <1>1, <1>3, <1>4, <1>5, <1>6 DEF FInv

\* A file is moved: it holds its target, with the mode of a target.
LEMMA MoveStep == ASSUME FInv, NEW m \in Migrators, WriteStep(m) PROVE FInv'
<1>1. JInv' /\ UNCHANGED jn
  BY QuietStep DEF FInv
<1> DEFINE i == Moves(m)
<1>2. i \in Files /\ plan[m].after = jn.after /\ Prepared /\ guard = m /\ step[m] \in 1..4
  BY Orders DEF FInv, JInv, Shape, OwnPlan, WorkIsPending, OneAtATime, Pending, Guarded, WriteStep, Moves
<1>3. UNCHANGED <<stray, plan>>
  BY DEF WriteStep
<1>4. /\ \A j \in Files \ {i} : files'[j] = files[j]
      /\ \/ files'[i] = files[i]
         \/ files'[i] = IF jn.after[i] = None THEN Absent ELSE Doc(jn.after[i], "private")
      /\ files' = [j \in Files |-> files'[j]]
  BY <1>2 DEF FInv, Shape, WriteStep
<1>5. Recoverable'
  BY <1>1, <1>2, <1>3, <1>4 DEF FInv, Recoverable, Restorable, AfterMode, Prepared, Absent, Doc
<1>6. PhaseTruthful'
  BY <1>1, <1>2 DEF PhaseTruthful, Prepared
<1>7. Shape' /\ OwnPlan'
  BY <1>1, <1>2, <1>3, <1>4 DEF FInv, JInv, Shape, OwnPlan, WriteStep, Go, At
<1>8. Undone'
  BY <1>1, <1>2 DEF FInv, JInv, OneAtATime, Guarded, Undone, WriteStep, Go, At
<1> QED
  BY <1>1, <1>5, <1>6, <1>7, <1>8 DEF FInv

\* A file is restored: it holds its source, with the mode of the source.
LEMMA RestoreStep == ASSUME FInv, NEW m \in Migrators, Restore(m) PROVE FInv'
<1>1. JInv' /\ UNCHANGED jn
  BY QuietStep DEF FInv
<1> DEFINE i == Undoes(m)
<1>2. i \in Files /\ Prepared /\ guard = m /\ step[m] \in 1..4 /\ pc[m] = "rewrite"
  BY Orders DEF FInv, JInv, Shape, WorkIsPending, OneAtATime, Pending, Guarded, Restore, Undoes
<1>3. UNCHANGED stray
  BY DEF Restore
<1>4. /\ \A j \in Files \ {i} : files'[j] = files[j]
      /\ files'[i] = files[i] \/ files'[i] = jn.before[i]
      /\ files' = [j \in Files |-> files'[j]]
  BY <1>2 DEF FInv, Shape, Restore
<1>5. Recoverable'
  BY <1>1, <1>2, <1>3, <1>4 DEF FInv, Recoverable, Restorable, AfterMode, Prepared
<1>6. PhaseTruthful'
  BY <1>1, <1>2 DEF PhaseTruthful, Prepared
<1>7. Shape' /\ OwnPlan'
  BY <1>1, <1>2, <1>3, <1>4 DEF FInv, JInv, Shape, OwnPlan, Restore, Go, At, Ends
<1>8. Undone'
  <2>1. \A t \in Migrators \ {m} : pc'[t] \notin {"restore", "rewrite"}
    BY <1>2 DEF FInv, JInv, OneAtATime, Guarded, Restore, Go, Ends
  <2>2. CASE pc'[m] = "idle"
    BY <2>1, <2>2 DEF Undone
  <2>3. CASE pc'[m] # "idle"
    <3>1. step'[m] = step[m] + 1 /\ files'[i] = jn.before[i]
      BY <1>2, <2>3 DEF FInv, JInv, Shape, Restore, Go, At, Ends
    <3>2. \A k \in 1..4 : k < step[m] /\ UndoOrder[k] \notin stray =>
            files[UndoOrder[k]].text = jn.before[UndoOrder[k]].text
      BY <1>2 DEF FInv, Undone
    <3>3. \A k \in 1..4 : k < step'[m] /\ UndoOrder[k] \notin stray =>
            files'[UndoOrder[k]].text = jn.before[UndoOrder[k]].text
      BY <1>2, <1>4, <3>1, <3>2, Orders DEF Undoes
    <3> QED
      BY <1>1, <1>3, <2>1, <3>3 DEF Undone
  <2> QED
    BY <2>2, <2>3
<1> QED
  BY <1>1, <1>5, <1>6, <1>7, <1>8 DEF FInv

\* The journal is written: only when the files are what it says.
LEMMA PublishStep ==
    ASSUME FInv, NEW m \in Migrators, Prepare(m) \/ Complete(m) \/ RolledBack(m)
    PROVE  FInv'
<1>1. JInv'
  BY JournalStep DEF FInv
<1>2. \A t \in Migrators \ {m} : pc[t] \notin Guarded /\ pc'[t] = pc[t]
  BY NoneIsNobody DEF FInv, JInv, OneAtATime, Guarded, Prepare, Complete, RolledBack, Go, Ends
<1>3. Shape'
  BY DEF FInv, JInv, Shape, Prepare, Complete, RolledBack, Go, At, Ends
<1>4. CASE Prepare(m)
  <2>1. CASE Unmoved(m)
    <3>1. /\ jn' = [phase |-> "prepared", before |-> files, after |-> plan[m].after]
          /\ UNCHANGED <<files, plan>> /\ pc' = [pc EXCEPT ![m] = "step"]
      BY <1>4, <2>1 DEF Prepare, Go
    <3>2. Recoverable' /\ PhaseTruthful'
      BY <3>1 DEF Recoverable, PhaseTruthful, Restorable, AfterMode
    <3>3. OwnPlan' /\ Undone'
      BY <1>2, <3>1 DEF FInv, JInv, OwnPlan, Undone, Guarded
    <3> QED
      BY <1>1, <1>3, <3>2, <3>3 DEF FInv
  <2>2. CASE ~Unmoved(m)
    <3>1. UNCHANGED <<jn, files, stray>> /\ pc' = [pc EXCEPT ![m] = "idle"]
      BY <1>4, <2>2 DEF Prepare, Go, Ends
    <3>2. Recoverable' /\ PhaseTruthful'
      BY <3>1 DEF FInv, Recoverable, PhaseTruthful, Restorable, AfterMode, Prepared
    <3>3. OwnPlan' /\ Undone'
      BY <1>2, <3>1 DEF FInv, JInv, OwnPlan, Undone, Guarded
    <3> QED
      BY <1>1, <1>3, <3>2, <3>3 DEF FInv
  <2> QED
    BY <2>1, <2>2
<1>5. CASE Complete(m)
  <2>1. UNCHANGED <<files, stray>> /\ pc[m] = "step" /\ plan[m].after = jn.after /\ Prepared
    BY <1>5 DEF Complete, FInv, JInv, OwnPlan, WorkIsPending, Pending
  <2>2. CASE Matches(plan[m].after)
    <3>1. /\ jn' = [phase |-> "complete", before |-> jn.before, after |-> jn.after]
          /\ pc' = [pc EXCEPT ![m] = "idle"]
      BY <1>5, <2>2 DEF Complete, Phase, Go, Ends
    <3>2. Recoverable' /\ PhaseTruthful'
      BY <2>1, <2>2, <3>1 DEF Recoverable, PhaseTruthful, Prepared, Matches
    <3>3. OwnPlan' /\ Undone'
      BY <1>2, <3>1 DEF FInv, JInv, OwnPlan, Undone, Guarded
    <3> QED
      BY <1>1, <1>3, <3>2, <3>3 DEF FInv
  <2>3. CASE ~Matches(plan[m].after)
    <3>1. UNCHANGED jn /\ pc' = [pc EXCEPT ![m] = "undo"]
      BY <1>5, <2>3 DEF Complete, Go
    <3>2. Recoverable' /\ PhaseTruthful'
      BY <2>1, <3>1 DEF FInv, Recoverable, PhaseTruthful, Restorable, AfterMode, Prepared
    <3>3. OwnPlan' /\ Undone'
      BY <1>2, <3>1 DEF FInv, JInv, OwnPlan, Undone, Guarded
    <3> QED
      BY <1>1, <1>3, <3>2, <3>3 DEF FInv
  <2> QED
    BY <2>2, <2>3
<1>6. CASE RolledBack(m)
  <2>1. /\ UNCHANGED <<files, stray>> /\ pc[m] = "restore" /\ step[m] = 5 /\ Prepared
        /\ jn' = [phase |-> "rolled-back", before |-> jn.before, after |-> jn.after]
        /\ pc' = [pc EXCEPT ![m] = "idle"]
    BY <1>6 DEF RolledBack, FInv, JInv, WorkIsPending, Pending, Phase, Go, Ends
  <2>2. \A i \in Files \ stray : files[i].text = jn.before[i].text /\ Restorable(i)
    BY <2>1, Orders DEF FInv, Undone, Recoverable
  <2>3. PhaseTruthful'
    BY <2>1, <2>2 DEF PhaseTruthful, Restorable, AfterMode
  <2>4. Recoverable' /\ OwnPlan' /\ Undone'
    BY <1>2, <2>1 DEF FInv, JInv, Recoverable, Prepared, OwnPlan, Undone, Guarded
  <2> QED
    BY <1>1, <1>3, <2>3, <2>4 DEF FInv
<1> QED
  BY <1>4, <1>5, <1>6

LEMMA FNext == ASSUME FInv, [Next]_vars PROVE FInv'
<1>1. CASE \E m \in Migrators : \/ Preview(m) \/ TakeGuard(m) \/ CheckStep(m) \/ Fails(m)
                                \/ BeginRollback(m) \/ Validate(m) \/ CheckRestore(m) \/ Lost(m)
  BY <1>1, LookStep
<1>2. CASE \E m \in Migrators : WriteStep(m) \/ Restore(m)
  BY <1>2, MoveStep, RestoreStep
<1>3. CASE \E m \in Migrators : Prepare(m) \/ Complete(m) \/ RolledBack(m)
  BY <1>3, PublishStep
<1>4. CASE (\E i \in Files : Edit(i)) \/ StartUpdate \/ WriteUpdate \/ UNCHANGED vars
  BY <1>4, StrayStep
<1> QED
  BY <1>1, <1>2, <1>3, <1>4 DEF Next

\* A finished journal tells the truth about every file that nobody else wrote.
THEOREM JournalTruthful == Spec => []PhaseTruthful
<1>1. FInv /\ [Next]_vars => FInv'
  BY FNext
<1>2. FInv => PhaseTruthful
  BY DEF FInv
<1> QED
  BY FInit, <1>1, <1>2, PTL DEF Spec

\* An interrupted migration can be rolled back, wherever it stopped.
THEOREM AlwaysRecoverable == Spec => []Recoverable
<1>1. FInv /\ [Next]_vars => FInv'
  BY FNext
<1>2. FInv => Recoverable
  BY DEF FInv
<1> QED
  BY FInit, <1>1, <1>2, PTL DEF Spec

-----------------------------------------------------------------------------
(* What a migrator overwrites.                                             *)

\* The plan that a migrator follows was made of the journal's backups.
OwnBackups ==
    \A m \in Migrators : pc[m] \in {"step", "write"} =>
        \A i \in Files : plan[m].before[i].text = jn.before[i].text

\* A file that a migrator has in hand is in the journal, unless somebody wrote it since.
InHandKnown ==
    \A m \in Migrators : \A i \in InHand(m) :
        i \in late \/ files[i].text \in {jn.before[i].text, jn.after[i]}

EInv == FInv /\ edits \in Nat /\ OwnBackups /\ InHandKnown

\* Only somebody's work on the files, and only under the guard.
Overwrites ==
    \A i \in Files :
        Exists(files, i) /\ files'[i] # files[i] /\ UNCHANGED <<edits, upc>>
            => Backed(i) \/ i \in late

LEMMA EInit == Init => EInv
<1> SUFFICES ASSUME Init PROVE EInv
  OBVIOUS
<1>1. FInv
  BY FInit
<1> QED
  BY <1>1 DEF Init, EInv, OwnBackups, InHandKnown, InHand

LEMMA InHandIsOne ==
    ASSUME FInv, NEW m \in Migrators
    PROVE  InHand(m) \subseteq Files /\ (InHand(m) # {} => guard = m /\ Prepared)
BY Orders DEF FInv, JInv, Shape, OneAtATime, WorkIsPending, Guarded, Pending, InHand, Moves, Undoes

\* Whoever else writes a file in hand makes it late.
LEMMA LateStep ==
    ASSUME EInv, (\E i \in Files : Edit(i)) \/ StartUpdate \/ WriteUpdate \/ UNCHANGED vars
    PROVE  EInv' /\ Overwrites
<1>1. FInv'
  BY StrayStep DEF EInv
<1>2. UNCHANGED <<jn, pc, plan, step>>
  BY DEF Edit, StartUpdate, WriteUpdate, vars, disk, local
<1>3. /\ late \subseteq late'
      /\ \A m \in Migrators : \A i \in InHand(m) : files'[i] = files[i] \/ i \in late'
  <2>1. ASSUME NEW i \in Files, Touches(i), \A j \in Files \ {i} : files'[j] = files[j]
        PROVE  /\ late \subseteq late'
               /\ \A m \in Migrators : \A j \in InHand(m) : files'[j] = files[j] \/ j \in late'
    BY <2>1, InHandIsOne DEF EInv, Touches
  <2>2. CASE \E i \in Files : Edit(i)
    BY <2>1, <2>2 DEF Edit, EInv, FInv, Shape
  <2>3. CASE WriteUpdate
    BY <2>1, <2>3 DEF WriteUpdate, EInv, FInv, Shape, Files
  <2>4. CASE StartUpdate \/ UNCHANGED vars
    BY <2>4 DEF StartUpdate, vars, disk
  <2> QED
    BY <2>2, <2>3, <2>4
<1>4. InHandKnown'
  BY <1>2, <1>3 DEF EInv, InHandKnown, InHand, Moves, Undoes
<1>5. OwnBackups' /\ edits' \in Nat
  BY <1>2 DEF EInv, OwnBackups, Edit, StartUpdate, WriteUpdate, vars, others
<1>6. Overwrites
  BY DEF EInv, Overwrites, Edit, StartUpdate, WriteUpdate, vars, disk
<1> QED
  BY <1>1, <1>4, <1>5, <1>6 DEF EInv

\* Steps of a migrator that take no file in hand.
LEMMA IdleHands ==
    ASSUME EInv, NEW m \in Migrators,
           \/ Preview(m) \/ TakeGuard(m) \/ Fails(m) \/ BeginRollback(m) \/ Validate(m)
           \/ Lost(m) \/ Prepare(m) \/ Complete(m) \/ RolledBack(m)
    PROVE  EInv' /\ Overwrites
<1>1. FInv'
  BY LookStep, PublishStep DEF EInv
<1>2. UNCHANGED <<files, edits>> /\ pc'[m] \notin {"write", "rewrite"}
  BY DEF EInv, FInv, JInv, Preview, TakeGuard, Fails, BeginRollback, Validate, Lost, Prepare, Complete,
         RolledBack, disk, others, Go, Ends
<1>3. \A t \in Migrators \ {m} : pc'[t] = pc[t] /\ plan'[t] = plan[t] /\ step'[t] = step[t]
  BY DEF EInv, FInv, JInv, Shape, Preview, TakeGuard, Fails, BeginRollback, Validate, Lost, Prepare, Complete,
         RolledBack, Go, At, Ends
<1>4. \A t \in Migrators \ {m} : pc[t] \in {"step", "write", "rewrite"} =>
          UNCHANGED <<jn, late>>
  BY NoneIsNobody, InHandIsOne
     DEF EInv, FInv, JInv, OneAtATime, Guarded, Preview, TakeGuard, Fails, BeginRollback, Validate, Lost,
         Prepare, Complete, RolledBack, disk, InHand
<1>5. InHandKnown'
  BY <1>2, <1>3, <1>4 DEF EInv, InHandKnown, InHand, Moves, Undoes
<1>6. OwnBackups'
  <2>1. \A t \in Migrators \ {m} : pc'[t] \in {"step", "write"} =>
            \A i \in Files : plan'[t].before[i].text = jn'.before[i].text
    BY <1>3, <1>4 DEF EInv, OwnBackups
  <2>2. pc'[m] \in {"step", "write"} =>
            \A i \in Files : plan'[m].before[i].text = jn'.before[i].text
    <3>1. CASE Prepare(m) /\ Unmoved(m)
      BY <3>1 DEF Prepare, Unmoved, Matches, Backups
    <3>2. CASE ~(Prepare(m) /\ Unmoved(m))
      BY <3>2 DEF EInv, FInv, JInv, Preview, TakeGuard, Fails, BeginRollback, Validate, Lost, Prepare,
                  Complete, RolledBack, Go, Ends
    <3> QED
      BY <3>1, <3>2
  <2> QED
    BY <2>1, <2>2 DEF OwnBackups
<1> QED
  BY <1>1, <1>2, <1>5, <1>6 DEF EInv, Overwrites

\* A file is taken in hand after it was compared, and written from there.
LEMMA HandStep ==
    ASSUME EInv, NEW m \in Migrators,
           CheckStep(m) \/ CheckRestore(m) \/ WriteStep(m) \/ Restore(m)
    PROVE  EInv' /\ Overwrites
<1>1. FInv'
  BY LookStep, MoveStep, RestoreStep DEF EInv
<1>2. UNCHANGED <<jn, edits>> /\ guard = m /\ Prepared
  BY DEF EInv, FInv, JInv, OneAtATime, WorkIsPending, Guarded, Pending, CheckStep, CheckRestore, WriteStep,
         Restore, disk, others
<1>3. \A t \in Migrators \ {m} : pc'[t] = pc[t] /\ pc[t] \notin Guarded
  BY <1>2 DEF EInv, FInv, JInv, OneAtATime, CheckStep, CheckRestore, WriteStep, Restore, Go, Ends
<1>4. OwnBackups'
  BY <1>2, <1>3 DEF EInv, FInv, JInv, OwnBackups, Guarded, CheckStep, CheckRestore, WriteStep, Restore, Go, Ends
<1>5. InHandKnown'
  <2>1. \A t \in Migrators \ {m} : InHand(t)' = {}
    BY <1>3 DEF InHand, Guarded
  <2>2. \A i \in InHand(m)' : files'[i].text \in {jn'.before[i].text, jn'.after[i]}
    <3>1. CASE CheckStep(m)
      <4>1. CASE pc'[m] = "write"
        <5>1. /\ Matches(Expected(m)) /\ step' = step /\ files' = files /\ pc[m] = "step"
              /\ step[m] \in 1..4
          BY <3>1, <4>1 DEF CheckStep, EInv, FInv, JInv, Shape, Go, At, disk
        <5>2. Moves(m) \in Files /\ InHand(m)' = {Moves(m)}
          BY <4>1, <5>1, Orders DEF InHand, Moves
        <5>3. files[Moves(m)].text \in {plan[m].after[Moves(m)], plan[m].before[Moves(m)].text}
          BY <5>1, <5>2 DEF Matches, Expected
        <5> QED
          BY <1>2, <5>1, <5>2, <5>3 DEF EInv, FInv, OwnPlan, OwnBackups
      <4>2. CASE pc'[m] # "write"
        BY <3>1, <4>2 DEF CheckStep, EInv, FInv, JInv, Go, InHand
      <4> QED
        BY <4>1, <4>2
    <3>2. CASE CheckRestore(m)
      <4>1. CASE pc'[m] = "rewrite"
        <5>1. Restorable(Undoes(m)) /\ step' = step /\ files' = files
          BY <3>2, <4>1 DEF CheckRestore, EInv, FInv, JInv, Go, At, Ends
        <5>2. InHand(m)' = {Undoes(m)}
          BY <4>1, <5>1 DEF InHand, Undoes
        <5> QED
          BY <1>2, <5>1, <5>2 DEF Restorable
      <4>2. CASE pc'[m] # "rewrite"
        BY <3>2, <4>2 DEF CheckRestore, EInv, FInv, JInv, Go, At, Ends, InHand
      <4> QED
        BY <4>1, <4>2
    <3>3. CASE WriteStep(m) \/ Restore(m)
      BY <3>3 DEF WriteStep, Restore, EInv, FInv, JInv, Go, Ends, InHand
    <3> QED
      BY <3>1, <3>2, <3>3
  <2> QED
    BY <2>1, <2>2 DEF InHandKnown
<1>6. Overwrites
  <2>1. \A i \in Files : files'[i] # files[i] => i \in InHand(m)
    BY DEF EInv, FInv, Shape, CheckStep, CheckRestore, WriteStep, Restore, disk, InHand
  <2> QED
    BY <1>2, <2>1 DEF EInv, InHandKnown, Overwrites, Backed, Prepared
<1> QED
  BY <1>1, <1>2, <1>4, <1>5, <1>6 DEF EInv

\* "Concurrent user edits stop rollback instead of being overwritten": a migrator
\* overwrites what the journal holds, or what was written after it compared that file.
THEOREM EditsSurvive == Spec => EditsStand
<1>1. EInv /\ [Next]_vars => EInv' /\ Overwrites
  BY LateStep, IdleHands, HandStep DEF Next
<1>2. EInv /\ [Next]_vars => EInv' /\ [Overwrites]_vars
  BY <1>1
<1> QED
  BY EInit, <1>2, PTL DEF Spec, EditsStand, Overwrites
=================================================================================
