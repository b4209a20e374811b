--------------------------- MODULE ContextMigration ---------------------------
(***************************************************************************)
(* src/src/migration.rs: `ahu migrate` moves the project policy and the    *)
(* context lock from their legacy files to canonical ones.  A journal with *)
(* exact backups is published first; every file is compared before it is   *)
(* touched; a failure, or `--rollback` after a crash, restores the         *)
(* sources.  Users edit the four files at any time, and                    *)
(* `ahu lock --update` (context_lock.rs) rewrites the canonical lock       *)
(* without taking the migration's guard.                                   *)
(*                                                                         *)
(* A policy is its version; a lock is the policy it pins: <<version, file>>.*)
(***************************************************************************)
EXTENDS Naturals, FiniteSets, Sequences

CONSTANTS
    Migrators,      \* `ahu migrate` processes
    MaxEdits,       \* bound on the users' edits
    None

ASSUME MaxEditsNat == MaxEdits \in Nat
ASSUME NoneIsNobody == None \notin Migrators

VARIABLES
    files,      \* the four documents: [text, mode]
    jn,         \* journal.json: [phase, before, after]
    guard,      \* who holds the flock of `guard`
    pc, plan, step,     \* each migrator's place, previewed plan and file
    upc, ulock,         \* `ahu lock --update`: its place and the lock it renders
    edits,      \* how many edits users made
    stray,      \* files that somebody else wrote since the journal was prepared
    late        \* files that somebody else wrote between a migrator's check and its write

disk == <<files, jn, guard>>
local == <<pc, plan, step>>
others == <<upc, ulock, edits>>
vars == <<disk, local, others, stray, late>>

\* PATHS: legacy policy, legacy lock, canonical policy, canonical lock.
Files == 0..3
Versions == {1, 2}
Texts(i) == IF i \in {0, 2} THEN Versions ELSE Versions \X {0, 2}
Absent == [text |-> None, mode |-> None]
Doc(text, mode) == [text |-> text, mode |-> mode]
Docs(i) == {Absent} \cup {Doc(t, m) : t \in Texts(i), m \in {"own", "private"}}

Exists(fs, i) == fs[i] # Absent
PolicyAt(fs) == IF Exists(fs, 0) THEN 0 ELSE 2
LockAt(fs) == IF Exists(fs, 1) THEN 1 ELSE 3

\* LockFile::from_snapshot: the lock that the present context deserves.
Pin(fs) == <<fs[PolicyAt(fs)].text, PolicyAt(fs)>>

-----------------------------------------------------------------------------
\* A project with legacy documents, or with one of them already canonical.
Sources(p, l) ==
    [i \in Files |-> IF i = p THEN Doc(1, "own")
                     ELSE IF i = l THEN Doc(<<1, p>>, "own") ELSE Absent]

Init ==
    /\ files \in {Sources(0, 1), Sources(0, 3), Sources(2, 1)}
    /\ jn = [phase |-> "none", before |-> None, after |-> None] /\ guard = None
    /\ pc = [m \in Migrators |-> "idle"]
    /\ plan = [m \in Migrators |-> None]
    /\ step = [m \in Migrators |-> 1]
    /\ upc = "idle" /\ ulock = None /\ edits = 0
    /\ stray = {} /\ late = {}

Go(m, at) == pc' = [pc EXCEPT ![m] = at]
At(m, i) == step' = [step EXCEPT ![m] = i]

\* The process ends, for whatever reason: the kernel releases its flock.
Ends(m) ==
    /\ Go(m, "idle") /\ At(m, 1)
    /\ plan' = [plan EXCEPT ![m] = None]
    /\ guard' = IF guard = m THEN None ELSE guard

-----------------------------------------------------------------------------
(* Preview and apply.                                                      *)

Backups(fs) == [i \in Files |-> fs[i].text]
Prepared == jn.phase = "prepared"
Phase(p) == jn' = [phase |-> p, before |-> jn.before, after |-> jn.after]

\* Plan::preview: what it refuses, and what it plans.
Plannable ==
    /\ jn.phase # "none" => jn.phase = "rolled-back" /\ Backups(jn.before) = Backups(files)
    /\ ~(Exists(files, 0) /\ Exists(files, 2))
    /\ ~(Exists(files, 1) /\ Exists(files, 3))
    /\ Exists(files, 0) \/ Exists(files, 1)
    /\ Exists(files, PolicyAt(files))
    /\ Exists(files, LockAt(files)) => files[LockAt(files)].text = Pin(files)

Planned ==
    LET v == files[PolicyAt(files)].text
    IN [before |-> files, after |-> [i \in Files |-> CASE i = 2 -> v [] i = 3 -> <<v, 2>> [] OTHER -> None]]

Preview(m) ==
    /\ pc[m] = "idle" /\ Plannable
    /\ plan' = [plan EXCEPT ![m] = Planned]
    /\ Go(m, "planned")
    /\ UNCHANGED <<disk, step, others, stray, late>>

Matches(texts) == \A i \in Files : files[i].text = texts[i]

TakeGuard(m) ==
    /\ pc[m] = "planned"
    /\ IF guard = None /\ Matches(Backups(plan[m].before))
       THEN guard' = m /\ Go(m, "guarded") /\ UNCHANGED <<plan, step>>
       ELSE Ends(m)
    /\ UNCHANGED <<files, jn, others, stray, late>>

\* Everything is checked again under the guard, then the journal is published.
\* Mutated form of Unmoved: the journal of an earlier migration is not looked at.
UnmovedAnyJournal(m) == ~Prepared /\ Matches(Backups(plan[m].before))
Unmoved(m) ==
    /\ ~Prepared /\ Matches(Backups(plan[m].before))
    /\ Plannable
    /\ Planned.after = plan[m].after
    /\ \A i \in Files : files[i].mode = plan[m].before[i].mode

Prepare(m) ==
    /\ pc[m] = "guarded"
    /\ IF Unmoved(m)
       THEN /\ jn' = [phase |-> "prepared", before |-> files, after |-> plan[m].after]
            /\ stray' = {} /\ late' = {}
            /\ Go(m, "step") /\ At(m, 1)
            /\ UNCHANGED <<guard, plan>>
       ELSE Ends(m) /\ UNCHANGED <<jn, stray, late>>
    /\ UNCHANGED <<files, others>>

Order == <<2, 3, 0, 1>>
UndoOrder == <<0, 1, 3, 2>>
Moves(m) == Order[step[m]]
Undoes(m) == UndoOrder[step[m]]

\* The file that a migrator has compared and is about to write.
InHand(m) ==
    IF pc[m] = "write" THEN {Moves(m)}
    ELSE IF pc[m] = "rewrite" THEN {Undoes(m)} ELSE {}

\* What the files should hold before this step.
Expected(m) ==
    [i \in Files |-> IF \E k \in 1..step[m] - 1 : Order[k] = i
                     THEN plan[m].after[i] ELSE plan[m].before[i].text]

\* matches, and the comparison at the head of replace.
\* Mutated form: only the file at hand is compared.
CheckStepBlind(m) ==
    /\ pc[m] = "step" /\ step[m] <= 4
    /\ Go(m, "write") /\ UNCHANGED step
    /\ UNCHANGED <<disk, plan, others, stray, late>>

CheckStep(m) ==
    /\ pc[m] = "step" /\ step[m] <= 4
    /\ IF ~Matches(Expected(m)) THEN Go(m, "undo") /\ UNCHANGED step
       ELSE IF Expected(m)[Moves(m)] = plan[m].after[Moves(m)]
       THEN Go(m, "step") /\ At(m, step[m] + 1)
       ELSE Go(m, "write") /\ UNCHANGED step
    /\ UNCHANGED <<disk, plan, others, stray, late>>

\* A target never replaces a file that appeared (atomic_create), but for the
\* generated lock; a source is removed, unless it has already gone.
WriteStep(m) ==
    LET i == Moves(m)
        target == plan[m].after[i]
        lost == IF target = None THEN ~Exists(files, i)
                ELSE Expected(m)[i] = None /\ Exists(files, i)
    IN /\ pc[m] = "write"
       /\ IF lost
          THEN Go(m, "undo") /\ UNCHANGED <<files, step>>
          ELSE /\ files' = [files EXCEPT ![i] = IF target = None THEN Absent ELSE Doc(target, "private")]
               /\ Go(m, "step") /\ At(m, step[m] + 1)
       /\ late' = late \ {i}
       /\ UNCHANGED <<jn, guard, plan, others, stray>>

Complete(m) ==
    /\ pc[m] = "step" /\ step[m] = 5
    /\ IF Matches(plan[m].after)
       THEN Phase("complete") /\ Ends(m)
       ELSE Go(m, "undo") /\ UNCHANGED <<jn, guard, plan, step>>
    /\ UNCHANGED <<files, others, stray, late>>

\* An I/O error, or HEAD or the context moved meanwhile.
Fails(m) ==
    /\ pc[m] \in {"step", "write"}
    /\ Go(m, "undo") /\ late' = late \ InHand(m)
    /\ UNCHANGED <<disk, plan, step, others, stray>>

-----------------------------------------------------------------------------
(* Rollback: by the failing migration itself, or by `ahu migrate --rollback`. *)

\* Mutated form: the rollback does not ask for the guard.
BeginRollbackUnguarded(m) ==
    /\ pc[m] = "idle"
    /\ Go(m, "undo")
    /\ UNCHANGED <<disk, plan, step, others, stray, late>>

BeginRollback(m) ==
    /\ pc[m] = "idle" /\ guard = None
    /\ guard' = m /\ Go(m, "undo")
    /\ UNCHANGED <<files, jn, plan, step, others, stray, late>>

AfterMode(i) == IF jn.after[i] = None THEN None ELSE "private"

\* The file holds its source or its target, with the mode that goes with it.
Restorable(i) ==
    LET source == jn.before[i]
    IN /\ files[i].text \in {source.text, jn.after[i]}
       /\ source.text # jn.after[i] =>
            files[i].mode = IF files[i].text = source.text THEN source.mode ELSE AfterMode(i)

\* Nothing is written unless every file can be restored.
Validate(m) ==
    /\ pc[m] = "undo"
    /\ IF Prepared /\ \A i \in Files : Restorable(i)
       THEN Go(m, "restore") /\ At(m, 1) /\ UNCHANGED <<guard, plan>>
       ELSE Ends(m)
    /\ UNCHANGED <<files, jn, others, stray, late>>

CheckRestore(m) ==
    LET i == Undoes(m)
    IN /\ pc[m] = "restore" /\ step[m] <= 4
       /\ IF ~Restorable(i) THEN Ends(m)
          ELSE IF files[i].text = jn.before[i].text
          THEN At(m, step[m] + 1) /\ UNCHANGED <<pc, guard, plan>>
          ELSE Go(m, "rewrite") /\ UNCHANGED <<step, guard, plan>>
       /\ UNCHANGED <<files, jn, others, stray, late>>

\* Mutated form: the restored file gets the private mode of every other write.
RestorePrivate(m) ==
    LET i == Undoes(m)
    IN /\ pc[m] = "rewrite"
       /\ files' = [files EXCEPT ![i] = IF jn.before[i] = Absent THEN Absent
                                        ELSE Doc(jn.before[i].text, "private")]
       /\ Go(m, "restore") /\ At(m, step[m] + 1) /\ UNCHANGED <<guard, plan>>
       /\ late' = late \ {i}
       /\ UNCHANGED <<jn, others, stray>>

Restore(m) ==
    LET i == Undoes(m)
        lost == IF jn.before[i] = Absent THEN ~Exists(files, i)
                ELSE jn.after[i] = None /\ Exists(files, i)
    IN /\ pc[m] = "rewrite"
       /\ IF lost THEN Ends(m) /\ UNCHANGED files
          ELSE /\ files' = [files EXCEPT ![i] = jn.before[i]]
               /\ Go(m, "restore") /\ At(m, step[m] + 1) /\ UNCHANGED <<guard, plan>>
       /\ late' = late \ {i}
       /\ UNCHANGED <<jn, others, stray>>

RolledBack(m) ==
    /\ pc[m] = "restore" /\ step[m] = 5
    /\ Phase("rolled-back")
    /\ Ends(m)
    /\ UNCHANGED <<files, others, stray, late>>

\* The process is killed, or gives up on an error outside the rollback.
Lost(m) ==
    /\ pc[m] # "idle"
    /\ Ends(m) /\ late' = late \ InHand(m)
    /\ UNCHANGED <<files, jn, others, stray>>

-----------------------------------------------------------------------------
(* Everybody else.                                                         *)

Touches(i) ==
    /\ stray' = stray \cup {i}
    /\ late' = late \cup ({i} \cap UNION {InHand(m) : m \in Migrators})

\* A user edits, creates, removes or chmods a file.
Edit(i) ==
    /\ edits < MaxEdits /\ edits' = edits + 1
    /\ \E doc \in Docs(i) \ {files[i]} : files' = [files EXCEPT ![i] = doc]
    /\ Touches(i)
    /\ UNCHANGED <<jn, guard, local, upc, ulock>>

\* write_shared_lock: refused while a migration is pending, or for a legacy lock.
StartUpdate ==
    /\ upc = "idle" /\ ~Prepared
    /\ ~Exists(files, 1) /\ Exists(files, PolicyAt(files))
    /\ ulock' = Pin(files) /\ upc' = "render"
    /\ UNCHANGED <<disk, local, edits, stray, late>>

WriteUpdate ==
    /\ upc = "render" /\ upc' = "done"
    /\ files' = [files EXCEPT ![3] = Doc(ulock, "private")]
    /\ Touches(3)
    /\ UNCHANGED <<jn, guard, local, ulock, edits>>

Next ==
    \/ \E m \in Migrators :
          \/ Preview(m) \/ TakeGuard(m) \/ Prepare(m)
          \/ CheckStep(m) \/ WriteStep(m) \/ Complete(m) \/ Fails(m)
          \/ BeginRollback(m) \/ Validate(m)
          \/ CheckRestore(m) \/ Restore(m) \/ RolledBack(m)
          \/ Lost(m)
    \/ \E i \in Files : Edit(i)
    \/ StartUpdate \/ WriteUpdate

Spec == Init /\ [][Next]_vars

-----------------------------------------------------------------------------
(* Properties.                                                             *)

\* A finished journal tells the truth: after `complete` every file holds its
\* target, after `rolled-back` every file holds its source with its mode, but for
\* those that somebody else wrote; whatever crashed, failed or raced.
PhaseTruthful ==
    \A i \in Files \ stray :
        /\ jn.phase = "complete" => files[i].text = jn.after[i]
        /\ jn.phase = "rolled-back" =>
             files[i].text = jn.before[i].text /\ Restorable(i)

\* Wherever a migration or a rollback stops, `ahu migrate --rollback` can restore
\* every file that nobody else wrote: it never calls its own work "ambiguous".
Recoverable == Prepared => \A i \in Files \ stray : Restorable(i)

Backed(i) == jn.phase # "none" /\ files[i].text \in {jn.before[i].text, jn.after[i]}

\* "concurrent user edits stop rollback instead of being overwritten": what a
\* migrator removes or overwrites is in the journal, unless it was written after
\* the migrator compared that very file.
EditsStand ==
    [][\A i \in Files :
         Exists(files, i) /\ files'[i] # files[i] /\ UNCHANGED <<edits, upc>>
             => Backed(i) \/ i \in late]_vars

\* "its backups are preserved": no later migration replaces the backups, and a
\* completed migration is never rolled back, however many migrators run.
JournalKept ==
    [][jn.phase # "none" =>
          /\ Backups(jn'.before) = Backups(jn.before)
          /\ jn.phase = "complete" => jn' = jn]_vars
=============================================================================
