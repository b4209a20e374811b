--------------------------- MODULE PluginStoreProofs ---------------------------
(***************************************************************************)
(* For any number of launches, commands, removals and headless tasks: no   *)
(* package is taken from a task that may need it to close its session, and *)
(* no headless task is live while packages are deleted.                    *)
(***************************************************************************)
EXTENDS PluginStore, TLAPS

\* TypeOK by actor; what a command is doing fits its action, who edits a binding read
\* one, and a launch past the selection has a version.
LaunchTypes ==
    /\ lock \in Launches \cup Commands \cup {None}
    /\ lpc \in [Launches -> {"idle", "select", "worktree", "save", "create", "sent",
                             "rollback", "done", "unknown"}]
    /\ sel \in [Launches -> Versions \cup {None}] /\ worktree \in [Launches -> BOOLEAN]
    /\ rec \in [Launches -> [ver : Versions, live : BOOLEAN] \cup {None}]
    /\ asked \in [Launches -> {"no", "sent", "created", "refused"}]
    /\ session \in [Launches -> {"none", "open", "closed"}]
    /\ \A l \in Launches : lpc[l] \in {"worktree", "save"} => sel[l] \in Versions
DiskTypes ==
    /\ head \in Bindings \cup {None} /\ work \in Bindings \cup {None}
    /\ store \in [Versions -> {"absent", "whole", "partial"}] /\ litter \in BOOLEAN
HeadlessTypes ==
    /\ admission \in Headless \cup Commands \cup {None}
    /\ hrec \in [Headless -> {"absent", "live", "ended"}]
    /\ owner \in [Headless -> Commands \cup {"resume", "supervisor", None}]
CommandTypes ==
    /\ cpc \in [Commands -> {"idle", "lock", "guard", "list", "owners", "check", "delete",
                             "place", "publish", "edit", "write"}]
    /\ action \in [Commands -> Actions \cup {None}]
    /\ base \in [Commands -> Bindings \cup {None}] /\ todo \in [Commands -> SUBSET Headless]
    /\ \A c \in Commands :
          /\ cpc[c] # "idle" => action[c] \in Actions
          /\ cpc[c] # "idle" /\ action[c] # "remove" => base[c] \in Bindings
          /\ cpc[c] \in {"guard", "list", "owners"} => action[c] \in {"disable", "remove"}
          /\ cpc[c] \in {"check", "delete"} => action[c] = "remove"
          /\ cpc[c] \in {"edit", "write"} => action[c] \in {"enable", "disable"}
          /\ cpc[c] \in {"place", "publish"} => action[c] \in {"install", "update"}
RemovalTypes ==
    /\ rpc \in [Removers -> {"idle", "verify", "close", "remove"}]
    /\ task \in [Removers -> Launches \cup {None}]
Typed == LaunchTypes /\ DiskTypes /\ HeadlessTypes /\ CommandTypes /\ RemovalTypes

\* launch.lock is held by whoever is past it.
Locked ==
    /\ \A c \in Commands : cpc[c] \notin {"idle", "lock"} => lock = c
    /\ \A l \in Launches : lpc[l] \notin {"idle", "done", "unknown"} => lock = l

\* The progress of a launch, its request and its session.
Progress ==
    \A l \in Launches :
        /\ lpc[l] \in {"idle", "select", "worktree", "save"} => rec[l] = None
        /\ lpc[l] \in {"idle", "select", "worktree", "save", "create"} => asked[l] = "no"
        /\ lpc[l] = "rollback" => asked[l] \in {"no", "refused"}
        /\ asked[l] # "created" => session[l] = "none"
        /\ asked[l] = "created" => session[l] # "none"
        /\ rec[l] # None /\ ~rec[l].live => session[l] # "none"
        /\ lpc[l] = "create" \/ asked[l] = "sent" \/ session[l] = "open" => rec[l] # None

\* A removal works on a task that has ended, whose session it closes before the record goes.
Removing ==
    \A r \in Removers :
        /\ rpc[r] # "idle" => task[r] \in Launches
        /\ rpc[r] # "idle" /\ task[r] \in Launches => session[task[r]] # "none"
        /\ rpc[r] = "remove" /\ task[r] \in Launches => session[task[r]] = "closed"

\* The version a launch selected, and the one a record names, are whole; nobody has
\* a record when packages may be deleted.
Kept ==
    /\ \A l \in Launches :
        /\ lpc[l] \in {"worktree", "save"} => store[sel[l]] = "whole"
        /\ rec[l] # None => store[rec[l].ver] = "whole"
    /\ \A c \in Commands : cpc[c] \in {"owners", "check", "delete"} =>
        \A l \in Launches : rec[l] = None

PackageInv == Typed /\ Locked /\ Progress /\ Removing /\ Kept

\* A command that cleans up has shut admission, and holds every ended task that it has
\* not still to take.
Cleaning(c) ==
    \/ cpc[c] \in {"list", "owners", "check", "delete"}
    \/ action[c] = "disable" /\ cpc[c] \in {"edit", "write"}
Shut ==
    /\ \A h \in Headless : owner[h] \in {"resume", "supervisor"} => hrec[h] # "absent"
    /\ \A c \in Commands : Cleaning(c) =>
          /\ admission = c
          /\ cpc[c] # "list" => \A h \in Headless :
                \/ cpc[c] = "owners" /\ h \in todo[c]
                \/ hrec[h] = "absent"
                \/ hrec[h] = "ended" /\ owner[h] = c

QuietInv == Typed /\ Shut

-----------------------------------------------------------------------------
\* Who touches what.
LEMMA CommandFrame ==
    ASSUME NEW c \in Commands, CommandStep(c) PROVE UNCHANGED <<launch, host, hrec, removal>>
  BY DEF CommandStep, Begin, TakeLock, Stops, Guard, ListTasks, RetainOwner, CleanupAllowed,
     CheckRemoval, DeleteSome, DeleteDone, Place, Publish, CheckEdit, WriteEdit, launch, host, headless,
     removal

LEMMA LaunchFrame ==
    ASSUME NEW l \in Launches, LaunchStep(l)
    PROVE  UNCHANGED <<policy, disk, admission, session, headless, command, removal>>
  BY DEF LaunchStep, LockLaunch, SelectHost, AddWorktree, SaveRecord, SendRequest, TakeAnswer,
     RollBack, LaunchKilled, host

LEMMA SessionFrame ==
    ASSUME NEW l \in Launches, SessionStep(l)
    PROVE  UNCHANGED <<policy, disk, lock, admission, lpc, sel, headless, command, removal>>
  BY DEF SessionStep, HostAnswers, SessionEnds, RecordEnd, launch

LEMMA RemoverFrame ==
    ASSUME NEW r \in Removers, RemoverStep(r)
    PROVE  UNCHANGED <<policy, disk, lock, admission, lpc, sel, asked, headless, command>>
  BY DEF RemoverStep, LoadTask, VerifyHost, CloseSession, RemoveTask, RemoverStops, launch, host

LEMMA HeadlessFrame ==
    ASSUME NEW h \in Headless, HeadlessStep(h)
    PROVE  UNCHANGED <<policy, disk, lock, launch, host, command, removal>>
  BY DEF HeadlessStep, Admit, Prepare, BeginResume, PublishResume, Supervise, EndAttempt, DropOwner

-----------------------------------------------------------------------------
LEMMA TypedIsTypeOK == Typed => TypeOK
  BY DEF Typed, TypeOK, LaunchTypes, DiskTypes, HeadlessTypes, CommandTypes, RemovalTypes

LEMMA TypedStart == ASSUME Init PROVE Typed
<1>1. LaunchTypes
  BY DEF Init, LaunchTypes
<1>2. DiskTypes
  <2>1. head \in Bindings \cup {None} /\ work = head /\ litter = FALSE
        /\ store = [v \in Versions |-> "absent"]
    BY DEF Init
  <2> QED
    BY <2>1 DEF DiskTypes
<1>3. HeadlessTypes /\ CommandTypes /\ RemovalTypes
  BY DEF Init, HeadlessTypes, CommandTypes, RemovalTypes
<1> QED
  BY <1>1, <1>2, <1>3 DEF Typed

\* A command that ends leaves only what is well typed.
LEMMA LeaveTyped ==
    ASSUME Typed, NEW c \in Commands, Leave(c)
    PROVE  /\ CommandTypes'
           /\ admission' \in Headless \cup Commands \cup {None}
           /\ owner' \in [Headless -> Commands \cup {"resume", "supervisor", None}]
           /\ lock' \in Launches \cup Commands \cup {None}
  BY DEF Typed, Leave, Goto, CommandTypes, HeadlessTypes, LaunchTypes

LEMMA CommandTyped ==
    ASSUME Typed, NEW c \in Commands, CommandStep(c), UNCHANGED <<launch, host, hrec, removal>>
    PROVE  Typed'
<1> USE DEF policy, disk, launch, host, headless, command, removal
<1> DEFINE Kept1 == LaunchTypes' /\ DiskTypes' /\ HeadlessTypes' /\ CommandTypes'
<1> SUFFICES Kept1
  BY DEF Typed, RemovalTypes
<1>1. CASE Begin(c) \/ TakeLock(c)
  BY <1>1 DEF Begin, TakeLock, Goto, Typed, LaunchTypes, DiskTypes, HeadlessTypes, CommandTypes, Actions
<1>2. CASE Stops(c)
  <2>1. LaunchTypes' /\ HeadlessTypes' /\ CommandTypes'
    BY <1>2, LeaveTyped DEF Stops, Typed, LaunchTypes, HeadlessTypes
  <2>2. DiskTypes'
    BY <1>2 DEF Stops, Typed, DiskTypes
  <2> QED
    BY <2>1, <2>2
<1>3. CASE Guard(c) \/ ListTasks(c) \/ RetainOwner(c)
  BY <1>3 DEF Guard, ListTasks, RetainOwner, Goto, Typed, LaunchTypes, DiskTypes, HeadlessTypes, CommandTypes
<1>4. CASE CleanupAllowed(c) \/ CheckRemoval(c) \/ CheckEdit(c) \/ Place(c)
  BY <1>4 DEF CleanupAllowed, CheckRemoval, CheckEdit, Place, Goto, Typed, LaunchTypes, DiskTypes,
     HeadlessTypes, CommandTypes
<1>5. CASE DeleteSome(c)
  <2>1. store' \in [Versions -> {"absent", "whole", "partial"}] /\ litter' \in BOOLEAN
    BY <1>5 DEF DeleteSome, Typed, DiskTypes
  <2> QED
    BY <1>5, <2>1 DEF DeleteSome, Typed, LaunchTypes, DiskTypes, HeadlessTypes, CommandTypes
<1>6. CASE DeleteDone(c) \/ Publish(c) \/ WriteEdit(c)
  <2>1. LaunchTypes' /\ HeadlessTypes' /\ CommandTypes'
    BY <1>6, LeaveTyped DEF DeleteDone, Publish, WriteEdit, Typed, LaunchTypes, HeadlessTypes
  <2>2. CASE DeleteDone(c) \/ Publish(c)
    BY <2>1, <2>2 DEF DeleteDone, Publish, Typed, DiskTypes
  <2>3. CASE WriteEdit(c)
    <3>1. base[c].pin \in Versions
      BY <2>3 DEF WriteEdit, Typed, CommandTypes, Bindings
    <3>2. \A b \in BOOLEAN : [pin |-> base[c].pin, enabled |-> b] \in Bindings
      BY <3>1 DEF Bindings
    <3>3. (action[c] = "enable") \in BOOLEAN
      OBVIOUS
    <3>4. work' \in Bindings
      BY <2>3, <3>2, <3>3, Zenon DEF WriteEdit
    <3>5. DiskTypes'
      BY <2>3, <3>4 DEF WriteEdit, Typed, DiskTypes
    <3> QED
      BY <2>1, <3>5
  <2> QED
    BY <1>6, <2>2, <2>3
<1> QED
  BY <1>1, <1>2, <1>3, <1>4, <1>5, <1>6 DEF CommandStep

LEMMA LaunchTyped ==
    ASSUME Typed, NEW l \in Launches, LaunchStep(l),
           UNCHANGED <<policy, disk, admission, session, headless, command, removal>>
    PROVE  Typed'
<1> USE DEF Moves, Unlock, policy, disk, launch, host, headless, command, removal
<1>1. LaunchTypes' => Typed'
  BY DEF Typed, DiskTypes, HeadlessTypes, CommandTypes, RemovalTypes
<1>2. LaunchTypes /\ head \in Bindings \cup {None}
  BY DEF Typed, DiskTypes
<1>3. CASE LockLaunch(l)
  BY <1>1, <1>2, <1>3 DEF LockLaunch, LaunchTypes
<1>4. CASE SelectHost(l)
  <2>1. head # None => head.pin \in Versions
    BY <1>2 DEF Bindings
  <2> QED
    BY <1>1, <1>2, <1>4, <2>1 DEF SelectHost, LaunchTypes
<1>5. CASE AddWorktree(l)
  BY <1>1, <1>2, <1>5 DEF AddWorktree, LaunchTypes
<1>6. CASE SaveRecord(l)
  <2>1. [ver |-> sel[l], live |-> TRUE] \in [ver : Versions, live : BOOLEAN]
    BY <1>2, <1>6 DEF SaveRecord, LaunchTypes
  <2>2. lpc' = [lpc EXCEPT ![l] = "create"] \/ lpc' = [lpc EXCEPT ![l] = "rollback"]
    BY <1>6 DEF SaveRecord
  <2>3. rec' \in [Launches -> [ver : Versions, live : BOOLEAN] \cup {None}]
    BY <1>2, <1>6, <2>1 DEF SaveRecord, LaunchTypes
  <2>4. LaunchTypes'
    BY <1>2, <1>6, <2>2, <2>3 DEF SaveRecord, LaunchTypes
  <2> QED
    BY <1>1, <2>4
<1>7. CASE SendRequest(l)
  BY <1>1, <1>2, <1>7 DEF SendRequest, LaunchTypes
<1>8. CASE TakeAnswer(l) \/ LaunchKilled(l)
  BY <1>1, <1>2, <1>8 DEF TakeAnswer, LaunchKilled, LaunchTypes
<1>9. CASE RollBack(l)
  BY <1>1, <1>2, <1>9 DEF RollBack, LaunchTypes
<1> QED
  BY <1>3, <1>4, <1>5, <1>6, <1>7, <1>8, <1>9 DEF LaunchStep

LEMMA OthersTyped ==
    ASSUME Typed
    PROVE  /\ EditBinding \/ CommitBinding => Typed'
           /\ \A l \in Launches : SessionStep(l) => Typed'
           /\ \A r \in Removers : RemoverStep(r) => Typed'
           /\ \A h \in Headless : HeadlessStep(h) => Typed'
<1> USE DEF Typed, policy, disk, launch, host, headless, command, removal
<1>1. ASSUME EditBinding \/ CommitBinding PROVE Typed'
  BY <1>1 DEF EditBinding, CommitBinding, LaunchTypes, DiskTypes, HeadlessTypes, CommandTypes, RemovalTypes
<1>2. ASSUME NEW l \in Launches, HostAnswers(l) \/ SessionEnds(l) PROVE Typed'
  BY <1>2 DEF HostAnswers, SessionEnds, LaunchTypes, DiskTypes, HeadlessTypes, CommandTypes, RemovalTypes
<1>3. ASSUME NEW l \in Launches, RecordEnd(l) PROVE Typed'
  <2>1. [ver |-> rec[l].ver, live |-> FALSE] \in [ver : Versions, live : BOOLEAN]
    BY <1>3 DEF RecordEnd, LaunchTypes
  <2> QED
    BY <1>3, <2>1 DEF RecordEnd, LaunchTypes, DiskTypes, HeadlessTypes, CommandTypes, RemovalTypes
<1>4. ASSUME NEW r \in Removers, RemoverStep(r) PROVE Typed'
  <2>1. RemovalTypes'
    BY <1>4 DEF RemoverStep, LoadTask, VerifyHost, CloseSession, RemoveTask, RemoverStops, Rests, RemovalTypes
  <2>2. session' \in [Launches -> {"none", "open", "closed"}]
        /\ rec' \in [Launches -> [ver : Versions, live : BOOLEAN] \cup {None}]
        /\ worktree' \in [Launches -> BOOLEAN]
    BY <1>4 DEF RemoverStep, LoadTask, VerifyHost, CloseSession, RemoveTask, RemoverStops, LaunchTypes
  <2>3. UNCHANGED <<policy, disk, lock, admission, lpc, sel, asked, headless, command>>
    BY <1>4 DEF RemoverStep, LoadTask, VerifyHost, CloseSession, RemoveTask, RemoverStops
  <2> QED
    BY <2>1, <2>2, <2>3 DEF LaunchTypes, DiskTypes, HeadlessTypes, CommandTypes
<1>5. ASSUME NEW h \in Headless, HeadlessStep(h) PROVE Typed'
  BY <1>5 DEF HeadlessStep, Admit, Prepare, BeginResume, PublishResume, Supervise, EndAttempt, DropOwner,
     LaunchTypes, DiskTypes, HeadlessTypes, CommandTypes, RemovalTypes
<1> QED
  BY <1>1, <1>2, <1>3, <1>4, <1>5 DEF SessionStep

LEMMA TypedStep == ASSUME Typed, [Next]_vars PROVE Typed'
<1>1. CASE Next
  <2>1. ASSUME NEW c \in Commands, CommandStep(c), UNCHANGED <<launch, host, hrec, removal>> PROVE Typed'
    BY <2>1, CommandTyped
  <2>2. ASSUME NEW l \in Launches, LaunchStep(l),
               UNCHANGED <<policy, disk, admission, session, headless, command, removal>>
        PROVE  Typed'
    BY <2>2, LaunchTyped
  <2> QED
    BY <1>1, <2>1, <2>2, OthersTyped, CommandFrame, LaunchFrame DEF Next
<1>2. CASE UNCHANGED vars
  BY <1>2 DEF vars, policy, disk, launch, host, headless, command, removal, Typed, LaunchTypes,
     DiskTypes, HeadlessTypes, CommandTypes, RemovalTypes
<1> QED
  BY <1>1, <1>2

-----------------------------------------------------------------------------
\* Headless tasks and a command that cleans up.
LEMMA ShutCommand ==
    ASSUME QuietInv, NEW c \in Commands, CommandStep(c), hrec' = hrec PROVE Shut'
<1> USE KindsDistinct DEF QuietInv, Typed, HeadlessTypes, CommandTypes, Shut, Cleaning, headless, command
<1>1. CASE Begin(c)
  <2>1. ~Cleaning(c)' /\ \A d \in Commands \ {c} : Cleaning(d)' = Cleaning(d)
    BY <1>1 DEF Begin, Goto
  <2> QED
    BY <1>1, <2>1 DEF Begin, Goto
<1>6. CASE TakeLock(c)
  <2>1. cpc'[c] \in {"guard", "edit", "place"} /\ (cpc'[c] = "edit" => action[c] = "enable")
    BY <1>6 DEF TakeLock, Goto, Actions
  <2>2. ~Cleaning(c)' /\ \A d \in Commands \ {c} : cpc'[d] = cpc[d]
    BY <1>6, <2>1 DEF TakeLock, Goto
  <2>3. UNCHANGED <<admission, hrec, owner, action, todo>>
    BY <1>6 DEF TakeLock
  <2> QED
    BY <2>2, <2>3
<1>7. CASE Guard(c)
  BY <1>7 DEF Guard, Goto
<1>2. CASE ListTasks(c)
  BY <1>2 DEF ListTasks, Unreferenced, Goto
<1>3. CASE RetainOwner(c)
  BY <1>3 DEF RetainOwner
<1>4. CASE CleanupAllowed(c) \/ CheckRemoval(c) \/ CheckEdit(c) \/ Place(c) \/ DeleteSome(c)
  BY <1>4 DEF CleanupAllowed, CheckRemoval, CheckEdit, Place, DeleteSome, Goto
<1>5. CASE Leave(c)
  BY <1>5 DEF Leave, Goto
<1> QED
  BY <1>1, <1>2, <1>3, <1>4, <1>5, <1>6, <1>7 DEF CommandStep, Stops, DeleteDone, Publish, WriteEdit

LEMMA ShutHeadless ==
    ASSUME QuietInv, NEW h \in Headless, HeadlessStep(h), UNCHANGED command PROVE Shut'
<1> USE KindsDistinct DEF QuietInv, Typed, HeadlessTypes, CommandTypes, Shut, Cleaning, headless, command
<1>1. CASE Admit(h) \/ Prepare(h)
  BY <1>1 DEF Admit, Prepare
<1>2. CASE BeginResume(h) \/ Supervise(h) \/ DropOwner(h)
  BY <1>2 DEF BeginResume, Supervise, DropOwner
<1>3. CASE PublishResume(h) \/ EndAttempt(h)
  BY <1>3 DEF PublishResume, EndAttempt
<1> QED
  BY <1>1, <1>2, <1>3 DEF HeadlessStep

LEMMA ShutStep == ASSUME QuietInv, [Next]_vars PROVE Shut'
<1>1. ASSUME UNCHANGED <<admission, headless, command>> PROVE Shut'
  BY <1>1 DEF QuietInv, Shut, Cleaning, headless, command
<1>2. CASE EditBinding \/ CommitBinding \/ UNCHANGED vars
  BY <1>1, <1>2 DEF EditBinding, CommitBinding, vars
<1>3. ASSUME NEW c \in Commands, CommandStep(c) PROVE Shut'
  BY <1>3, CommandFrame, ShutCommand
<1>4. ASSUME NEW l \in Launches, LaunchStep(l) \/ SessionStep(l) PROVE Shut'
  BY <1>1, <1>4, LaunchFrame, SessionFrame
<1>5. ASSUME NEW r \in Removers, RemoverStep(r) PROVE Shut'
  BY <1>1, <1>5, RemoverFrame
<1>6. ASSUME NEW h \in Headless, HeadlessStep(h) PROVE Shut'
  BY <1>6, HeadlessFrame, ShutHeadless
<1> QED
  BY <1>2, <1>3, <1>4, <1>5, <1>6 DEF Next

\* Type correctness, for any number of versions, launches, commands and tasks.
THEOREM Types == Spec => []TypeOK
<1>1. Typed /\ [Next]_vars => Typed'
  BY TypedStep
<1> QED
  BY <1>1, TypedStart, TypedIsTypeOK, PTL DEF Spec

\* While a command deletes packages or turns the plugin off, no headless task is live
\* or becomes live (PluginCleanupGuard).
THEOREM HeadlessStaysQuiet == Spec => []HeadlessQuiet
<1>1. Init => QuietInv
  <2>1. Init => Shut
    BY KindsDistinct DEF Init, Shut, Cleaning
  <2> QED
    BY <2>1, TypedStart DEF QuietInv
<1>2. QuietInv /\ [Next]_vars => QuietInv'
  BY TypedStep, ShutStep DEF QuietInv
<1>3. QuietInv => HeadlessQuiet
  <2> SUFFICES ASSUME QuietInv, NEW c \in Commands, NEW h \in Headless,
                      \/ cpc[c] \in {"check", "delete"}
                      \/ action[c] = "disable" /\ cpc[c] \in {"edit", "write"}
               PROVE  hrec[h] # "live"
    BY DEF HeadlessQuiet
  <2> QED
    BY DEF QuietInv, Shut, Cleaning
<1> QED
  BY <1>1, <1>2, <1>3, PTL DEF Spec

-----------------------------------------------------------------------------
\* Launches, sessions and removals against the packages.
LEMMA RecordsAreRecords ==
    \A v \in Versions, b \in BOOLEAN : [ver |-> v, live |-> b] # None
<1>1. \A v \in Versions, b \in BOOLEAN : [ver |-> v, live |-> b] \in [ver : Versions, live : BOOLEAN]
  OBVIOUS
<1> QED
  BY <1>1, NoneIsNoRecord

\* What a launch records, and what becomes of a record when its task ends.
LEMMA NewRecord ==
    ASSUME Typed, NEW l \in Launches, SaveRecord(l)
    PROVE  /\ \A k \in Launches \ {l} : rec'[k] = rec[k]
           /\ rec'[l] = rec[l] \/ (rec'[l] # None /\ rec'[l].ver = sel[l] /\ rec'[l].live)
           /\ lpc'[l] = "create" => rec'[l] # None
           /\ lpc'[l] \in {"create", "rollback"} /\ \A k \in Launches \ {l} : lpc'[k] = lpc[k]
<1>1. sel[l] \in Versions /\ TRUE \in BOOLEAN
  BY DEF SaveRecord, Typed, LaunchTypes
<1>2. CASE rec' = [rec EXCEPT ![l] = [ver |-> sel[l], live |-> TRUE]]
           /\ lpc' \in {[lpc EXCEPT ![l] = "create"], [lpc EXCEPT ![l] = "rollback"]}
  BY <1>1, <1>2, RecordsAreRecords DEF Typed, LaunchTypes
<1>3. CASE rec' = rec /\ lpc' = [lpc EXCEPT ![l] = "rollback"]
  BY <1>3 DEF Typed, LaunchTypes
<1> QED
  BY <1>2, <1>3 DEF SaveRecord, Moves

LEMMA EndedRecord ==
    ASSUME Typed, NEW l \in Launches, RecordEnd(l)
    PROVE  /\ \A k \in Launches \ {l} : rec'[k] = rec[k]
           /\ rec[l] # None /\ rec'[l] # None /\ rec'[l].ver = rec[l].ver /\ session[l] # "none"
<1>1. rec[l].ver \in Versions /\ FALSE \in BOOLEAN
  BY DEF RecordEnd, Typed, LaunchTypes
<1> QED
  BY <1>1, RecordsAreRecords DEF RecordEnd, Typed, LaunchTypes

LEMMA CommandsApart ==
    ASSUME Typed, NEW c \in Commands, CommandStep(c)
    PROVE  \A d \in Commands \ {c} : cpc'[d] = cpc[d]
  BY DEF Typed, CommandTypes, CommandStep, Begin, TakeLock, Stops, Guard, ListTasks, RetainOwner,
     CleanupAllowed, CheckRemoval, DeleteSome, DeleteDone, Place, Publish, CheckEdit, WriteEdit, Leave,
     Goto, command

LEMMA LockStep == ASSUME PackageInv, [Next]_vars PROVE Locked'
<1> USE KindsDistinct DEF PackageInv, Typed, LaunchTypes, CommandTypes, Locked
<1>1. ASSUME UNCHANGED <<cpc, lpc, lock>> PROVE Locked'
  BY <1>1
<1>2. ASSUME NEW c \in Commands, CommandStep(c) PROVE Locked'
  <2>1. lpc' = lpc
    BY <1>2, CommandFrame DEF launch
  <2>2. \A d \in Commands \ {c} : cpc'[d] = cpc[d]
    BY <1>2, CommandsApart
  <2>3. CASE Leave(c)
    BY <2>1, <2>2, <2>3 DEF Leave, Goto
  <2>4. CASE Begin(c)
    BY <2>1, <2>2, <2>4 DEF Begin, Goto
  <2>5. CASE TakeLock(c)
    BY <2>1, <2>2, <2>5 DEF TakeLock
  <2>6. CASE cpc[c] \notin {"idle", "lock"} /\ lock' = lock
    BY <2>1, <2>2, <2>6
  <2> QED
    BY <1>2, <2>3, <2>4, <2>5, <2>6 DEF CommandStep, Stops, Guard, ListTasks, RetainOwner,
       CleanupAllowed, CheckRemoval, DeleteSome, DeleteDone, Place, Publish, CheckEdit, WriteEdit
<1>3. ASSUME NEW l \in Launches, LaunchStep(l) PROVE Locked'
  <2>1. cpc' = cpc /\ \A k \in Launches \ {l} : lpc'[k] = lpc[k]
    BY <1>3, LaunchFrame DEF command, LaunchStep, LockLaunch, SelectHost, AddWorktree, SaveRecord,
       SendRequest, TakeAnswer, RollBack, LaunchKilled, Moves
  <2>2. CASE LockLaunch(l)
    BY <2>1, <2>2 DEF LockLaunch
  <2>3. CASE lpc[l] \notin {"idle", "done", "unknown"} /\ lock' = lock
    BY <2>1, <2>3
  <2>4. CASE lpc'[l] \in {"idle", "done", "unknown"} /\ lpc[l] \notin {"idle", "done", "unknown"} /\ Unlock(l)
    BY <2>1, <2>4 DEF Unlock
  <2> QED
    BY <1>3, <2>2, <2>3, <2>4 DEF LaunchStep, SelectHost, AddWorktree, SaveRecord, SendRequest,
       TakeAnswer, RollBack, LaunchKilled, Moves
<1>4. ASSUME NEW l \in Launches, SessionStep(l) PROVE Locked'
  BY <1>1, <1>4, SessionFrame DEF command
<1>5. ASSUME NEW r \in Removers, RemoverStep(r) PROVE Locked'
  BY <1>1, <1>5, RemoverFrame DEF command
<1>6. ASSUME NEW h \in Headless, HeadlessStep(h) PROVE Locked'
  BY <1>1, <1>6, HeadlessFrame DEF command, launch
<1>7. CASE EditBinding \/ CommitBinding \/ UNCHANGED vars
  BY <1>1, <1>7 DEF EditBinding, CommitBinding, vars, command, launch
<1> QED
  BY <1>2, <1>3, <1>4, <1>5, <1>6, <1>7 DEF Next

\* A launch, a session or a removal makes its way; nobody else touches it.
LEMMA ProgressStep == ASSUME PackageInv, [Next]_vars PROVE Progress' /\ Removing'
<1> USE DEF PackageInv, Typed, LaunchTypes, RemovalTypes, Progress, Removing
<1>1. ASSUME UNCHANGED <<launch, host, removal>> PROVE Progress' /\ Removing'
  BY <1>1 DEF launch, host, removal
<1>2. ASSUME NEW l \in Launches, LaunchStep(l) PROVE Progress' /\ Removing'
  <2>1. UNCHANGED <<session, rpc, task>>
    BY <1>2, LaunchFrame DEF removal
  <2>2. Removing'
    BY <2>1
  <2>3. CASE LockLaunch(l) \/ SelectHost(l) \/ AddWorktree(l)
    BY <2>1, <2>2, <2>3 DEF LockLaunch, SelectHost, AddWorktree, Moves, host
  <2>4. CASE SaveRecord(l)
    <3>1. asked' = asked /\ lpc[l] = "save"
      BY <2>4 DEF SaveRecord, host
    <3> QED
      BY <2>1, <2>2, <3>1, <2>4, NewRecord
  <2>5. CASE SendRequest(l)
    BY <2>1, <2>2, <2>5 DEF SendRequest, Moves, host
  <2>6. CASE TakeAnswer(l) \/ LaunchKilled(l)
    BY <2>1, <2>2, <2>6 DEF TakeAnswer, LaunchKilled, Moves, host
  <2>7. CASE RollBack(l)
    BY <2>1, <2>2, <2>7 DEF RollBack, Moves, host
  <2> QED
    BY <1>2, <2>3, <2>4, <2>5, <2>6, <2>7 DEF LaunchStep
<1>3. ASSUME NEW l \in Launches, SessionStep(l) PROVE Progress' /\ Removing'
  <2>1. CASE HostAnswers(l)
    BY <2>1 DEF HostAnswers, launch, removal
  <2>2. CASE SessionEnds(l)
    BY <2>2 DEF SessionEnds, launch, removal
  <2>3. CASE RecordEnd(l)
    <3>1. UNCHANGED <<lpc, asked, session, rpc, task>>
      BY <2>3 DEF RecordEnd, host, removal
    <3>2. \A k \in Launches : (rec'[k] = None <=> rec[k] = None) /\ (k # l => rec'[k] = rec[k])
      BY <2>3, EndedRecord
    <3>3. session[l] # "none"
      BY <2>3, EndedRecord
    <3> QED
      BY <3>1, <3>2, <3>3
  <2> QED
    BY <1>3, <2>1, <2>2, <2>3 DEF SessionStep
<1>4. ASSUME NEW r \in Removers, RemoverStep(r) PROVE Progress' /\ Removing'
  <2>1. CASE LoadTask(r)
    BY <2>1 DEF LoadTask, launch, host
  <2>2. CASE VerifyHost(r)
    BY <2>2 DEF VerifyHost, launch, host
  <2>3. CASE CloseSession(r)
    BY <2>3 DEF CloseSession, launch
  <2>4. CASE RemoveTask(r)
    BY <2>4 DEF RemoveTask, Rests, host
  <2>5. CASE RemoverStops(r)
    BY <2>5 DEF RemoverStops, Rests, launch, host
  <2> QED
    BY <1>4, <2>1, <2>2, <2>3, <2>4, <2>5 DEF RemoverStep
<1>5. ASSUME NEW c \in Commands, CommandStep(c) PROVE Progress' /\ Removing'
  BY <1>1, <1>5, CommandFrame
<1>6. ASSUME NEW h \in Headless, HeadlessStep(h) PROVE Progress' /\ Removing'
  BY <1>1, <1>6, HeadlessFrame
<1>7. CASE EditBinding \/ CommitBinding \/ UNCHANGED vars
  BY <1>1, <1>7 DEF EditBinding, CommitBinding, vars
<1> QED
  BY <1>2, <1>3, <1>4, <1>5, <1>6, <1>7 DEF Next

\* Packages are deleted only under launch.lock and when nobody has a record; records
\* are made only under launch.lock.
LEMMA KeptStep == ASSUME PackageInv, [Next]_vars PROVE Kept'
<1> USE DEF PackageInv, Typed, LaunchTypes, DiskTypes, CommandTypes, Kept
<1>1. ASSUME UNCHANGED <<store, cpc, launch>> PROVE Kept'
  BY <1>1 DEF launch
<1>2. ASSUME NEW c \in Commands, CommandStep(c) PROVE Kept'
  <2>1. UNCHANGED <<lpc, sel, rec>> /\ \A d \in Commands \ {c} : cpc'[d] = cpc[d]
    BY <1>2, CommandFrame, CommandsApart DEF launch
  <2>2. CASE DeleteSome(c)
    <3>1. \A l \in Launches : rec[l] = None /\ lpc[l] \notin {"worktree", "save"}
      BY <2>2, KindsDistinct DEF DeleteSome, Locked
    <3> QED
      BY <2>1, <2>2, <3>1 DEF DeleteSome, command
  <2>3. CASE Publish(c)
    BY <2>1, <2>3 DEF Publish, Leave, Goto
  <2>4. CASE ListTasks(c)
    BY <2>1, <2>4 DEF ListTasks, Unreferenced, Goto, disk
  <2>5. CASE Leave(c) /\ store' = store
    BY <2>1, <2>5 DEF Leave, Goto
  <2>6. CASE Begin(c) \/ Guard(c) \/ RetainOwner(c) \/ CleanupAllowed(c) \/ CheckRemoval(c)
             \/ Place(c) \/ CheckEdit(c)
    BY <2>1, <2>6 DEF Begin, Guard, RetainOwner, CleanupAllowed, CheckRemoval, Place, CheckEdit, Goto, disk
  <2>7. CASE TakeLock(c)
    <3>1. cpc'[c] \in {"guard", "edit", "place"} /\ store' = store
      BY <2>7 DEF TakeLock, Goto, Actions, disk
    <3> QED
      BY <2>1, <3>1
  <2> QED
    BY <1>2, <2>2, <2>3, <2>4, <2>5, <2>6, <2>7 DEF CommandStep, Stops, DeleteDone, WriteEdit, disk
<1>3. ASSUME NEW l \in Launches, LaunchStep(l) PROVE Kept'
  <2>1. store' = store /\ cpc' = cpc
    BY <1>3, LaunchFrame DEF disk, command
  <2>2. CASE LockLaunch(l) \/ SendRequest(l) \/ TakeAnswer(l) \/ LaunchKilled(l)
    BY <2>1, <2>2 DEF LockLaunch, SendRequest, TakeAnswer, LaunchKilled, Moves
  <2>3. CASE SelectHost(l) \/ AddWorktree(l)
    BY <2>1, <2>3 DEF SelectHost, AddWorktree, Authorized, Moves
  <2>4. CASE SaveRecord(l)
    <3>1. \A c \in Commands : cpc[c] \notin {"owners", "check", "delete"}
      BY <2>4, KindsDistinct DEF SaveRecord, Locked
    <3>2. sel' = sel /\ lpc[l] = "save"
      BY <2>4 DEF SaveRecord
    <3> QED
      BY <2>1, <2>4, <3>1, <3>2, NewRecord
  <2>5. CASE RollBack(l)
    BY <2>1, <2>5 DEF RollBack, Moves
  <2> QED
    BY <1>3, <2>2, <2>3, <2>4, <2>5 DEF LaunchStep
<1>4. ASSUME NEW l \in Launches, SessionStep(l) PROVE Kept'
  <2>1. UNCHANGED <<store, cpc, lpc, sel>>
    BY <1>4, SessionFrame DEF disk, command
  <2>2. \A k \in Launches : /\ rec'[k] = None <=> rec[k] = None
                            /\ rec'[k] # None => rec'[k].ver = rec[k].ver
    <3>1. CASE HostAnswers(l) \/ SessionEnds(l)
      BY <3>1 DEF HostAnswers, SessionEnds, launch
    <3>2. CASE RecordEnd(l)
      BY <3>2, EndedRecord
    <3> QED
      BY <1>4, <3>1, <3>2 DEF SessionStep
  <2> QED
    BY <2>1, <2>2
<1>5. ASSUME NEW r \in Removers, RemoverStep(r) PROVE Kept'
  <2>1. UNCHANGED <<store, cpc, lpc, sel>>
    BY <1>5, RemoverFrame DEF disk, command
  <2>2. \A k \in Launches : rec'[k] \in {rec[k], None}
    BY <1>5 DEF RemoverStep, LoadTask, VerifyHost, CloseSession, RemoveTask, RemoverStops, launch
  <2> QED
    BY <2>1, <2>2
<1>6. ASSUME NEW h \in Headless, HeadlessStep(h) PROVE Kept'
  BY <1>1, <1>6, HeadlessFrame DEF disk, command
<1>7. CASE EditBinding \/ CommitBinding \/ UNCHANGED vars
  BY <1>1, <1>7 DEF EditBinding, CommitBinding, vars, disk, command
<1> QED
  BY <1>2, <1>3, <1>4, <1>5, <1>6, <1>7 DEF Next

\* No removal of the plugin, update or rollback takes from a session its record, or
\* from a record the package that its session is closed with (cleanup_allowed,
\* workspace_creation_failed, remove_cmd).
THEOREM SessionsKeepPackages == Spec => []SessionKeepsPackage
<1>1. Init => PackageInv
  <2> SUFFICES ASSUME Init PROVE Locked /\ Progress /\ Removing /\ Kept
    BY TypedStart DEF PackageInv
  <2> QED
    BY DEF Init, Locked, Progress, Removing, Kept
<1>2. PackageInv /\ [Next]_vars => PackageInv'
  BY TypedStep, LockStep, ProgressStep, KeptStep DEF PackageInv
<1>3. PackageInv => SessionKeepsPackage
  BY DEF PackageInv, Progress, Kept, SessionKeepsPackage
<1> QED
  BY <1>1, <1>2, <1>3, PTL DEF Spec
===============================================================================
