----------------------------- MODULE PluginStore -----------------------------
(***************************************************************************)
(* The packages of one session-host plugin and those who depend on them:   *)
(* `ahu plugins install | update | enable | disable | remove`, the         *)
(* launches of interactive tasks, which freeze the version they were       *)
(* started with and ask its host for a session, `ahu remove TASK`, which   *)
(* needs that very version to close the session, and the headless tasks    *)
(* that a removal counts as possible references.                           *)
(*                                                                         *)
(* The repository's launch.lock orders plugin commands and launches; the   *)
(* headless store has a launch.lock of its own and every headless task an  *)
(* owner.lock.  The project's binding is a committed file that users edit  *)
(* and commit whenever they like.  Every process may stop anywhere.        *)
(***************************************************************************)
EXTENDS FiniteSets

CONSTANTS
    Versions,         \* pins of the package, each with a directory of its own
    Launches,         \* launches that use the plugin, each of one task
    Headless,         \* headless tasks
    Commands,         \* `ahu plugins` processes
    Removers,         \* `ahu remove TASK` processes
    Faults,           \* may a process be killed?
    None

ASSUME KindsDistinct ==
    /\ None \notin Versions \cup Launches \cup Headless \cup Commands \cup Removers
    /\ Launches \cap Commands = {} /\ Headless \cap Commands = {}
    /\ "resume" \notin Commands /\ "supervisor" \notin Commands
    /\ None \notin {"resume", "supervisor"}
ASSUME FaultsIsBoolean == Faults \in BOOLEAN

Bindings == [pin : Versions, enabled : BOOLEAN]
Actions == {"install", "update", "enable", "disable", "remove"}
ASSUME NoneIsNoRecord ==
    None \notin Bindings \cup [ver : Versions, live : BOOLEAN] \cup Actions

VARIABLES
    head, work,       \* the binding as committed and as in the working tree, or None
    store,            \* what the plugins directory holds of each version
    litter,           \* is there an unfinished `.install-*` directory?
    lock,             \* holder of the repository's launch.lock
    admission,        \* holder of the headless store's launch.lock
    \* launches: where each is, the version it froze, its checkout and record
    lpc, sel, worktree, rec,
    \* the session host, an external program: its request, its session
    asked, session,
    \* headless tasks: the recorded state and the holder of owner.lock
    hrec, owner,
    \* plugin commands: where, what, the committed binding read, owners to take
    cpc, action, base, todo,
    \* removals of tasks: where, and which
    rpc, task

policy == <<head, work>>
disk == <<store, litter>>
launch == <<lpc, sel, worktree, rec>>
host == <<asked, session>>
headless == <<hrec, owner>>
command == <<cpc, action, base, todo>>
removal == <<rpc, task>>
vars == <<policy, disk, lock, admission, launch, host, headless, command, removal>>

TypeOK ==
    /\ head \in Bindings \cup {None} /\ work \in Bindings \cup {None}
    /\ store \in [Versions -> {"absent", "whole", "partial"}] /\ litter \in BOOLEAN
    /\ lock \in Launches \cup Commands \cup {None}
    /\ admission \in Headless \cup Commands \cup {None}
    /\ lpc \in [Launches -> {"idle", "select", "worktree", "save", "create", "sent",
                             "rollback", "done", "unknown"}]
    /\ sel \in [Launches -> Versions \cup {None}] /\ worktree \in [Launches -> BOOLEAN]
    /\ rec \in [Launches -> [ver : Versions, live : BOOLEAN] \cup {None}]
    /\ asked \in [Launches -> {"no", "sent", "created", "refused"}]
    /\ session \in [Launches -> {"none", "open", "closed"}]
    /\ hrec \in [Headless -> {"absent", "live", "ended"}]
    /\ owner \in [Headless -> Commands \cup {"resume", "supervisor", None}]
    /\ cpc \in [Commands -> {"idle", "lock", "guard", "list", "owners", "check", "delete",
                             "place", "publish", "edit", "write"}]
    /\ action \in [Commands -> Actions \cup {None}]
    /\ base \in [Commands -> Bindings \cup {None}] /\ todo \in [Commands -> SUBSET Headless]
    /\ rpc \in [Removers -> {"idle", "verify", "close", "remove"}]
    /\ task \in [Removers -> Launches \cup {None}]

\* A project with or without a committed binding; nothing is installed.
Init ==
    /\ head \in Bindings \cup {None} /\ work = head
    /\ store = [v \in Versions |-> "absent"] /\ litter = FALSE
    /\ lock = None /\ admission = None
    /\ lpc = [l \in Launches |-> "idle"] /\ sel = [l \in Launches |-> None]
    /\ worktree = [l \in Launches |-> FALSE] /\ rec = [l \in Launches |-> None]
    /\ asked = [l \in Launches |-> "no"] /\ session = [l \in Launches |-> "none"]
    /\ hrec = [h \in Headless |-> "absent"] /\ owner = [h \in Headless |-> None]
    /\ cpc = [c \in Commands |-> "idle"] /\ action = [c \in Commands |-> None]
    /\ base = [c \in Commands |-> None] /\ todo = [c \in Commands |-> {}]
    /\ rpc = [r \in Removers |-> "idle"] /\ task = [r \in Removers |-> None]

-----------------------------------------------------------------------------
(* Users.                                                                  *)

EditBinding ==
    /\ work' \in Bindings \cup {None}
    /\ UNCHANGED <<head, disk, lock, admission, launch, host, headless, command, removal>>

CommitBinding ==
    /\ head' = work
    /\ UNCHANGED <<work, disk, lock, admission, launch, host, headless, command, removal>>

-----------------------------------------------------------------------------
(* Plugin commands.                                                        *)

Goto(c, step) == cpc' = [cpc EXCEPT ![c] = step]

\* A command ends, is refused or is killed: every lock it holds is free again.
Leave(c) ==
    /\ Goto(c, "idle") /\ action' = [action EXCEPT ![c] = None]
    /\ base' = [base EXCEPT ![c] = None] /\ todo' = [todo EXCEPT ![c] = {}]
    /\ lock' = IF lock = c THEN None ELSE lock
    /\ admission' = IF admission = c THEN None ELSE admission
    /\ owner' = [h \in Headless |-> IF owner[h] = c THEN None ELSE owner[h]]

\* What `run` reads before it waits for the lock: HEAD stays what it is now, for
\* this command; an edit of the policy starts from a clean binding.
Begin(c) ==
    /\ cpc[c] = "idle" /\ Goto(c, "lock")
    /\ \E a \in Actions :
        /\ head # None \/ a = "remove"
        /\ a \in {"enable", "disable", "remove"} => work = head
        /\ action' = [action EXCEPT ![c] = a]
    /\ base' = [base EXCEPT ![c] = head]
    /\ UNCHANGED <<policy, disk, lock, admission, launch, host, headless, todo, removal>>

TakeLock(c) ==
    /\ cpc[c] = "lock" /\ lock = None /\ lock' = c
    /\ Goto(c, CASE action[c] \in {"disable", "remove"} -> "guard"
                 [] action[c] = "enable" -> "edit"
                 [] action[c] \in {"install", "update"} -> "place")
    /\ UNCHANGED <<policy, disk, admission, launch, host, headless, action, base, todo, removal>>

\* Any refusal or error, the ten seconds for the lock included; a kill leaves the
\* directory an installation was staged in, every other end removes it.
Stops(c) ==
    /\ cpc[c] # "idle" /\ (Faults \/ cpc[c] # "delete")
    /\ litter' \in {litter} \cup (IF Faults /\ cpc[c] = "publish" THEN {TRUE} ELSE {})
    /\ Leave(c)
    /\ UNCHANGED <<policy, store, launch, host, hrec, removal>>

\* plugin_cleanup_guard: no headless task is admitted from here on.
Guard(c) ==
    /\ cpc[c] = "guard" /\ admission = None /\ admission' = c /\ Goto(c, "list")
    /\ UNCHANGED <<policy, disk, lock, launch, host, headless, action, base, todo, removal>>

\* Mutated form of Unreferenced: a task that has ended needs its host no more.
UnreferencedEnded ==
    /\ \A l \in Launches : IF rec[l] = None THEN ~worktree[l] ELSE ~rec[l].live
    /\ \A h \in Headless : hrec[h] # "live"

\* No live or unreadable task, and none that names this plugin, whatever it says
\* of its session: then the headless tasks that have ended are to be held.
Unreferenced ==
    /\ \A l \in Launches : rec[l] = None /\ ~worktree[l]
    /\ \A h \in Headless : hrec[h] # "live"

ListTasks(c) ==
    /\ cpc[c] = "list" /\ Unreferenced /\ Goto(c, "owners")
    /\ todo' = [todo EXCEPT ![c] = {h \in Headless : hrec[h] = "ended"}]
    /\ UNCHANGED <<policy, disk, lock, admission, launch, host, headless, action, base, removal>>

\* Mutated form of RetainOwner: the state is not looked at again.
RetainOwnerBlindly(c) ==
    /\ cpc[c] = "owners"
    /\ \E h \in todo[c] :
        /\ owner[h] = None
        /\ owner' = [owner EXCEPT ![h] = c] /\ todo' = [todo EXCEPT ![c] = @ \ {h}]
    /\ UNCHANGED <<policy, disk, lock, admission, launch, host, hrec, cpc, action, base, removal>>

\* retain_terminal_owner: owner.lock is free, and then the task has not become live.
RetainOwner(c) ==
    /\ cpc[c] = "owners"
    /\ \E h \in todo[c] :
        /\ owner[h] = None /\ hrec[h] # "live"
        /\ owner' = [owner EXCEPT ![h] = c] /\ todo' = [todo EXCEPT ![c] = @ \ {h}]
    /\ UNCHANGED <<policy, disk, lock, admission, launch, host, hrec, cpc, action, base, removal>>

CleanupAllowed(c) ==
    /\ cpc[c] = "owners" /\ todo[c] = {}
    /\ Goto(c, IF action[c] = "remove" THEN "check" ELSE "edit")
    /\ UNCHANGED <<policy, disk, lock, admission, launch, host, headless, action, base, todo, removal>>

Disabled(b) == b # None => ~b.enabled

CheckRemoval(c) ==
    /\ cpc[c] = "check" /\ work = base[c] /\ Disabled(base[c])
    /\ Goto(c, "delete")
    /\ UNCHANGED <<policy, disk, lock, admission, launch, host, headless, action, base, todo, removal>>

\* remove_dir_all, in no order that could be relied on.
DeleteSome(c) ==
    /\ cpc[c] = "delete"
    /\ \/ \E v \in Versions :
            /\ store[v] # "absent"
            /\ store' = [store EXCEPT ![v] = IF @ = "whole" THEN "partial" ELSE "absent"]
            /\ litter' = litter
       \/ litter /\ litter' = FALSE /\ store' = store
    /\ UNCHANGED <<policy, lock, admission, launch, host, headless, command, removal>>

DeleteDone(c) ==
    /\ cpc[c] = "delete" /\ ~litter /\ \A v \in Versions : store[v] = "absent"
    /\ Leave(c)
    /\ UNCHANGED <<policy, disk, launch, host, hrec, removal>>

\* A version that is there is verified and left alone; `install` wants an empty store.
Place(c) ==
    /\ cpc[c] = "place" /\ store[base[c].pin] = "absent"
    /\ action[c] = "install" => ~litter /\ \A v \in Versions : store[v] = "absent"
    /\ Goto(c, "publish")
    /\ UNCHANGED <<policy, disk, lock, admission, launch, host, headless, action, base, todo, removal>>

\* The staged directory is renamed to its place when its contents are verified.
Publish(c) ==
    /\ cpc[c] = "publish" /\ store' = [store EXCEPT ![base[c].pin] = "whole"]
    /\ Leave(c)
    /\ UNCHANGED <<policy, litter, launch, host, hrec, removal>>

CheckEdit(c) ==
    /\ cpc[c] = "edit" /\ work = base[c] /\ Goto(c, "write")
    /\ action[c] = "enable" => store[base[c].pin] = "whole"
    /\ UNCHANGED <<policy, disk, lock, admission, launch, host, headless, action, base, todo, removal>>

\* The edited document replaces the working binding, whatever it is by now.
WriteEdit(c) ==
    /\ cpc[c] = "write" /\ work' = [pin |-> base[c].pin, enabled |-> action[c] = "enable"]
    /\ Leave(c)
    /\ UNCHANGED <<head, disk, launch, host, hrec, removal>>

-----------------------------------------------------------------------------
(* Launches.  Everything happens under launch.lock.                        *)

Moves(l, step) == lpc' = [lpc EXCEPT ![l] = step]
Unlock(l) == lock' = IF lock = l THEN None ELSE lock

LockLaunch(l) ==
    /\ lpc[l] = "idle" /\ lock = None /\ lock' = l /\ Moves(l, "select")
    /\ UNCHANGED <<policy, disk, admission, sel, worktree, rec, host, headless, command, removal>>

\* What a host may be activated for: the committed binding allows it now, and the
\* package of this version is whole.
Authorized(v) == head # None /\ head.enabled /\ store[v] = "whole"

SelectHost(l) ==
    /\ lpc[l] = "select"
    /\ \/ /\ head # None /\ Authorized(head.pin)
          /\ sel' = [sel EXCEPT ![l] = head.pin] /\ Moves(l, "worktree") /\ lock' = lock
       \/ sel' = sel /\ Moves(l, "idle") /\ Unlock(l)
    /\ UNCHANGED <<policy, disk, admission, worktree, rec, host, headless, command, removal>>

AddWorktree(l) ==
    /\ lpc[l] = "worktree"
    /\ \/ Moves(l, "save") /\ worktree' = [worktree EXCEPT ![l] = TRUE] /\ UNCHANGED <<sel, lock>>
       \/ /\ Moves(l, "idle") /\ Unlock(l) /\ worktree' = worktree
          /\ sel' = [sel EXCEPT ![l] = None]
    /\ UNCHANGED <<policy, disk, admission, rec, host, headless, command, removal>>

SaveRecord(l) ==
    /\ lpc[l] = "save"
    /\ \/ /\ rec' = [rec EXCEPT ![l] = [ver |-> sel[l], live |-> TRUE]]
          /\ lpc' \in {[lpc EXCEPT ![l] = "create"], [lpc EXCEPT ![l] = "rollback"]}
       \/ rec' = rec /\ Moves(l, "rollback")
    /\ UNCHANGED <<policy, disk, lock, admission, sel, worktree, host, headless, command, removal>>

\* The request is refused before a byte of it is written, or it is written, in part
\* or whole.
SendRequest(l) ==
    /\ lpc[l] = "create"
    /\ \/ Moves(l, "rollback") /\ UNCHANGED <<asked, lock>>
       \/ Moves(l, "unknown") /\ Unlock(l) /\ asked' = asked
       \/ Moves(l, "sent") /\ asked' = [asked EXCEPT ![l] = "sent"] /\ lock' = lock
    /\ UNCHANGED <<policy, disk, admission, sel, worktree, rec, session, headless, command, removal>>

\* Mutated form of TakeAnswer: no answer in time means no session.
TimeoutMeansNone(l) ==
    /\ lpc[l] = "sent"
    /\ \/ asked[l] # "created" /\ Moves(l, "rollback") /\ lock' = lock
       \/ asked[l] = "created" /\ session[l] = "open" /\ Moves(l, "done") /\ Unlock(l)
    /\ UNCHANGED <<policy, disk, admission, sel, worktree, rec, host, headless, command, removal>>

\* Only the host's own word that nothing was created takes the launch back; a late,
\* broken or missing answer, or a session it cannot confirm, keeps everything.
TakeAnswer(l) ==
    /\ lpc[l] = "sent"
    /\ \/ asked[l] = "refused" /\ Moves(l, "rollback") /\ lock' = lock
       \/ asked[l] = "created" /\ session[l] = "open" /\ Moves(l, "done") /\ Unlock(l)
       \/ Moves(l, "unknown") /\ Unlock(l)
    /\ UNCHANGED <<policy, disk, admission, sel, worktree, rec, host, headless, command, removal>>

\* The record goes with its worktree, or without it when Git keeps the worktree.
RollBack(l) ==
    /\ lpc[l] = "rollback" /\ Moves(l, "done") /\ Unlock(l)
    /\ rec' = [rec EXCEPT ![l] = None] /\ sel' = [sel EXCEPT ![l] = None]
    /\ worktree' \in {worktree, [worktree EXCEPT ![l] = FALSE]}
    /\ UNCHANGED <<policy, disk, admission, host, headless, command, removal>>

LaunchKilled(l) ==
    /\ Faults /\ lpc[l] \notin {"idle", "done", "unknown"}
    /\ Moves(l, "unknown") /\ Unlock(l)
    /\ UNCHANGED <<policy, disk, admission, sel, worktree, rec, host, headless, command, removal>>

-----------------------------------------------------------------------------
(* The host, and the task in its session.  A request that reached the host *)
(* may be served when nobody waits for it any more.                        *)

HostAnswers(l) ==
    /\ asked[l] = "sent"
    /\ \/ /\ asked' = [asked EXCEPT ![l] = "created"]
          /\ session' = [session EXCEPT ![l] = "open"]
       \/ asked' = [asked EXCEPT ![l] = "refused"] /\ session' = session
    /\ UNCHANGED <<policy, disk, lock, admission, launch, headless, command, removal>>

SessionEnds(l) ==
    /\ session[l] = "open" /\ session' = [session EXCEPT ![l] = "closed"]
    /\ UNCHANGED <<policy, disk, lock, admission, launch, asked, headless, command, removal>>

\* run-task records an end, or a listing finds that it, or its session, is gone.
RecordEnd(l) ==
    /\ rec[l] # None /\ rec[l].live /\ session[l] # "none"
    /\ rec' = [rec EXCEPT ![l] = [ver |-> rec[l].ver, live |-> FALSE]]
    /\ UNCHANGED <<policy, disk, lock, admission, lpc, sel, worktree, host, headless, command, removal>>

-----------------------------------------------------------------------------
(* ahu remove TASK.  It takes no lock of the repository.                   *)

Rests(r) == rpc' = [rpc EXCEPT ![r] = "idle"] /\ task' = [task EXCEPT ![r] = None]

LoadTask(r) ==
    /\ rpc[r] = "idle" /\ rpc' = [rpc EXCEPT ![r] = "verify"]
    /\ \E l \in Launches : /\ rec[l] # None /\ ~rec[l].live
                           /\ task' = [task EXCEPT ![r] = l]
    /\ UNCHANGED <<policy, disk, lock, admission, launch, host, headless, command>>

\* The recorded host is verified; its executable is copied before it is started.
VerifyHost(r) ==
    /\ rpc[r] = "verify" /\ Authorized(sel[task[r]])
    /\ rpc' = [rpc EXCEPT ![r] = "close"] /\ task' = task
    /\ UNCHANGED <<policy, disk, lock, admission, launch, host, headless, command>>

\* recorded_session: the host says that the session is this task's, or that it is gone.
CloseSession(r) ==
    /\ rpc[r] = "close" /\ rpc' = [rpc EXCEPT ![r] = "remove"] /\ task' = task
    /\ session' = IF session[task[r]] = "open" THEN [session EXCEPT ![task[r]] = "closed"]
                                               ELSE session
    /\ UNCHANGED <<policy, disk, lock, admission, launch, asked, headless, command>>

RemoveTask(r) ==
    /\ rpc[r] = "remove" /\ Rests(r)
    /\ rec' = [rec EXCEPT ![task[r]] = None] /\ worktree' = [worktree EXCEPT ![task[r]] = FALSE]
    /\ UNCHANGED <<policy, disk, lock, admission, lpc, sel, host, headless, command>>

\* A refusal, a failing host, a worktree that Git keeps, a kill.
RemoverStops(r) ==
    /\ rpc[r] # "idle" /\ Rests(r)
    /\ UNCHANGED <<policy, disk, lock, admission, launch, host, headless, command>>

-----------------------------------------------------------------------------
(* Headless tasks, as far as a cleanup meets them.                         *)

Admit(h) ==
    /\ hrec[h] = "absent" /\ admission = None /\ admission' = h
    /\ UNCHANGED <<policy, disk, lock, launch, host, headless, command, removal>>

\* The launch records its task under the store's launch.lock, or gives up.
Prepare(h) ==
    /\ admission = h /\ admission' = None
    /\ hrec' \in {hrec, [hrec EXCEPT ![h] = "live"]}
    /\ UNCHANGED <<policy, disk, lock, launch, host, owner, command, removal>>

\* resume holds owner.lock while it publishes the new attempt.
BeginResume(h) ==
    /\ hrec[h] = "ended" /\ owner[h] = None /\ owner' = [owner EXCEPT ![h] = "resume"]
    /\ UNCHANGED <<policy, disk, lock, admission, launch, host, hrec, command, removal>>

PublishResume(h) ==
    /\ owner[h] = "resume" /\ hrec' = [hrec EXCEPT ![h] = "live"]
    /\ UNCHANGED <<policy, disk, lock, admission, launch, host, owner, command, removal>>

Supervise(h) ==
    /\ hrec[h] = "live" /\ owner[h] = None /\ owner' = [owner EXCEPT ![h] = "supervisor"]
    /\ UNCHANGED <<policy, disk, lock, admission, launch, host, hrec, command, removal>>

EndAttempt(h) ==
    /\ owner[h] = "supervisor" /\ hrec' = [hrec EXCEPT ![h] = "ended"]
    /\ UNCHANGED <<policy, disk, lock, admission, launch, host, owner, command, removal>>

DropOwner(h) ==
    /\ owner[h] \in {"resume", "supervisor"} /\ owner' = [owner EXCEPT ![h] = None]
    /\ UNCHANGED <<policy, disk, lock, admission, launch, host, hrec, command, removal>>

-----------------------------------------------------------------------------
CommandStep(c) ==
    \/ Begin(c) \/ TakeLock(c) \/ Stops(c) \/ Guard(c) \/ ListTasks(c) \/ RetainOwner(c)
    \/ CleanupAllowed(c) \/ CheckRemoval(c) \/ DeleteSome(c) \/ DeleteDone(c) \/ Place(c)
    \/ Publish(c) \/ CheckEdit(c) \/ WriteEdit(c)

LaunchStep(l) ==
    \/ LockLaunch(l) \/ SelectHost(l) \/ AddWorktree(l) \/ SaveRecord(l) \/ SendRequest(l)
    \/ TakeAnswer(l) \/ RollBack(l) \/ LaunchKilled(l)

SessionStep(l) == HostAnswers(l) \/ SessionEnds(l) \/ RecordEnd(l)

RemoverStep(r) ==
    LoadTask(r) \/ VerifyHost(r) \/ CloseSession(r) \/ RemoveTask(r) \/ RemoverStops(r)

HeadlessStep(h) ==
    \/ Admit(h) \/ Prepare(h) \/ BeginResume(h) \/ PublishResume(h)
    \/ Supervise(h) \/ EndAttempt(h) \/ DropOwner(h)

Next ==
    \/ EditBinding \/ CommitBinding
    \/ \E c \in Commands : CommandStep(c)
    \/ \E l \in Launches : LaunchStep(l) \/ SessionStep(l)
    \/ \E r \in Removers : RemoverStep(r)
    \/ \E h \in Headless : HeadlessStep(h)

Spec == Init /\ [][Next]_vars

-----------------------------------------------------------------------------
\* A session that the host may still run has its task's record, also when the
\* launcher never learned of it; and as long as there is a record, the very version
\* it names is whole in the store, so that the session can be closed. No removal of
\* the plugin, no update and no rollback takes either away.
SessionKeepsPackage ==
    \A l \in Launches :
        /\ session[l] = "open" => rec[l] # None
        /\ rec[l] # None => store[rec[l].ver] = "whole"

\* "a concurrent resume must fail or finish publishing its live state before cleanup
\* proceeds": while a command deletes packages or turns the plugin off, no headless
\* task is live or becomes live.
HeadlessQuiet ==
    \A c \in Commands :
        (cpc[c] \in {"check", "delete"} \/ (action[c] = "disable" /\ cpc[c] \in {"edit", "write"}))
            => \A h \in Headless : hrec[h] # "live"
=============================================================================
