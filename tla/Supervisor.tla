----------------------------- MODULE Supervisor -----------------------------
(***************************************************************************)
(* The service supervisor (mac-mgmt-services/src/server.rs): a long-lived  *)
(* process whose main loop serves one request at a time and which runs one *)
(* asynchronous task per registered service.  A task spawns the child      *)
(* process of its service, waits for it, respawns it after RESPAWN_DELAY   *)
(* when it exits, and kills it when told to stop.  On UpdateSelf the       *)
(* supervisor writes the pids of its children to a file, re-executes its   *)
(* own binary, and the new image adopts the children listed in the file.   *)
(*                                                                         *)
(* The tasks run on a multi-threaded executor: a task step is one stretch  *)
(* of code between two points where another thread can observe it, so      *)
(* "the child exists" and "its pid is published" are two steps.            *)
(*                                                                         *)
(* A request that changes nothing (an unknown name, a Register with the    *)
(* spec already running, List) is answered at once and is no step here;    *)
(* how answers travel back to the daemon is the subject of SupervisorRpc.  *)
(***************************************************************************)

CONSTANTS
    Names,    \* service names
    Specs,    \* spawn specifications (program, args, env)
    Pids,     \* process ids the operating system can hand out
    TaskIds,  \* identities of service tasks
    None,     \* the absent value of an Option
    WriteMayFail  \* whether writing the state file can fail

ASSUME NoneAssumption == None \notin Names \cup Specs \cup Pids \cup TaskIds
ASSUME WriteMayFailAssumption == WriteMayFail \in BOOLEAN

VARIABLES
    proc,     \* operating system: the process table
    task,     \* the spawned service tasks
    entry,    \* SupervisorState.services
    mpc,      \* where the main loop is
    cur,      \* the request the main loop is awaiting a task for
    drain,    \* tasks shutdown_all still has to stop
    file,     \* the re-exec state file on disk
    todo      \* the parsed file, while run() adopts from it

vars == <<proc, task, entry, mpc, cur, drain, file, todo>>

-----------------------------------------------------------------------------
(* The shape of the state. *)

NoProc == [st |-> "free", name |-> None, spec |-> None]

Proc == [st: {"free", "running", "zombie"},
         name: Names \cup {None}, spec: Specs \cup {None}]

\* Task positions.  "spawned", "reaped" and "stopReaped" are the moments in
\* which the child table and the published pid disagree.
TaskPc == {"free", "spawn", "spawned", "wait", "stopping", "reaped",
           "stopReaped", "backoff", "adopted", "adoptedStop", "done"}

\* The parameters and locals of run_service / monitor_adopted: `child` is the
\* Child handle (or adopted_pid), `pid` the shared AtomicU32, `stop` a message
\* waiting in stop_rx.
Task == [pc: TaskPc, name: Names \cup {None}, spec: Specs \cup {None},
         child: Pids \cup {None}, pid: Pids \cup {None}, stop: BOOLEAN]

NoTask == [pc |-> "free", name |-> None, spec |-> None,
           child |-> None, pid |-> None, stop |-> FALSE]

NewTask(n, s) == [pc |-> "spawn", name |-> n, spec |-> s,
                  child |-> None, pid |-> None, stop |-> FALSE]

AdoptedTask(n, s, p) == [pc |-> "adopted", name |-> n, spec |-> s,
                         child |-> p, pid |-> p, stop |-> FALSE]

\* struct Entry.  `task` is None once stop_svc has taken the JoinHandle.
Entry == [spec: Specs, task: TaskIds \cup {None}, stopped: BOOLEAN]

\* Option<Entry>: the absent value is not an entry.
ASSUME NoEntryAssumption == None \notin Entry

Running(s, t) == [spec |-> s, task |-> t, stopped |-> FALSE]

\* The request whose handler is suspended on `supervisor.await`.
Request == [op: {"none", "register", "unregister", "stop", "restart", "shutdown"},
            name: Names \cup {None}, spec: Specs \cup {None},
            task: TaskIds \cup {None}]

NoRequest == [op |-> "none", name |-> None, spec |-> None, task |-> None]

SavedService == [name: Names, spec: Specs, pid: Pids]

TypeOK ==
    /\ proc \in [Pids -> Proc]
    /\ task \in [TaskIds -> Task]
    /\ entry \in [Names -> Entry \cup {None}]
    /\ mpc \in {"down", "boot", "idle", "join", "saved", "teardown"}
    /\ cur \in Request
    /\ drain \subseteq TaskIds
    /\ file \subseteq SavedService
    /\ todo \subseteq SavedService

-----------------------------------------------------------------------------
(* The operating system. *)

Alive(p) == proc[p].st # "free"

\* Pids some live variable or the handoff file still refers to.
Referenced(p) ==
    \/ \E t \in TaskIds : p \in {task[t].child, task[t].pid}
    \/ \E sv \in file \cup todo : sv.pid = p

\* A pid is not recycled while the supervisor still holds it: the windows in
\* which it holds the pid of a reaped process are microseconds long.
FreshPid(p) == ~Alive(p) /\ ~Referenced(p)

\* A child exits or crashes on its own, or on a signal it was sent.
ProcExit(p) ==
    /\ proc[p].st = "running"
    /\ proc' = [proc EXCEPT ![p].st = "zombie"]
    /\ UNCHANGED <<task, entry, mpc, cur, drain, file, todo>>

-----------------------------------------------------------------------------
(* run_service: the task of one service. *)

\* spawn_child succeeds; the pid is not published yet.
TaskSpawn(t) ==
    /\ task[t].pc = "spawn"
    /\ \E p \in Pids :
         /\ FreshPid(p)
         /\ proc' = [proc EXCEPT ![p] = [st |-> "running",
                                         name |-> task[t].name,
                                         spec |-> task[t].spec]]
         /\ task' = [task EXCEPT ![t].pc = "spawned", ![t].child = p]
    /\ UNCHANGED <<entry, mpc, cur, drain, file, todo>>

\* spawn_child fails: a Crashed notification, then the respawn delay.
TaskSpawnFails(t) ==
    /\ task[t].pc = "spawn"
    /\ task' = [task EXCEPT ![t].pc = "backoff"]
    /\ UNCHANGED <<proc, entry, mpc, cur, drain, file, todo>>

\* pid.store(child.id()).
TaskStorePid(t) ==
    /\ task[t].pc = "spawned"
    /\ task' = [task EXCEPT ![t].pc = "wait", ![t].pid = task[t].child]
    /\ UNCHANGED <<proc, entry, mpc, cur, drain, file, todo>>

\* wait_child: child.wait() returns, which reaps the child.
TaskChildExited(t) ==
    /\ task[t].pc = "wait"
    /\ proc[task[t].child].st = "zombie"
    /\ proc' = [proc EXCEPT ![task[t].child] = NoProc]
    /\ task' = [task EXCEPT ![t].pc = "reaped"]
    /\ UNCHANGED <<entry, mpc, cur, drain, file, todo>>

\* wait_child: stop_rx.recv() returns; stop_child sends SIGTERM.
TaskStopRequested(t) ==
    /\ task[t].pc = "wait"
    /\ task[t].stop
    /\ task' = [task EXCEPT ![t].pc = "stopping", ![t].stop = FALSE]
    /\ UNCHANGED <<proc, entry, mpc, cur, drain, file, todo>>

\* stop_child: try_wait finds the child exited within STOP_GRACE.
TaskStopTryWait(t) ==
    /\ task[t].pc = "stopping"
    /\ proc[task[t].child].st = "zombie"
    /\ proc' = [proc EXCEPT ![task[t].child] = NoProc]
    /\ task' = [task EXCEPT ![t].pc = "stopReaped"]
    /\ UNCHANGED <<entry, mpc, cur, drain, file, todo>>

\* stop_child: STOP_GRACE is over; kill() and wait() for the child.
TaskStopKill(t) ==
    /\ task[t].pc = "stopping"
    /\ proc[task[t].child].st = "running"
    /\ proc' = [proc EXCEPT ![task[t].child] = NoProc]
    /\ task' = [task EXCEPT ![t].pc = "stopReaped"]
    /\ UNCHANGED <<entry, mpc, cur, drain, file, todo>>

\* Mutant: the published pid is not cleared when the child is gone.
TaskClearPidKeeps(t) ==
    /\ task[t].pc \in {"reaped", "stopReaped"}
    /\ task' = [task EXCEPT ![t].pc = IF @ = "reaped" THEN "backoff" ELSE "done",
                            ![t].child = None]
    /\ UNCHANGED <<proc, entry, mpc, cur, drain, file, todo>>

\* pid.store(0) after the wait; a stopped task returns, an exited child is
\* announced as Crashed and its task enters the respawn delay.
TaskClearPid(t) ==
    /\ task[t].pc \in {"reaped", "stopReaped"}
    /\ task' = [task EXCEPT ![t].pc = IF @ = "reaped" THEN "backoff" ELSE "done",
                            ![t].child = None, ![t].pid = None]
    /\ UNCHANGED <<proc, entry, mpc, cur, drain, file, todo>>

\* RESPAWN_DELAY elapses: back to the top of the loop.  A stop message that
\* is already waiting is received first; one that arrives together with the
\* end of the delay commutes with this step.
TaskRespawn(t) ==
    /\ task[t].pc = "backoff"
    /\ ~task[t].stop
    /\ task' = [task EXCEPT ![t].pc = "spawn"]
    /\ UNCHANGED <<proc, entry, mpc, cur, drain, file, todo>>

\* Mutant: the respawn delay swallows the stop message.
TaskBackoffSwallowsStop(t) ==
    /\ task[t].pc = "backoff"
    /\ task[t].stop
    /\ task' = [task EXCEPT ![t].pc = "spawn", ![t].stop = FALSE]
    /\ UNCHANGED <<proc, entry, mpc, cur, drain, file, todo>>

\* A stop request received during the respawn delay ends the task.
TaskBackoffStop(t) ==
    /\ task[t].pc = "backoff"
    /\ task[t].stop
    /\ task' = [task EXCEPT ![t].pc = "done", ![t].stop = FALSE]
    /\ UNCHANGED <<proc, entry, mpc, cur, drain, file, todo>>

\* monitor_adopted: reap_if_exited reaps the adopted child, or waitpid finds
\* no such child; both count as an exit.
AdoptedExited(t) ==
    /\ task[t].pc = "adopted"
    /\ proc[task[t].child].st # "running"
    /\ proc' = [proc EXCEPT ![task[t].child] = NoProc]
    /\ task' = [task EXCEPT ![t].pc = "reaped"]
    /\ UNCHANGED <<entry, mpc, cur, drain, file, todo>>

\* monitor_adopted: a stop request arrives; SIGTERM, then five seconds' grace.
AdoptedStopRequested(t) ==
    /\ task[t].pc = "adopted"
    /\ task[t].stop
    /\ task' = [task EXCEPT ![t].pc = "adoptedStop", ![t].stop = FALSE]
    /\ UNCHANGED <<proc, entry, mpc, cur, drain, file, todo>>

\* monitor_adopted: the child is reaped, by force when it is still running.
AdoptedStopReap(t) ==
    /\ task[t].pc = "adoptedStop"
    /\ proc' = [proc EXCEPT ![task[t].child] = NoProc]
    /\ task' = [task EXCEPT ![t].pc = "stopReaped"]
    /\ UNCHANGED <<entry, mpc, cur, drain, file, todo>>

-----------------------------------------------------------------------------
(* Requests.  The main loop serves the next one only when it is idle. *)

FreeTask(t) == task[t].pc = "free"

Registered(n) == entry[n] # None
Stopped(n) == Registered(n) /\ entry[n].stopped
Active(n) == Registered(n) /\ ~entry[n].stopped

\* The pid List and Kill read from an entry: a task returns only after it has
\* stored 0, so an entry without a task has none.
EntryPid(n) ==
    IF Registered(n) /\ entry[n].task # None
    THEN task[entry[n].task].pid
    ELSE None

\* Send the stop message to task t and suspend the handler on its JoinHandle.
AwaitStop(t, req) ==
    /\ task' = [task EXCEPT ![t].stop = TRUE]
    /\ mpc' = "join"
    /\ cur' = req

\* tokio::spawn(run_service(..)) and the insertion of the entry.
Launch(n, s, e) ==
    \E t \in TaskIds :
        /\ FreeTask(t)
        /\ task' = [task EXCEPT ![t] = NewTask(n, s)]
        /\ entry' = [e EXCEPT ![n] = Running(s, t)]

\* register: unknown name, or a stopped entry with another spec (which
\* unregister removes without awaiting anything).
RegisterNew(n, s) ==
    /\ mpc = "idle"
    /\ ~Registered(n) \/ (Stopped(n) /\ entry[n].spec # s)
    /\ Launch(n, s, entry)
    /\ UNCHANGED <<proc, mpc, cur, drain, file, todo>>

\* Mutant: the new task is launched without awaiting the old one.
RegisterChangedNoWait(n, s) ==
    /\ mpc = "idle"
    /\ Active(n) /\ entry[n].spec # s
    /\ \E t \in TaskIds :
         /\ FreeTask(t)
         /\ task' = [task EXCEPT ![entry[n].task].stop = TRUE, ![t] = NewTask(n, s)]
         /\ entry' = [entry EXCEPT ![n] = Running(s, t)]
    /\ UNCHANGED <<proc, mpc, cur, drain, file, todo>>

\* register: the spec changed while the service runs; unregister it first.
RegisterChanged(n, s) ==
    /\ mpc = "idle"
    /\ Active(n) /\ entry[n].spec # s
    /\ entry' = [entry EXCEPT ![n] = None]
    /\ AwaitStop(entry[n].task, [op |-> "register", name |-> n, spec |-> s,
                                 task |-> entry[n].task])
    /\ UNCHANGED <<proc, drain, file, todo>>

\* start_svc, reached by Start, by Register with the stored spec and by
\* Restart of a stopped service.
StartSvc(n) ==
    /\ mpc = "idle"
    /\ Stopped(n)
    /\ Launch(n, entry[n].spec, entry)
    /\ UNCHANGED <<proc, mpc, cur, drain, file, todo>>

\* Mutant: the entry is forgotten and the answer sent before the task ends.
UnregisterRunningNoWait(n) ==
    /\ mpc = "idle"
    /\ Active(n)
    /\ entry' = [entry EXCEPT ![n] = None]
    /\ task' = [task EXCEPT ![entry[n].task].stop = TRUE]
    /\ UNCHANGED <<proc, mpc, cur, drain, file, todo>>

\* unregister of a service whose task has to be awaited.
UnregisterRunning(n) ==
    /\ mpc = "idle"
    /\ Active(n)
    /\ entry' = [entry EXCEPT ![n] = None]
    /\ AwaitStop(entry[n].task, [op |-> "unregister", name |-> n, spec |-> None,
                                 task |-> entry[n].task])
    /\ UNCHANGED <<proc, drain, file, todo>>

\* unregister of a stopped entry.
UnregisterStopped(n) ==
    /\ mpc = "idle"
    /\ Stopped(n)
    /\ entry' = [entry EXCEPT ![n] = None]
    /\ UNCHANGED <<proc, task, mpc, cur, drain, file, todo>>

\* stop_svc and the first half of restart_svc: stop_tx and the JoinHandle are
\* taken out of the entry, the lock is dropped and the task awaited.
StopSvc(n, op) ==
    /\ mpc = "idle"
    /\ Active(n)
    /\ entry' = [entry EXCEPT ![n].task = None]
    /\ AwaitStop(entry[n].task, [op |-> op, name |-> n, spec |-> entry[n].spec,
                                 task |-> entry[n].task])
    /\ UNCHANGED <<proc, drain, file, todo>>

\* kill_svc with a fatal signal, sent to the published pid.
KillSvc(n) ==
    /\ mpc = "idle"
    /\ EntryPid(n) # None
    /\ proc[EntryPid(n)].st = "running"
    /\ proc' = [proc EXCEPT ![EntryPid(n)].st = "zombie"]
    /\ UNCHANGED <<task, entry, mpc, cur, drain, file, todo>>

\* Mutant: the JoinHandle is dropped instead of awaited.
JoinedEarly(op) ==
    /\ mpc = "join"
    /\ cur.op = op

\* The awaited task has returned: the JoinHandle is consumed.
Joined(op) ==
    /\ mpc = "join"
    /\ cur.op = op
    /\ task[cur.task].pc = "done"

JoinUnregister ==
    /\ Joined("unregister")
    /\ task' = [task EXCEPT ![cur.task] = NoTask]
    /\ mpc' = "idle"
    /\ cur' = NoRequest
    /\ UNCHANGED <<proc, entry, drain, file, todo>>

JoinStop ==
    /\ Joined("stop")
    /\ task' = [task EXCEPT ![cur.task] = NoTask]
    /\ entry' = [entry EXCEPT ![cur.name].stopped = TRUE]
    /\ mpc' = "idle"
    /\ cur' = NoRequest
    /\ UNCHANGED <<proc, drain, file, todo>>

\* Mutant: the new task is given the spec of the old one.
JoinLaunchOldSpec ==
    /\ Joined("register") \/ Joined("restart")
    /\ task' = [task EXCEPT ![cur.task] = NewTask(cur.name, @.spec)]
    /\ entry' = [entry EXCEPT ![cur.name] = Running(cur.spec, cur.task)]
    /\ mpc' = "idle"
    /\ cur' = NoRequest
    /\ UNCHANGED <<proc, drain, file, todo>>

\* The second half of register with a changed spec, and of restart_svc.
JoinLaunch ==
    /\ Joined("register") \/ Joined("restart")
    /\ task' = [task EXCEPT ![cur.task] = NewTask(cur.name, cur.spec)]
    /\ entry' = [entry EXCEPT ![cur.name] = Running(cur.spec, cur.task)]
    /\ mpc' = "idle"
    /\ cur' = NoRequest
    /\ UNCHANGED <<proc, drain, file, todo>>

-----------------------------------------------------------------------------
(* Leaving: shutdown, re-exec, crash. *)

\* Mutant: only services with a published pid are stopped.
ShutdownPublished ==
    /\ mpc = "idle"
    /\ mpc' = "teardown"
    /\ drain' = {entry[n].task : n \in {m \in Names : EntryPid(m) # None}}
    /\ entry' = [n \in Names |-> None]
    /\ UNCHANGED <<proc, task, cur, file, todo>>

\* A Shutdown request or SIGTERM/SIGINT: the map is drained at once, the
\* tasks are then stopped one after the other.
Shutdown ==
    /\ mpc = "idle"
    /\ mpc' = "teardown"
    /\ drain' = {entry[n].task : n \in {m \in Names : Registered(m)}} \ {None}
    /\ entry' = [n \in Names |-> None]
    /\ UNCHANGED <<proc, task, cur, file, todo>>

TeardownNext ==
    /\ mpc = "teardown"
    /\ \E t \in drain :
         /\ drain' = drain \ {t}
         /\ AwaitStop(t, [op |-> "shutdown", name |-> None, spec |-> None,
                          task |-> t])
    /\ UNCHANGED <<proc, entry, file, todo>>

JoinTeardown ==
    /\ Joined("shutdown")
    /\ task' = [task EXCEPT ![cur.task] = NoTask]
    /\ mpc' = "teardown"
    /\ cur' = NoRequest
    /\ UNCHANGED <<proc, entry, drain, file, todo>>

\* run() returns; the OS unit restarts the supervisor (Restart=always).
Exit ==
    /\ mpc = "teardown"
    /\ drain = {}
    /\ mpc' = "down"
    /\ UNCHANGED <<proc, task, entry, cur, drain, file, todo>>

\* Mutant: names and pids are collected in two passes and paired wrongly.
SavedStateMixed ==
    {sv \in SavedService :
        /\ Registered(sv.name)
        /\ entry[sv.name].spec = sv.spec
        /\ \E m \in Names : EntryPid(m) = sv.pid}

\* What save_state_for_reexec collects: the entries with a published pid.
SavedState ==
    {sv \in SavedService :
        /\ Registered(sv.name)
        /\ entry[sv.name].spec = sv.spec
        /\ EntryPid(sv.name) = sv.pid}

\* UpdateSelf with a changed binary.  A failed write is only logged; one that
\* fails half way leaves a file BootUnread meets.
SaveStateForReexec ==
    /\ mpc = "idle"
    /\ \/ file' = SavedState
       \/ WriteMayFail /\ file' = file
    /\ mpc' = "saved"
    /\ UNCHANGED <<proc, task, entry, cur, drain, todo>>

\* abort_all_tasks and execv: the process image and its tasks are gone, the
\* children stay.  Until the exec, tasks on other threads keep running.
Reexec ==
    /\ mpc = "saved"
    /\ task' = [t \in TaskIds |-> NoTask]
    /\ entry' = [n \in Names |-> None]
    /\ mpc' = "down"
    /\ UNCHANGED <<proc, cur, drain, file, todo>>

\* run() starts: the state file is read and removed.  The removal succeeds: the
\* socket has just been bound in the same directory.
Boot ==
    /\ mpc = "down"
    /\ todo' = file
    /\ file' = {}
    /\ mpc' = "boot"
    /\ UNCHANGED <<proc, task, entry, cur, drain>>

\* The file is there but cannot be read, or does not parse: it is removed all
\* the same, and nothing is adopted.
BootUnread ==
    /\ mpc = "down"
    /\ file # {}
    /\ todo' = {}
    /\ file' = {}
    /\ mpc' = "boot"
    /\ UNCHANGED <<proc, task, entry, cur, drain>>

\* adopt: signal 0 probes the pid; a zombie still answers.
Adopt(sv) ==
    /\ mpc = "boot"
    /\ sv \in todo
    /\ Alive(sv.pid)
    /\ todo' = todo \ {sv}
    /\ \E t \in TaskIds :
         /\ FreeTask(t)
         /\ task' = [task EXCEPT ![t] = AdoptedTask(sv.name, sv.spec, sv.pid)]
         /\ entry' = [entry EXCEPT ![sv.name] = Running(sv.spec, t)]
    /\ UNCHANGED <<proc, mpc, cur, drain, file>>

\* adopt: the process is not found, the service is not registered.
AdoptFails(sv) ==
    /\ mpc = "boot"
    /\ sv \in todo
    /\ ~Alive(sv.pid)
    /\ todo' = todo \ {sv}
    /\ UNCHANGED <<proc, task, entry, mpc, cur, drain, file>>

\* The listener is served only once every saved service was handled.
Serve ==
    /\ mpc = "boot"
    /\ todo = {}
    /\ mpc' = "idle"
    /\ UNCHANGED <<proc, task, entry, cur, drain, file, todo>>

\* The supervisor dies (a failed exec calls exit(1); a panic, the OOM killer):
\* systemd and launchd kill what is left of the unit and start it again.
Die ==
    /\ mpc # "down"
    /\ proc' = [p \in Pids |-> NoProc]
    /\ task' = [t \in TaskIds |-> NoTask]
    /\ entry' = [n \in Names |-> None]
    /\ mpc' = "down"
    /\ cur' = NoRequest
    /\ drain' = {}
    /\ todo' = {}
    /\ UNCHANGED file

-----------------------------------------------------------------------------
Init ==
    /\ proc = [p \in Pids |-> NoProc]
    /\ task = [t \in TaskIds |-> NoTask]
    /\ entry = [n \in Names |-> None]
    /\ mpc = "down"
    /\ cur = NoRequest
    /\ drain = {}
    /\ file = {}
    /\ todo = {}

TaskStep(t) ==
    \/ TaskSpawn(t) \/ TaskSpawnFails(t) \/ TaskStorePid(t)
    \/ TaskChildExited(t) \/ TaskStopRequested(t) \/ TaskStopTryWait(t)
    \/ TaskStopKill(t) \/ TaskClearPid(t) \/ TaskRespawn(t)
    \/ TaskBackoffStop(t) \/ AdoptedExited(t) \/ AdoptedStopRequested(t)
    \/ AdoptedStopReap(t)

RequestStep ==
    \/ \E n \in Names, s \in Specs : RegisterNew(n, s) \/ RegisterChanged(n, s)
    \/ \E n \in Names :
         \/ StartSvc(n) \/ UnregisterRunning(n) \/ UnregisterStopped(n)
         \/ StopSvc(n, "stop") \/ StopSvc(n, "restart") \/ KillSvc(n)
    \/ Shutdown \/ SaveStateForReexec

LoopStep ==
    \/ JoinUnregister \/ JoinStop \/ JoinLaunch
    \/ TeardownNext \/ JoinTeardown \/ Exit
    \/ Reexec \/ Boot \/ BootUnread \/ Serve
    \/ \E sv \in todo : Adopt(sv) \/ AdoptFails(sv)

Next ==
    \/ \E t \in TaskIds : TaskStep(t)
    \/ RequestStep
    \/ LoopStep
    \/ \E p \in Pids : ProcExit(p)
    \/ Die

Spec == Init /\ [][Next]_vars

\* The executor polls every ready task and the main loop, a child killed with
\* SIGKILL is reaped, timers fire.  Requests, child exits and deaths of the
\* supervisor are never owed.
Fairness ==
    /\ \A t \in TaskIds : WF_vars(TaskStep(t))
    /\ WF_vars(LoopStep)

LiveSpec == Spec /\ Fairness

-----------------------------------------------------------------------------
(* The inductive invariant behind the safety properties. *)

\* Where a task holds a child that nobody has reaped.
HoldsChild == {"spawned", "wait", "stopping", "adopted", "adoptedStop"}
\* Where it still refers to a child it has reaped.
HasReaped == {"reaped", "stopReaped"}

\* The locals of a task agree with its position, and the published pid is that
\* of the child whenever one is published.
TaskShape ==
    \A t \in TaskIds :
        LET k == task[t] IN
        /\ k.pc = "free" => k = NoTask
        /\ k.pc # "free" => k.name \in Names /\ k.spec \in Specs
        /\ k.child # None <=> k.pc \in HoldsChild \cup HasReaped
        /\ k.pid = IF k.pc = "spawned" THEN None ELSE k.child

\* A child that was not reaped is a process of the task's service and spec; one
\* that was reaped is not alive, and its pid is not used again yet.
ChildOwned ==
    \A t \in TaskIds :
        LET k == task[t] IN
        /\ k.pc \in HoldsChild =>
             /\ Alive(k.child)
             /\ proc[k.child].name = k.name
             /\ proc[k.child].spec = k.spec
        /\ k.pc \in HasReaped => ~Alive(k.child)

\* No two tasks serve one name.
NameUnique ==
    \A t, u \in TaskIds :
        task[t].pc # "free" /\ task[u].pc # "free" /\ task[t].name = task[u].name
            => t = u

\* Every task is accounted for: by its entry, by the request that awaits it, or
\* by the teardown.
TaskOwned ==
    \A t \in TaskIds :
        task[t].pc # "free" =>
            \/ /\ mpc \in {"idle", "saved", "boot", "join"}
               /\ entry[task[t].name] = Running(task[t].spec, t)
            \/ mpc = "join" /\ cur.task = t
            \/ mpc \in {"teardown", "join"} /\ cur.op \in {"none", "shutdown"} /\ t \in drain

\* An entry's task exists and serves it; an entry without one is stopped, or
\* its handler is awaiting the task it took.
EntryOwns ==
    \A n \in Names :
        entry[n] # None =>
            /\ mpc \in {"idle", "saved", "boot", "join"}
            /\ entry[n].task # None =>
                 /\ ~entry[n].stopped
                 /\ task[entry[n].task].pc # "free"
                 /\ task[entry[n].task].name = n
                 /\ task[entry[n].task].spec = entry[n].spec
                 /\ ~(mpc = "join" /\ cur.task = entry[n].task)
            /\ entry[n].task = None /\ ~entry[n].stopped =>
                 mpc = "join" /\ cur.op \in {"stop", "restart"} /\ cur.name = n

\* The request under way, while a handler awaits a task, and none otherwise; the
\* tasks a teardown has still to stop exist, and none of them is being awaited.
CurOwns ==
    /\ mpc # "join" => cur = NoRequest
    /\ \A t \in drain : task[t].pc # "free" /\ ~(mpc = "join" /\ cur.task = t)
    /\ mpc # "teardown" /\ ~(mpc = "join" /\ cur.op = "shutdown") => drain = {}
    /\ mpc = "join" =>
         /\ cur.op # "none"
         /\ cur.task \in TaskIds
         /\ task[cur.task].pc # "free"
         /\ cur.op = "shutdown" => \A n \in Names : entry[n] = None
         /\ cur.op # "shutdown" =>
              cur.name \in Names /\ task[cur.task].name = cur.name
         /\ cur.op \in {"register", "unregister"} => entry[cur.name] = None
         /\ cur.op \in {"register", "restart"} => cur.spec \in Specs
         /\ cur.op \in {"stop", "restart"} =>
              entry[cur.name] # None /\ entry[cur.name].task = None

\* The handover: the file exists between the save and the boot, lists a service
\* once, and a pid it lists is dead or still that service's process, which the
\* old image still holds and the new image has not yet registered.
HandoverOwns ==
    /\ mpc \notin {"saved", "down"} => file = {}
    /\ mpc # "boot" => todo = {}
    /\ mpc = "down" => \A t \in TaskIds : task[t].pc = "free"
    /\ \A sv, sw \in file \cup todo : sv.name = sw.name => sv = sw
    /\ \A sv \in file \cup todo :
         Alive(sv.pid) => proc[sv.pid].name = sv.name /\ proc[sv.pid].spec = sv.spec
    /\ mpc = "saved" =>
         \A sv \in file : Alive(sv.pid) => \E t \in TaskIds : task[t].child = sv.pid
    /\ mpc = "boot" => \A sv \in todo : entry[sv.name] = None

IInv ==
    /\ TypeOK /\ TaskShape /\ ChildOwned /\ NameUnique
    /\ TaskOwned /\ EntryOwns /\ CurOwns /\ HandoverOwns

-----------------------------------------------------------------------------
(* Properties. *)

\* A live process the supervisor can still find: the child of a task, or a
\* process handed over through the state file.
Tracked(p) ==
    /\ Alive(p)
    /\ \/ \E t \in TaskIds : task[t].child = p
       \/ \E sv \in file \cup todo : sv.pid = p

\* However registrations, restarts, crashes and re-execs interleave, the
\* supervisor never runs two processes of one service (register awaits the
\* old task before it launches the new one).
OneProcessPerName ==
    \A p, q \in Pids :
        Tracked(p) /\ Tracked(q) /\ proc[p].name = proc[q].name => p = q

\* When the loop can take a request, every process it tracks belongs to a
\* registered service that is not stopped, and was started from the spec the
\* registry holds: stop_svc and unregister answer only after the process is
\* gone, and a changed spec leaves no process of the old one behind.
IdleAgrees ==
    mpc = "idle" =>
        \A p \in Pids :
            Tracked(p) =>
                LET e == entry[proc[p].name] IN
                /\ e # None
                /\ ~e.stopped
                /\ e.spec = proc[p].spec

\* The pid that List reports and Kill signals is never the pid of another
\* service, through every respawn and adoption.
PidIsOwn ==
    \A n \in Names :
        LET p == EntryPid(n) IN
        p # None /\ Alive(p) => proc[p].name = n

\* run() returns from a shutdown only when no child is left.
NothingLeftBehind ==
    mpc = "teardown" /\ drain = {} => \A p \in Pids : ~Tracked(p)

\* A live process is lost track of in the handover through the state file and
\* nowhere else: by the exec, if the file does not list it, or by a boot that
\* cannot use the file and then forgets everything the file lists.
ForgetsOnlyInHandover ==
    [][\A p \in Pids :
          Tracked(p) /\ proc'[p] = proc[p] /\ ~Tracked(p)' =>
             \/ mpc = "saved" /\ mpc' = "down" /\ (\A sv \in file : sv.pid # p)
             \/ /\ mpc = "down" /\ mpc' = "boot" /\ todo' = {}
                /\ \E sv \in file : sv.pid = p]_vars

\* The registry as the daemon may rely on it: a request takes effect when it
\* is answered, so a service whose task has not returned is still registered.
ContractReg ==
    [n \in Names |->
        IF \E t \in TaskIds : task[t].name = n
        THEN [spec |-> (CHOOSE tk \in {task[t] : t \in TaskIds} : tk.name = n).spec,
              stopped |-> FALSE]
        ELSE IF Registered(n) THEN [spec |-> entry[n].spec, stopped |-> TRUE]
        ELSE None]

ContractRun ==
    [n \in Names |->
        {[pid |-> p, spec |-> proc[p].spec] :
            p \in {q \in Pids : Tracked(q) /\ proc[q].name = n}}]

Contract == INSTANCE ServiceContract WITH reg <- ContractReg, run <- ContractRun

\* The contract's absent registration is not a registration.
ASSUME NoRegistrationAssumption == None \notin [spec: Specs, stopped: BOOLEAN]

\* The supervisor implements its contract: the tasks, the two-step stops, the
\* crash loop and the handover through the file never show more than one
\* incarnation of a service, nor a process of a service that was stopped.
ImplementsContract == Contract!Spec

\* The main loop's waits end: every request that waits for a task is answered,
\* since the stop message reaches the task wherever it is and the task ends,
\* and a shutdown terminates, whatever its services do with SIGTERM.
WaitsEnd == (mpc = "join" ~> mpc # "join") /\ (mpc = "teardown" ~> mpc = "down")

\* "leave children running [...] State was saved by save_state_for_reexec()"
\* (run, on re-exec): a new image that serves requests tracks every child.
ReexecKeepsChildren ==
    mpc = "idle" => \A p \in Pids : proc[p].st = "running" => Tracked(p)

\* "has persisted the registered specs and running PIDs" (DESIGN.md, on
\* UpdateSelf): no registration is lost by the exec.
ReexecKeepsRegistrations ==
    [][mpc = "saved" /\ mpc' = "down" =>
          \A n \in Names : Registered(n) => \E sv \in file : sv.name = n]_vars
=============================================================================
