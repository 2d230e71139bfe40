-------------------------- MODULE SupervisorProofs --------------------------
(***************************************************************************)
(* Proofs about Supervisor: the inductive invariant IInv and the safety    *)
(* properties that follow from it, for any number of services, specs, pids *)
(* and tasks, and for a state file whose write may fail.                   *)
(***************************************************************************)
EXTENDS Supervisor, TLAPS

USE NoneAssumption, NoEntryAssumption, WriteMayFailAssumption

\* What a step of a task leaves alone: everything of the main loop.
LoopVars == <<entry, mpc, cur, drain, file, todo>>

\* The initial states satisfy the invariant.
LEMMA InitIInv == Init => IInv
  <1> SUFFICES ASSUME Init PROVE IInv
    OBVIOUS
  <1>1. TypeOK
    BY DEF Init, TypeOK, Proc, NoProc, Task, NoTask, TaskPc, Entry, Request, NoRequest
  <1>2. TaskShape /\ ChildOwned /\ NameUnique /\ TaskOwned
    BY DEF Init, TaskShape, ChildOwned, NameUnique, TaskOwned, NoTask, HoldsChild, HasReaped
  <1>3. EntryOwns /\ CurOwns /\ HandoverOwns
    BY DEF Init, EntryOwns, CurOwns, HandoverOwns, NoTask, Alive, NoProc
  <1> QED BY <1>1, <1>2, <1>3 DEF IInv

-----------------------------------------------------------------------------
(* Steps of tasks. *)

\* A step that moves one task without changing what it serves preserves the
\* conjuncts that speak of names and owners.
LEMMA TaskMoves ==
  ASSUME IInv, NEW t \in TaskIds, NEW k \in Task,
         task[t].pc # "free", k.pc # "free",
         k.name = task[t].name, k.spec = task[t].spec,
         task' = [task EXCEPT ![t] = k],
         proc' \in [Pids -> Proc],
         UNCHANGED LoopVars
  PROVE  TypeOK' /\ NameUnique' /\ TaskOwned' /\ EntryOwns' /\ CurOwns'
  <1> USE DEF IInv, TypeOK, LoopVars
  <1>1. TypeOK'
    OBVIOUS
  <1>2. \A u \in TaskIds : /\ task'[u].name = task[u].name
                           /\ task'[u].spec = task[u].spec
                           /\ task'[u].pc = "free" <=> task[u].pc = "free"
    BY DEF Task
  <1>3. NameUnique'
    BY <1>2 DEF NameUnique
  <1>4. TaskOwned'
    BY <1>2 DEF TaskOwned
  <1>5. EntryOwns'
    BY <1>2 DEF EntryOwns, Entry
  <1>6. CurOwns'
    BY <1>2 DEF CurOwns
  <1> QED BY <1>1, <1>3, <1>4, <1>5, <1>6

\* A task that starts a child: the pid is fresh.
LEMMA SpawnIInv ==
  ASSUME IInv, NEW t \in TaskIds, TaskSpawn(t)
  PROVE  IInv'
  <1> DEFINE k == task'[t]
  <1> USE DEF LoopVars, HoldsChild, HasReaped, TaskPc
  <1> TypeOK /\ TaskShape /\ ChildOwned /\ HandoverOwns
    BY DEF IInv
  <1>1. PICK p \in Pids :
          /\ FreshPid(p)
          /\ proc' = [proc EXCEPT ![p] = [st |-> "running",
                        name |-> task[t].name, spec |-> task[t].spec]]
          /\ task' = [task EXCEPT ![t].pc = "spawned", ![t].child = p]
          /\ task[t].pc = "spawn"
          /\ UNCHANGED LoopVars
    BY DEF TaskSpawn
  <1>2. /\ k \in Task /\ k.pc = "spawned" /\ k.child = p /\ k.pid = None
        /\ k.name = task[t].name /\ k.spec = task[t].spec
        /\ task' = [task EXCEPT ![t] = k]
    BY <1>1 DEF TypeOK, Task, TaskShape
  <1>3. proc' \in [Pids -> Proc]
    BY <1>1 DEF TypeOK, Proc, TaskShape
  <1>4. TaskShape'
    BY <1>1, <1>2 DEF TypeOK, Task, TaskShape
  <1>5. ChildOwned'
    BY <1>1, <1>2 DEF TypeOK, Task, TaskShape, ChildOwned, FreshPid, Referenced, Alive
  <1>6. HandoverOwns'
    BY <1>1, <1>2 DEF TypeOK, Task, SavedService, HandoverOwns, FreshPid, Referenced, Alive
  <1> QED BY <1>1, <1>2, <1>3, <1>4, <1>5, <1>6, TaskMoves DEF IInv

\* The steps of a task that touch no process.
LocalStep(t) ==
    \/ TaskSpawnFails(t) \/ TaskStorePid(t) \/ TaskStopRequested(t)
    \/ TaskClearPid(t) \/ TaskRespawn(t) \/ TaskBackoffStop(t)
    \/ AdoptedStopRequested(t)

\* Such a step keeps the child, or drops one that was reaped already.
LEMMA LocalIInv ==
  ASSUME IInv, NEW t \in TaskIds, LocalStep(t)
  PROVE  IInv'
  <1> DEFINE k == task'[t]
  <1> USE DEF LoopVars, HoldsChild, HasReaped, TaskPc
  <1> TypeOK /\ TaskShape /\ ChildOwned /\ HandoverOwns
    BY DEF IInv
  <1>1. /\ k \in Task /\ k.pc # "free" /\ task[t].pc # "free"
        /\ k.name = task[t].name /\ k.spec = task[t].spec
        /\ task' = [task EXCEPT ![t] = k]
        /\ k.pc \notin HasReaped
        /\ k.pc \in HoldsChild => task[t].pc \in HoldsChild /\ k.child = task[t].child
        /\ k.pc \notin HoldsChild => k.child = None
        /\ k.pid = IF k.pc = "spawned" THEN None ELSE k.child
        /\ k.child # task[t].child => task[t].pc \in HasReaped
    BY DEF LocalStep, TaskSpawnFails, TaskStorePid, TaskStopRequested, TaskClearPid,
           TaskRespawn, TaskBackoffStop, AdoptedStopRequested, TypeOK, Task, TaskShape
  <1>2. UNCHANGED LoopVars /\ proc' = proc
    BY DEF LocalStep, TaskSpawnFails, TaskStorePid, TaskStopRequested, TaskClearPid,
           TaskRespawn, TaskBackoffStop, AdoptedStopRequested
  <1>3. TaskShape'
    BY <1>1, <1>2 DEF TypeOK, Task, TaskShape
  <1>4. ChildOwned'
    BY <1>1, <1>2 DEF TypeOK, Task, ChildOwned, Alive
  <1>5. HandoverOwns'
    BY <1>1, <1>2 DEF TypeOK, Task, SavedService, HandoverOwns, ChildOwned, Alive
  <1>6. proc' \in [Pids -> Proc]
    BY <1>2 DEF TypeOK
  <1> QED BY <1>1, <1>2, <1>3, <1>4, <1>5, <1>6, TaskMoves DEF IInv

\* The steps of a task that reap its child.
ReapStep(t) ==
    \/ TaskChildExited(t) \/ TaskStopTryWait(t) \/ TaskStopKill(t)
    \/ AdoptedExited(t) \/ AdoptedStopReap(t)

\* Reaping frees the pid of the child: no other task and no file entry names a
\* live process through it.
LEMMA ReapIInv ==
  ASSUME IInv, NEW t \in TaskIds, ReapStep(t)
  PROVE  IInv'
  <1> DEFINE k == task'[t]
             p == task[t].child
  <1> USE DEF LoopVars, HoldsChild, HasReaped, TaskPc
  <1> TypeOK /\ TaskShape /\ ChildOwned /\ NameUnique /\ HandoverOwns
    BY DEF IInv
  <1>1. /\ task[t].pc \in HoldsChild \ {"spawned"} /\ p \in Pids
        /\ k \in Task /\ k.pc \in HasReaped
        /\ k.name = task[t].name /\ k.spec = task[t].spec
        /\ k.child = p /\ k.pid = p
        /\ task' = [task EXCEPT ![t] = k]
    BY DEF ReapStep, TaskChildExited, TaskStopTryWait, TaskStopKill, AdoptedExited,
           AdoptedStopReap, TypeOK, Task, TaskShape
  <1>2. UNCHANGED LoopVars /\ proc' = [proc EXCEPT ![p] = NoProc]
    BY DEF ReapStep, TaskChildExited, TaskStopTryWait, TaskStopKill, AdoptedExited,
           AdoptedStopReap
  <1>3. proc' \in [Pids -> Proc]
    BY <1>1, <1>2 DEF TypeOK, Proc, NoProc
  <1>4. TaskShape'
    BY <1>1, <1>2 DEF TypeOK, Task, TaskShape
  <1>5. \A u \in TaskIds : u # t /\ task[u].pc \in HoldsChild => task[u].child # p
    BY <1>1 DEF ChildOwned, NameUnique
  <1>6. ChildOwned'
    BY <1>1, <1>2, <1>5 DEF TypeOK, Task, TaskShape, ChildOwned, Alive, NoProc
  <1>7. HandoverOwns'
    BY <1>1, <1>2 DEF TypeOK, Task, SavedService, HandoverOwns, Alive, NoProc
  <1> QED BY <1>1, <1>2, <1>3, <1>4, <1>6, <1>7, TaskMoves DEF IInv

\* Every step of run_service and monitor_adopted preserves the invariant.
LEMMA TaskStepIInv ==
  ASSUME IInv, NEW t \in TaskIds, TaskStep(t)
  PROVE  IInv'
  BY SpawnIInv, LocalIInv, ReapIInv DEF TaskStep, LocalStep, ReapStep

-----------------------------------------------------------------------------
(* Steps of processes. *)

\* A process that becomes a zombie keeps its name and its spec.
LEMMA ZombieIInv ==
  ASSUME IInv, NEW p \in Pids,
         proc[p].st = "running",
         proc' = [proc EXCEPT ![p].st = "zombie"],
         UNCHANGED <<task, LoopVars>>
  PROVE  IInv'
  <1> USE DEF IInv, LoopVars
  <1>1. TypeOK'
    BY DEF TypeOK, Proc
  <1>2. \A q \in Pids : /\ proc'[q].name = proc[q].name
                        /\ proc'[q].spec = proc[q].spec
                        /\ Alive(q)' <=> Alive(q)
    BY DEF TypeOK, Proc, Alive
  <1>3. TaskShape' /\ NameUnique' /\ TaskOwned' /\ EntryOwns' /\ CurOwns'
    BY DEF TaskShape, NameUnique, TaskOwned, EntryOwns, CurOwns
  <1>4. ChildOwned'
    BY <1>2 DEF TypeOK, Task, TaskShape, ChildOwned, HoldsChild, HasReaped
  <1>5. HandoverOwns'
    BY <1>2 DEF TypeOK, SavedService, HandoverOwns
  <1> QED BY <1>1, <1>3, <1>4, <1>5

\* A child that exits on its own preserves the invariant.
LEMMA ProcExitIInv ==
  ASSUME IInv, NEW p \in Pids, ProcExit(p)
  PROVE  IInv'
  BY ZombieIInv DEF ProcExit, LoopVars

\* kill_svc signals the published pid and changes nothing else.
LEMMA KillSvcIInv ==
  ASSUME IInv, NEW n \in Names, KillSvc(n)
  PROVE  IInv'
  <1>1. EntryPid(n) \in Pids
    BY DEF IInv, TypeOK, Entry, Task, KillSvc, EntryPid, Registered
  <1> QED BY <1>1, ZombieIInv DEF KillSvc, LoopVars

-----------------------------------------------------------------------------
(* Requests. *)

\* Outside of a teardown a task is served by its entry, unless it is awaited.
LEMMA OwnedByEntry ==
  ASSUME IInv, NEW t \in TaskIds, task[t].pc # "free", drain = {},
         ~(mpc = "join" /\ cur.task = t)
  PROVE  /\ task[t].name \in Names
         /\ entry[task[t].name] = Running(task[t].spec, t)
         /\ entry[task[t].name] # None
         /\ entry[task[t].name].task = t /\ t # None
         /\ entry[task[t].name].spec = task[t].spec
         /\ ~entry[task[t].name].stopped
  <1>1. entry[task[t].name] = Running(task[t].spec, t)
    BY DEF IInv, TaskOwned
  <1>2. task[t].name \in Names /\ task[t].spec \in Specs
    BY DEF IInv, TaskShape
  <1>3. Running(task[t].spec, t) \in Entry
    BY <1>2 DEF Running, Entry
  <1>4. entry[task[t].name] # None
    BY <1>1, <1>3
  <1>5. t # None
    OBVIOUS
  <1>6. /\ Running(task[t].spec, t).task = t
        /\ Running(task[t].spec, t).spec = task[t].spec
        /\ ~Running(task[t].spec, t).stopped
    BY DEF Running
  <1> QED BY <1>1, <1>2, <1>4, <1>5, <1>6

\* No task serves a name that is not registered, or that is stopped, while the
\* loop is idle.
LEMMA IdleNameFree ==
  ASSUME IInv, mpc = "idle", NEW n \in Names, entry[n] = None \/ entry[n].task = None
  PROVE  \A t \in TaskIds : task[t].pc # "free" => task[t].name # n
  <1>1. drain = {}
    BY DEF IInv, CurOwns
  <1> QED BY <1>1, OwnedByEntry

\* A stopped entry has no task; the task of an active one exists.
LEMMA StoppedHasNoTask ==
  ASSUME IInv, mpc = "idle", NEW n \in Names, entry[n] # None
  PROVE  IF entry[n].stopped THEN entry[n].task = None ELSE entry[n].task \in TaskIds
  BY DEF IInv, TypeOK, Entry, EntryOwns

\* Launching a task for a name nobody serves preserves the invariant.
LEMMA LaunchIInv ==
  ASSUME IInv, mpc = "idle", NEW n \in Names, NEW s \in Specs,
         entry[n] = None \/ entry[n].task = None,
         Launch(n, s, entry),
         UNCHANGED <<proc, mpc, cur, drain, file, todo>>
  PROVE  IInv'
  <1> USE DEF IInv, HoldsChild, HasReaped, TaskPc
  <1>1. PICK t \in TaskIds :
          /\ task[t].pc = "free"
          /\ task' = [task EXCEPT ![t] = NewTask(n, s)]
          /\ entry' = [entry EXCEPT ![n] = Running(s, t)]
    BY DEF Launch, FreeTask
  <1>2. TypeOK'
    BY <1>1 DEF TypeOK, Task, NewTask, Entry, Running
  <1>3. TaskShape' /\ ChildOwned'
    BY <1>1 DEF TypeOK, TaskShape, ChildOwned, NewTask, Alive
  <1>4. NameUnique'
    BY <1>1, IdleNameFree DEF TypeOK, NameUnique, NewTask
  <1>5. TaskOwned'
    <2> SUFFICES ASSUME NEW u \in TaskIds, task'[u].pc # "free"
                 PROVE  mpc' = "idle" /\ entry'[task'[u].name] = Running(task'[u].spec, u)
      BY DEF TaskOwned
    <2>1. CASE u = t
      BY <1>1, <2>1 DEF TypeOK, NewTask
    <2>2. CASE u # t
      <3>1. task'[u] = task[u]
        BY <1>1, <2>2 DEF TypeOK
      <3>2. drain = {}
        BY DEF CurOwns
      <3>3. task[u].name \in Names /\ entry[task[u].name] = Running(task[u].spec, u)
        BY <3>1, <3>2, OwnedByEntry
      <3>4. task[u].name # n
        BY <3>1, IdleNameFree
      <3> QED BY <1>1, <3>1, <3>3, <3>4 DEF TypeOK
    <2> QED BY <2>1, <2>2
  <1>6. EntryOwns'
    BY <1>1 DEF TypeOK, EntryOwns, CurOwns, NewTask, Running, Entry
  <1>7. CurOwns'
    BY <1>1 DEF CurOwns
  <1>8. HandoverOwns'
    BY <1>1 DEF HandoverOwns, Alive
  <1> QED BY <1>2, <1>3, <1>4, <1>5, <1>6, <1>7, <1>8

\* register of a new name, or over a stopped entry.
LEMMA RegisterNewIInv ==
  ASSUME IInv, NEW n \in Names, NEW s \in Specs, RegisterNew(n, s)
  PROVE  IInv'
  BY LaunchIInv, StoppedHasNoTask DEF RegisterNew, Registered, Stopped

\* start_svc of a stopped entry.
LEMMA StartSvcIInv ==
  ASSUME IInv, NEW n \in Names, StartSvc(n)
  PROVE  IInv'
  <1>1. entry[n].spec \in Specs /\ entry[n].task = None /\ mpc = "idle"
    BY StoppedHasNoTask DEF StartSvc, Stopped, Registered, IInv, TypeOK, Entry
  <1> QED BY <1>1, LaunchIInv DEF StartSvc

\* While the loop is idle no teardown and no handover is under way.
LEMMA IdleIsQuiet ==
  ASSUME IInv, mpc = "idle"
  PROVE  cur = NoRequest /\ drain = {} /\ file = {} /\ todo = {}
  BY DEF IInv, CurOwns, HandoverOwns

\* Sending a stop message changes nothing the invariant says of a task.
LEMMA StopSent ==
  ASSUME IInv, NEW t \in TaskIds, task' = [task EXCEPT ![t].stop = TRUE], proc' = proc
  PROVE  /\ task' \in [TaskIds -> Task]
         /\ \A u \in TaskIds : /\ task'[u].pc = task[u].pc
                               /\ task'[u].name = task[u].name
                               /\ task'[u].spec = task[u].spec
                               /\ task'[u].child = task[u].child
         /\ task[t].pc # "free" => TaskShape'
         /\ ChildOwned' /\ NameUnique'
  <1>1. task' \in [TaskIds -> Task]
    <2>1. task \in [TaskIds -> Task]
      BY DEF IInv, TypeOK
    <2>2. [task[t] EXCEPT !.stop = TRUE] \in Task
      BY <2>1 DEF Task
    <2> QED BY <2>1, <2>2
  <1> USE DEF IInv, TypeOK
  <1>2. \A u \in TaskIds : /\ task'[u].pc = task[u].pc
                           /\ task'[u].name = task[u].name
                           /\ task'[u].spec = task[u].spec
                           /\ task'[u].child = task[u].child
                           /\ task'[u].pid = task[u].pid
    BY DEF Task
  <1>3. ASSUME task[t].pc # "free" PROVE TaskShape'
    <2>1. \A u \in TaskIds : u # t => task'[u] = task[u]
      OBVIOUS
    <2> QED BY <1>2, <1>3, <2>1 DEF TaskShape
  <1>4. ChildOwned' /\ NameUnique'
    BY <1>2 DEF ChildOwned, NameUnique, Alive
  <1> QED BY <1>1, <1>2, <1>3, <1>4

\* A request that suspends its handler on the task of an active entry: the
\* entry is gone (register, unregister) or has lost its task (stop, restart).
LEMMA AwaitIInv ==
  ASSUME IInv, mpc = "idle", NEW n \in Names, Active(n), NEW req \in Request,
         AwaitStop(entry[n].task, req),
         req.name = n, req.task = entry[n].task,
         \/ /\ req.op \in {"register", "unregister"}
            /\ entry' = [entry EXCEPT ![n] = None]
         \/ /\ req.op \in {"stop", "restart"}
            /\ entry' = [entry EXCEPT ![n].task = None],
         req.op \in {"register", "restart"} => req.spec \in Specs,
         UNCHANGED <<proc, drain, file, todo>>
  PROVE  IInv'
  <1> DEFINE t == entry[n].task
  <1>1. /\ t \in TaskIds /\ task' = [task EXCEPT ![t].stop = TRUE]
        /\ mpc' = "join" /\ cur' = req /\ entry[n] \in Entry
    BY StoppedHasNoTask DEF AwaitStop, Active, Registered, IInv, TypeOK
  <1>2. task[t].pc # "free" /\ task[t].name = n
    BY <1>1 DEF IInv, EntryOwns, Active, Registered
  <1>3. /\ drain' = {} /\ file' = {} /\ todo' = {} /\ proc' = proc /\ drain = {}
    BY IdleIsQuiet
  <1>4. entry' \in [Names -> Entry \cup {None}]
    BY <1>1 DEF IInv, TypeOK, Entry
  <1>5. TypeOK'
    BY <1>1, <1>3, <1>4, StopSent DEF IInv, TypeOK
  <1>6. TaskShape' /\ ChildOwned' /\ NameUnique'
    BY <1>1, <1>2, <1>3, StopSent
  <1>7. \A m \in Names : m # n => entry'[m] = entry[m]
    BY DEF IInv, TypeOK
  <1>8. \/ req.op \in {"register", "unregister"} /\ entry'[n] = None
        \/ /\ req.op \in {"stop", "restart"} /\ entry'[n] \in Entry
           /\ entry'[n].task = None /\ ~entry'[n].stopped
    BY <1>1 DEF IInv, TypeOK, Entry, Active
  <1>9. TaskOwned'
    <2> SUFFICES ASSUME NEW u \in TaskIds, task'[u].pc # "free", u # t
                 PROVE  entry'[task'[u].name] = Running(task'[u].spec, u)
      BY <1>1 DEF TaskOwned
    <2>1. task'[u].pc = task[u].pc /\ task'[u].name = task[u].name /\ task'[u].spec = task[u].spec
      BY <1>1, <1>3, StopSent
    <2>2. task[u].name # n
      BY <1>1, <1>2, <2>1 DEF IInv, NameUnique
    <2>3. task[u].name \in Names /\ entry[task[u].name] = Running(task[u].spec, u)
      BY <1>3, <2>1, OwnedByEntry
    <2> QED BY <1>7, <2>1, <2>2, <2>3
  <1>10. EntryOwns'
    <2> SUFFICES ASSUME NEW m \in Names, entry'[m] # None
                 PROVE  /\ entry'[m].task # None =>
                             /\ ~entry'[m].stopped
                             /\ task'[entry'[m].task].pc # "free"
                             /\ task'[entry'[m].task].name = m
                             /\ task'[entry'[m].task].spec = entry'[m].spec
                             /\ entry'[m].task # t
                        /\ entry'[m].task = None /\ ~entry'[m].stopped =>
                             cur'.op \in {"stop", "restart"} /\ cur'.name = m
      BY <1>1 DEF EntryOwns
    <2>1. CASE m = n
      BY <1>1, <1>8, <2>1
    <2>2. CASE m # n
      <3>1. entry'[m] = entry[m] /\ entry[m] \in Entry
        BY <1>7, <2>2 DEF IInv, TypeOK
      <3>2. entry[m].task \in TaskIds \cup {None}
        BY <3>1 DEF Entry
      <3>3. ~(entry[m].task = None /\ ~entry[m].stopped)
        BY <3>1 DEF IInv, EntryOwns
      <3>4. entry[m].task # None =>
              /\ ~entry[m].stopped
              /\ task[entry[m].task].pc # "free"
              /\ task[entry[m].task].name = m
              /\ task[entry[m].task].spec = entry[m].spec
        BY <3>1 DEF IInv, EntryOwns
      <3>5. entry[m].task # t
        BY <1>1, <1>2, <2>2, <3>4
      <3> QED BY <1>1, <1>3, <3>1, <3>2, <3>3, <3>4, <3>5, StopSent
    <2> QED BY <2>1, <2>2
  <1>11. CurOwns'
    <2>1. task'[t].pc # "free" /\ task'[t].name = n
      BY <1>1, <1>2, <1>3, StopSent
    <2>2. req.op # "none" /\ req.op # "shutdown"
      OBVIOUS
    <2> QED BY <1>1, <1>3, <1>8, <2>1, <2>2 DEF CurOwns
  <1>12. HandoverOwns'
    BY <1>1, <1>3 DEF HandoverOwns
  <1> QED BY <1>5, <1>6, <1>9, <1>10, <1>11, <1>12 DEF IInv

\* register with a changed spec.
LEMMA RegisterChangedIInv ==
  ASSUME IInv, NEW n \in Names, NEW s \in Specs, RegisterChanged(n, s)
  PROVE  IInv'
  <1> DEFINE req == [op |-> "register", name |-> n, spec |-> s, task |-> entry[n].task]
  <1>1. req \in Request
    BY StoppedHasNoTask DEF RegisterChanged, Active, Registered, Request
  <1> QED BY <1>1, AwaitIInv DEF RegisterChanged

\* unregister of a service whose task is awaited.
LEMMA UnregisterRunningIInv ==
  ASSUME IInv, NEW n \in Names, UnregisterRunning(n)
  PROVE  IInv'
  <1> DEFINE req == [op |-> "unregister", name |-> n, spec |-> None, task |-> entry[n].task]
  <1>1. req \in Request
    BY StoppedHasNoTask DEF UnregisterRunning, Active, Registered, Request
  <1> QED BY <1>1, AwaitIInv DEF UnregisterRunning

\* stop_svc, and restart_svc up to its await.
LEMMA StopSvcIInv ==
  ASSUME IInv, NEW n \in Names, NEW op \in {"stop", "restart"}, StopSvc(n, op)
  PROVE  IInv'
  <1> DEFINE req == [op |-> op, name |-> n, spec |-> entry[n].spec, task |-> entry[n].task]
  <1>1. req \in Request /\ req.spec \in Specs
    BY StoppedHasNoTask DEF StopSvc, Active, Registered, Request, IInv, TypeOK, Entry
  <1> QED BY <1>1, AwaitIInv DEF StopSvc

\* unregister of a stopped entry: no task serves it.
LEMMA UnregisterStoppedIInv ==
  ASSUME IInv, NEW n \in Names, UnregisterStopped(n)
  PROVE  IInv'
  <1>1. /\ mpc = "idle" /\ mpc' = "idle" /\ entry[n] # None /\ entry[n].task = None
        /\ entry' = [entry EXCEPT ![n] = None]
        /\ UNCHANGED <<proc, task, mpc, cur, drain, file, todo>>
    BY StoppedHasNoTask DEF UnregisterStopped, Stopped, Registered
  <1>2. TypeOK' /\ TaskShape' /\ ChildOwned' /\ NameUnique' /\ CurOwns' /\ HandoverOwns'
    BY <1>1, IdleIsQuiet
    DEF IInv, TypeOK, TaskShape, ChildOwned, NameUnique, CurOwns, HandoverOwns, Alive
  <1>3. TaskOwned'
    BY <1>1, IdleNameFree, IdleIsQuiet, OwnedByEntry DEF IInv, TypeOK, TaskOwned
  <1>4. EntryOwns'
    BY <1>1 DEF IInv, TypeOK, EntryOwns
  <1> QED BY <1>2, <1>3, <1>4 DEF IInv

-----------------------------------------------------------------------------
(* Completions of requests. *)

\* The awaited task ends and leaves the table: nobody else refers to it.
LEMMA JoinedTask ==
  ASSUME IInv, mpc = "join", task[cur.task].pc = "done"
  PROVE  /\ cur.task \in TaskIds /\ task[cur.task].child = None
         /\ cur.op # "none" /\ file = {} /\ todo = {}
         /\ cur.op # "shutdown" =>
              /\ cur.name \in Names /\ task[cur.task].name = cur.name /\ drain = {}
         /\ \A n \in Names : entry[n] # None => entry[n].task # cur.task
         /\ \A u \in TaskIds : u # cur.task /\ task[u].pc # "free" =>
              task[u].name # task[cur.task].name
  <1>1. cur.task \in TaskIds /\ cur.op # "none" /\ file = {} /\ todo = {}
    BY DEF IInv, CurOwns, HandoverOwns
  <1>2. task[cur.task].child = None
    BY <1>1 DEF IInv, TaskShape, HoldsChild, HasReaped
  <1>3. cur.op # "shutdown" =>
          /\ cur.name \in Names /\ task[cur.task].name = cur.name /\ drain = {}
    BY DEF IInv, CurOwns
  <1>4. \A n \in Names : entry[n] # None => entry[n].task # cur.task
    BY <1>1 DEF IInv, EntryOwns
  <1>5. \A u \in TaskIds : u # cur.task /\ task[u].pc # "free" =>
          task[u].name # task[cur.task].name
    BY <1>1 DEF IInv, NameUnique
  <1> QED BY <1>1, <1>2, <1>3, <1>4, <1>5

\* What every completion preserves: the slot of the awaited task is empty again.
LEMMA JoinFrees ==
  ASSUME IInv, mpc = "join", task[cur.task].pc = "done",
         task' = [task EXCEPT ![cur.task] = NoTask], proc' = proc
  PROVE  /\ task' \in [TaskIds -> Task]
         /\ TaskShape' /\ ChildOwned' /\ NameUnique'
         /\ \A u \in TaskIds : u # cur.task => task'[u] = task[u]
         /\ task'[cur.task].pc = "free"
  <1> USE JoinedTask DEF IInv, TypeOK
  <1>1. NoTask \in Task /\ NoTask.pc = "free"
    BY DEF NoTask, Task, TaskPc
  <1>2. /\ \A u \in TaskIds : u # cur.task => task'[u] = task[u]
        /\ task'[cur.task] = NoTask
        /\ task' \in [TaskIds -> Task]
    BY <1>1
  <1>3. TaskShape'
    BY <1>2 DEF TaskShape, NoTask, HoldsChild, HasReaped
  <1>4. ChildOwned' /\ NameUnique'
    BY <1>1, <1>2 DEF ChildOwned, NameUnique, Alive, HoldsChild, HasReaped
  <1> QED BY <1>1, <1>2, <1>3, <1>4

\* unregister is answered.
LEMMA JoinUnregisterIInv ==
  ASSUME IInv, JoinUnregister
  PROVE  IInv'
  <1>1. /\ mpc = "join" /\ cur.op = "unregister" /\ task[cur.task].pc = "done"
        /\ task' = [task EXCEPT ![cur.task] = NoTask]
        /\ mpc' = "idle" /\ cur' = NoRequest
        /\ UNCHANGED <<proc, entry, drain, file, todo>>
    BY DEF JoinUnregister, Joined
  <1>2. TypeOK'
    BY <1>1, JoinFrees DEF IInv, TypeOK, Request, NoRequest
  <1>3. TaskShape' /\ ChildOwned' /\ NameUnique'
    BY <1>1, JoinFrees
  <1>4. TaskOwned'
    BY <1>1, JoinFrees, JoinedTask, OwnedByEntry DEF TaskOwned
  <1>5. EntryOwns'
    BY <1>1, JoinFrees, JoinedTask DEF IInv, TypeOK, Entry, EntryOwns
  <1>6. CurOwns' /\ HandoverOwns'
    BY <1>1, JoinedTask DEF CurOwns, HandoverOwns
  <1> QED BY <1>2, <1>3, <1>4, <1>5, <1>6 DEF IInv

\* stop_svc is answered: the entry, whose task was taken, is marked stopped.
LEMMA JoinStopIInv ==
  ASSUME IInv, JoinStop
  PROVE  IInv'
  <1> DEFINE n == cur.name
  <1>1. /\ mpc = "join" /\ cur.op = "stop" /\ task[cur.task].pc = "done"
        /\ task' = [task EXCEPT ![cur.task] = NoTask]
        /\ entry' = [entry EXCEPT ![n].stopped = TRUE]
        /\ mpc' = "idle" /\ cur' = NoRequest
        /\ UNCHANGED <<proc, drain, file, todo>>
    BY DEF JoinStop, Joined
  <1>2. n \in Names /\ entry[n] \in Entry /\ entry[n].task = None
    BY <1>1 DEF IInv, TypeOK, CurOwns
  <1>3. /\ entry' \in [Names -> Entry \cup {None}]
        /\ entry'[n] \in Entry /\ entry'[n].task = None /\ entry'[n].stopped
        /\ \A m \in Names : m # n => entry'[m] = entry[m]
    BY <1>1, <1>2 DEF IInv, TypeOK, Entry
  <1>4. TypeOK'
    BY <1>1, <1>3, JoinFrees DEF IInv, TypeOK, Request, NoRequest
  <1>5. TaskShape' /\ ChildOwned' /\ NameUnique'
    BY <1>1, JoinFrees
  <1>6. TaskOwned'
    <2> SUFFICES ASSUME NEW u \in TaskIds, task'[u].pc # "free"
                 PROVE  entry'[task'[u].name] = Running(task'[u].spec, u)
      BY <1>1 DEF TaskOwned
    <2>1. u # cur.task /\ task'[u] = task[u]
      BY <1>1, JoinFrees
    <2>2. task[u].name \in Names /\ entry[task[u].name] = Running(task[u].spec, u)
      BY <1>1, <2>1, JoinedTask, OwnedByEntry
    <2>3. task[u].name # n
      BY <1>1, <2>1, JoinedTask
    <2> QED BY <1>3, <2>1, <2>2, <2>3
  <1>7. EntryOwns'
    <2> SUFFICES ASSUME NEW m \in Names, entry'[m] # None, m # n
                 PROVE  /\ entry'[m].task # None =>
                             /\ ~entry'[m].stopped
                             /\ task'[entry'[m].task].pc # "free"
                             /\ task'[entry'[m].task].name = m
                             /\ task'[entry'[m].task].spec = entry'[m].spec
                        /\ ~(entry'[m].task = None /\ ~entry'[m].stopped)
      BY <1>1, <1>3 DEF EntryOwns
    <2>1. entry'[m] = entry[m] /\ entry[m] \in Entry /\ entry[m].task # cur.task
      BY <1>1, <1>3, JoinedTask DEF IInv, TypeOK
    <2>2. entry[m].task \in TaskIds \cup {None}
      BY <2>1 DEF Entry
    <2>3. ~(entry[m].task = None /\ ~entry[m].stopped)
      BY <2>1 DEF IInv, EntryOwns
    <2>4. entry[m].task # None =>
            /\ ~entry[m].stopped
            /\ task[entry[m].task].pc # "free"
            /\ task[entry[m].task].name = m
            /\ task[entry[m].task].spec = entry[m].spec
      BY <2>1 DEF IInv, EntryOwns
    <2> QED BY <1>1, <2>1, <2>2, <2>3, <2>4, JoinFrees
  <1>8. CurOwns' /\ HandoverOwns'
    BY <1>1, JoinedTask DEF CurOwns, HandoverOwns
  <1> QED BY <1>4, <1>5, <1>6, <1>7, <1>8 DEF IInv

\* register and restart_svc go on to launch the new task.
LEMMA JoinLaunchIInv ==
  ASSUME IInv, JoinLaunch
  PROVE  IInv'
  <1> DEFINE n == cur.name
             t == cur.task
             s == cur.spec
  <1>1. /\ mpc = "join" /\ cur.op \in {"register", "restart"} /\ task[t].pc = "done"
        /\ task' = [task EXCEPT ![t] = NewTask(n, s)]
        /\ entry' = [entry EXCEPT ![n] = Running(s, t)]
        /\ mpc' = "idle" /\ cur' = NoRequest
        /\ UNCHANGED <<proc, drain, file, todo>>
    BY DEF JoinLaunch, Joined
  <1>2. n \in Names /\ t \in TaskIds /\ s \in Specs
    BY <1>1 DEF IInv, CurOwns
  <1>3. /\ NewTask(n, s) \in Task /\ NewTask(n, s).pc = "spawn"
        /\ NewTask(n, s).name = n /\ NewTask(n, s).spec = s
        /\ NewTask(n, s).child = None /\ NewTask(n, s).pid = None
    BY <1>2 DEF NewTask, Task, TaskPc
  <1>4. /\ Running(s, t) \in Entry /\ Running(s, t).task = t /\ Running(s, t).spec = s
        /\ ~Running(s, t).stopped
    BY <1>2 DEF Running, Entry
  <1>5. /\ task' \in [TaskIds -> Task]
        /\ task'[t] = NewTask(n, s)
        /\ \A u \in TaskIds : u # t => task'[u] = task[u]
        /\ entry' \in [Names -> Entry \cup {None}]
        /\ entry'[n] = Running(s, t)
        /\ \A m \in Names : m # n => entry'[m] = entry[m]
    BY <1>1, <1>2, <1>3, <1>4 DEF IInv, TypeOK
  <1>6. TypeOK'
    BY <1>1, <1>5 DEF IInv, TypeOK, Request, NoRequest
  <1>7. TaskShape'
    BY <1>2, <1>3, <1>5 DEF IInv, TaskShape, HoldsChild, HasReaped
  <1>8. ChildOwned'
    BY <1>1, <1>2, <1>3, <1>5 DEF IInv, ChildOwned, Alive, HoldsChild, HasReaped
  <1>9. NameUnique'
    BY <1>1, <1>2, <1>3, <1>5, JoinedTask DEF IInv, NameUnique
  <1>10. TaskOwned'
    <2> SUFFICES ASSUME NEW u \in TaskIds, task'[u].pc # "free"
                 PROVE  entry'[task'[u].name] = Running(task'[u].spec, u)
      BY <1>1 DEF TaskOwned
    <2>1. CASE u = t
      BY <1>3, <1>5, <2>1
    <2>2. CASE u # t
      <3>1. task'[u] = task[u]
        BY <1>5, <2>2
      <3>2. task[u].name \in Names /\ entry[task[u].name] = Running(task[u].spec, u)
        BY <1>1, <2>2, <3>1, JoinedTask, OwnedByEntry
      <3>3. task[u].name # n
        BY <1>1, <2>2, <3>1, JoinedTask
      <3> QED BY <1>5, <3>1, <3>2, <3>3
    <2> QED BY <2>1, <2>2
  <1>11. EntryOwns'
    <2> SUFFICES ASSUME NEW m \in Names, entry'[m] # None
                 PROVE  /\ entry'[m].task # None =>
                             /\ ~entry'[m].stopped
                             /\ task'[entry'[m].task].pc # "free"
                             /\ task'[entry'[m].task].name = m
                             /\ task'[entry'[m].task].spec = entry'[m].spec
                        /\ ~(entry'[m].task = None /\ ~entry'[m].stopped)
      BY <1>1 DEF EntryOwns
    <2>1. CASE m = n
      BY <1>2, <1>3, <1>4, <1>5, <2>1
    <2>2. CASE m # n
      <3>1. entry'[m] = entry[m] /\ entry[m] \in Entry /\ entry[m].task # t
        BY <1>1, <1>5, <2>2, JoinedTask DEF IInv, TypeOK
      <3>2. entry[m].task \in TaskIds \cup {None}
        BY <3>1 DEF Entry
      <3>3. ~(entry[m].task = None /\ ~entry[m].stopped)
        BY <1>1, <2>2, <3>1 DEF IInv, EntryOwns
      <3>4. entry[m].task # None =>
              /\ ~entry[m].stopped
              /\ task[entry[m].task].pc # "free"
              /\ task[entry[m].task].name = m
              /\ task[entry[m].task].spec = entry[m].spec
        BY <3>1 DEF IInv, EntryOwns
      <3> QED BY <1>5, <3>1, <3>2, <3>3, <3>4
    <2> QED BY <2>1, <2>2
  <1>12. CurOwns' /\ HandoverOwns'
    BY <1>1, JoinedTask DEF CurOwns, HandoverOwns
  <1> QED BY <1>6, <1>7, <1>8, <1>9, <1>10, <1>11, <1>12 DEF IInv

-----------------------------------------------------------------------------
(* Teardown. *)

\* The map is drained: every task is the task of an entry.
LEMMA ShutdownIInv ==
  ASSUME IInv, Shutdown
  PROVE  IInv'
  <1>1. /\ mpc = "idle" /\ mpc' = "teardown"
        /\ drain' = {entry[n].task : n \in {m \in Names : Registered(m)}} \ {None}
        /\ entry' = [n \in Names |-> None]
        /\ UNCHANGED <<proc, task, cur, file, todo>>
    BY DEF Shutdown
  <1>2. cur = NoRequest /\ drain = {} /\ file = {} /\ todo = {} /\ cur.op = "none"
    BY <1>1, IdleIsQuiet DEF NoRequest
  <1>3. \A t \in drain' : t \in TaskIds /\ task[t].pc # "free"
    BY <1>1 DEF IInv, TypeOK, Entry, EntryOwns, Registered
  <1>4. \A t \in TaskIds : task[t].pc # "free" => t \in drain'
    BY <1>1, <1>2, OwnedByEntry DEF Registered
  <1>5. TypeOK' /\ TaskShape' /\ ChildOwned' /\ NameUnique'
    BY <1>1, <1>3 DEF IInv, TypeOK, TaskShape, ChildOwned, NameUnique, Alive
  <1>6. TaskOwned' /\ EntryOwns'
    BY <1>1, <1>2, <1>4 DEF TaskOwned, EntryOwns
  <1>7. CurOwns' /\ HandoverOwns'
    BY <1>1, <1>2, <1>3 DEF CurOwns, HandoverOwns
  <1> QED BY <1>5, <1>6, <1>7 DEF IInv

\* shutdown_all awaits the next task.
LEMMA TeardownNextIInv ==
  ASSUME IInv, TeardownNext
  PROVE  IInv'
  <1>1. PICK t \in drain :
          /\ mpc = "teardown" /\ mpc' = "join" /\ drain' = drain \ {t}
          /\ cur' = [op |-> "shutdown", name |-> None, spec |-> None, task |-> t]
          /\ task' = [task EXCEPT ![t].stop = TRUE]
          /\ UNCHANGED <<proc, entry, file, todo>>
    BY DEF TeardownNext, AwaitStop
  <1>2. t \in TaskIds /\ task[t].pc # "free"
    BY <1>1 DEF IInv, TypeOK, CurOwns
  <1>3. cur' \in Request /\ cur'.op = "shutdown" /\ cur'.task = t
    BY <1>1, <1>2 DEF Request
  <1>4. TypeOK'
    BY <1>1, <1>2, <1>3, StopSent DEF IInv, TypeOK
  <1>5. TaskShape' /\ ChildOwned' /\ NameUnique'
    BY <1>1, <1>2, StopSent
  <1>6. \A n \in Names : entry[n] = None
    BY <1>1 DEF IInv, EntryOwns
  <1>7. TaskOwned'
    BY <1>1, <1>2, <1>3, StopSent DEF IInv, TaskOwned
  <1>8. EntryOwns'
    BY <1>1, <1>6 DEF EntryOwns
  <1>9. CurOwns'
    BY <1>1, <1>2, <1>3, <1>6, StopSent DEF IInv, TypeOK, CurOwns
  <1>10. HandoverOwns'
    BY <1>1 DEF IInv, HandoverOwns
  <1> QED BY <1>4, <1>5, <1>7, <1>8, <1>9, <1>10 DEF IInv

\* A task awaited by shutdown_all has ended.
LEMMA JoinTeardownIInv ==
  ASSUME IInv, JoinTeardown
  PROVE  IInv'
  <1>1. /\ mpc = "join" /\ cur.op = "shutdown" /\ task[cur.task].pc = "done"
        /\ task' = [task EXCEPT ![cur.task] = NoTask]
        /\ mpc' = "teardown" /\ cur' = NoRequest
        /\ UNCHANGED <<proc, entry, drain, file, todo>>
    BY DEF JoinTeardown, Joined
  <1>2. TypeOK'
    BY <1>1, JoinFrees DEF IInv, TypeOK, Request, NoRequest
  <1>3. TaskShape' /\ ChildOwned' /\ NameUnique'
    BY <1>1, JoinFrees
  <1>4. \A n \in Names : entry[n] = None
    BY <1>1 DEF IInv, CurOwns
  <1>5. TaskOwned'
    <2> SUFFICES ASSUME NEW u \in TaskIds, task'[u].pc # "free"
                 PROVE  u \in drain
      BY <1>1 DEF TaskOwned, NoRequest
    <2>1. u # cur.task /\ task'[u] = task[u]
      BY <1>1, JoinFrees
    <2>2. task[u].name \in Names
      BY <2>1 DEF IInv, TaskShape
    <2>3. entry[task[u].name] # Running(task[u].spec, u)
      <3>1. Running(task[u].spec, u) \in Entry
        BY <2>1 DEF IInv, TaskShape, Running, Entry
      <3> QED BY <1>4, <2>2, <3>1
    <2> QED BY <1>1, <2>1, <2>3 DEF IInv, TaskOwned
  <1>6. EntryOwns'
    BY <1>1, <1>4 DEF EntryOwns
  <1>7. CurOwns'
    BY <1>1, JoinFrees DEF IInv, TypeOK, CurOwns
  <1>8. HandoverOwns'
    BY <1>1, JoinedTask DEF HandoverOwns
  <1> QED BY <1>2, <1>3, <1>5, <1>6, <1>7, <1>8 DEF IInv

\* run() returns: no task is left.
LEMMA ExitIInv ==
  ASSUME IInv, Exit
  PROVE  IInv'
  <1>1. /\ mpc = "teardown" /\ drain = {} /\ mpc' = "down"
        /\ UNCHANGED <<proc, task, entry, cur, drain, file, todo>>
    BY DEF Exit
  <1>2. \A t \in TaskIds : task[t].pc = "free"
    BY <1>1 DEF IInv, TaskOwned
  <1>3. TypeOK' /\ TaskShape' /\ ChildOwned' /\ NameUnique'
    BY <1>1 DEF IInv, TypeOK, TaskShape, ChildOwned, NameUnique, Alive
  <1>4. TaskOwned' /\ EntryOwns' /\ CurOwns' /\ HandoverOwns'
    BY <1>1, <1>2 DEF IInv, TaskOwned, EntryOwns, CurOwns, HandoverOwns
  <1> QED BY <1>3, <1>4 DEF IInv

-----------------------------------------------------------------------------
(* The handover from one image to the next. *)

\* A saved pid is the child of the task that serves the saved name.
LEMMA SavedIsChild ==
  ASSUME IInv, NEW sv \in SavedState
  PROVE  /\ sv \in SavedService
         /\ \E t \in TaskIds :
              /\ task[t].child = sv.pid /\ task[t].pc \in HoldsChild \cup HasReaped
              /\ task[t].name = sv.name /\ task[t].spec = sv.spec
  <1> DEFINE t == entry[sv.name].task
  <1>1. /\ sv \in SavedService /\ sv.name \in Names /\ sv.pid \in Pids
        /\ Registered(sv.name) /\ entry[sv.name].spec = sv.spec
        /\ EntryPid(sv.name) = sv.pid
    BY DEF SavedState, SavedService
  <1>2. entry[sv.name] \in Entry /\ sv.pid # None
    BY <1>1 DEF IInv, TypeOK, Registered
  <1>3. t \in TaskIds /\ task[t].pid = sv.pid
    BY <1>1, <1>2 DEF Entry, EntryPid
  <1>4. task[t].name = sv.name /\ task[t].spec = sv.spec
    BY <1>1, <1>3 DEF IInv, EntryOwns, Registered
  <1>5. task[t].child = sv.pid /\ task[t].pc \in HoldsChild \cup HasReaped
    BY <1>2, <1>3 DEF IInv, TaskShape
  <1> QED BY <1>1, <1>3, <1>4, <1>5

\* save_state_for_reexec, whether the write succeeds or not.
LEMMA SaveStateIInv ==
  ASSUME IInv, SaveStateForReexec
  PROVE  IInv'
  <1>1. /\ mpc = "idle" /\ mpc' = "saved" /\ file' \in {SavedState, file}
        /\ UNCHANGED <<proc, task, entry, cur, drain, todo>>
    BY DEF SaveStateForReexec
  <1>2. cur = NoRequest /\ drain = {} /\ file = {} /\ todo = {}
    BY <1>1, IdleIsQuiet
  <1>3. file' \subseteq SavedState
    BY <1>1, <1>2
  <1>4. \A sv \in file' : sv \in SavedService
    BY <1>3 DEF SavedState
  <1>5. TypeOK' /\ TaskShape' /\ ChildOwned' /\ NameUnique'
    BY <1>1, <1>4 DEF IInv, TypeOK, TaskShape, ChildOwned, NameUnique, Alive
  <1>6. TaskOwned'
    BY <1>1, <1>2 DEF IInv, TaskOwned
  <1>7. EntryOwns'
    BY <1>1 DEF IInv, EntryOwns
  <1>8. CurOwns'
    BY <1>1, <1>2 DEF CurOwns
  <1>9. HandoverOwns'
    <2>1. \A sv, sw \in file' : sv.name = sw.name => sv = sw
      BY <1>3 DEF SavedState, SavedService
    <2>2. \A sv \in file' : Alive(sv.pid) =>
            /\ proc[sv.pid].name = sv.name /\ proc[sv.pid].spec = sv.spec
            /\ \E t \in TaskIds : task[t].child = sv.pid
      BY <1>3, SavedIsChild DEF IInv, ChildOwned
    <2> QED BY <1>1, <1>2, <2>1, <2>2 DEF HandoverOwns, Alive
  <1> QED BY <1>5, <1>6, <1>7, <1>8, <1>9 DEF IInv

\* The exec drops every task and every entry.
LEMMA ReexecIInv ==
  ASSUME IInv, Reexec
  PROVE  IInv'
  <1>1. /\ mpc = "saved" /\ mpc' = "down"
        /\ task' = [t \in TaskIds |-> NoTask] /\ entry' = [n \in Names |-> None]
        /\ UNCHANGED <<proc, cur, drain, file, todo>>
    BY DEF Reexec
  <1>2. cur = NoRequest /\ drain = {} /\ todo = {}
    BY <1>1 DEF IInv, CurOwns, HandoverOwns, NoRequest
  <1>3. TypeOK'
    BY <1>1 DEF IInv, TypeOK, Task, NoTask, TaskPc
  <1>4. TaskShape' /\ ChildOwned' /\ NameUnique' /\ TaskOwned'
    BY <1>1 DEF TaskShape, ChildOwned, NameUnique, TaskOwned, NoTask, HoldsChild, HasReaped
  <1>5. EntryOwns' /\ CurOwns'
    BY <1>1, <1>2 DEF EntryOwns, CurOwns
  <1>6. HandoverOwns'
    BY <1>1, <1>2 DEF IInv, HandoverOwns, NoTask, Alive
  <1> QED BY <1>3, <1>4, <1>5, <1>6 DEF IInv

\* The file is removed, whether it was read or not.
LEMMA BootIInv ==
  ASSUME IInv, Boot \/ BootUnread
  PROVE  IInv'
  <1>1. /\ mpc = "down" /\ mpc' = "boot" /\ todo' \subseteq file /\ file' = {}
        /\ UNCHANGED <<proc, task, entry, cur, drain>>
    BY DEF Boot, BootUnread
  <1>2. cur = NoRequest /\ drain = {} /\ \A n \in Names : entry[n] = None
    BY <1>1 DEF IInv, CurOwns, EntryOwns
  <1>3. \A t \in TaskIds : task[t].pc = "free"
    BY <1>1 DEF IInv, HandoverOwns
  <1>4. TypeOK' /\ TaskShape' /\ ChildOwned' /\ NameUnique'
    BY <1>1 DEF IInv, TypeOK, TaskShape, ChildOwned, NameUnique, Alive
  <1>5. TaskOwned' /\ EntryOwns' /\ CurOwns'
    BY <1>1, <1>2, <1>3 DEF TaskOwned, EntryOwns, CurOwns
  <1>6. HandoverOwns'
    BY <1>1, <1>2 DEF IInv, TypeOK, SavedService, HandoverOwns, Alive
  <1> QED BY <1>4, <1>5, <1>6 DEF IInv

\* A saved process that is alive is adopted by a task of its own.
LEMMA AdoptIInv ==
  ASSUME IInv, NEW sv \in todo, Adopt(sv)
  PROVE  IInv'
  <1> DEFINE n == sv.name
             s == sv.spec
  <1>1. PICK t \in TaskIds :
          /\ mpc = "boot" /\ Alive(sv.pid) /\ todo' = todo \ {sv}
          /\ task[t].pc = "free"
          /\ task' = [task EXCEPT ![t] = AdoptedTask(n, s, sv.pid)]
          /\ entry' = [entry EXCEPT ![n] = Running(s, t)]
          /\ UNCHANGED <<proc, mpc, cur, drain, file>>
    BY DEF Adopt, FreeTask
  <1>2. n \in Names /\ s \in Specs /\ sv.pid \in Pids
    BY DEF IInv, TypeOK, SavedService
  <1>3. /\ entry[n] = None /\ drain = {} /\ file = {} /\ cur = NoRequest
        /\ proc[sv.pid].name = n /\ proc[sv.pid].spec = s
        /\ \A sw \in todo : sw.name = n => sw = sv
    BY <1>1 DEF IInv, CurOwns, HandoverOwns
  <1>4. \A u \in TaskIds : task[u].pc # "free" =>
          task[u].name # n /\ entry[task[u].name] = Running(task[u].spec, u)
    BY <1>1, <1>3, OwnedByEntry
  <1>5. LET k == AdoptedTask(n, s, sv.pid) IN
        /\ k \in Task /\ k.pc = "adopted" /\ k.name = n /\ k.spec = s
        /\ k.child = sv.pid /\ k.pid = sv.pid
    BY <1>2 DEF AdoptedTask, Task, TaskPc
  <1>6. /\ Running(s, t) \in Entry /\ Running(s, t).task = t /\ Running(s, t).spec = s
        /\ ~Running(s, t).stopped
    BY <1>2 DEF Running, Entry
  <1>7. /\ task' \in [TaskIds -> Task]
        /\ task'[t] = AdoptedTask(n, s, sv.pid)
        /\ \A u \in TaskIds : u # t => task'[u] = task[u]
        /\ entry' \in [Names -> Entry \cup {None}]
        /\ entry'[n] = Running(s, t)
        /\ \A m \in Names : m # n => entry'[m] = entry[m]
    BY <1>1, <1>2, <1>5, <1>6 DEF IInv, TypeOK
  <1>8. TypeOK'
    BY <1>1, <1>7 DEF IInv, TypeOK
  <1>9. TaskShape'
    BY <1>2, <1>5, <1>7 DEF IInv, TaskShape, HoldsChild, HasReaped
  <1>10. ChildOwned'
    BY <1>1, <1>3, <1>5, <1>7 DEF IInv, ChildOwned, Alive, HoldsChild, HasReaped
  <1>11. NameUnique'
    BY <1>4, <1>5, <1>7 DEF IInv, NameUnique
  <1>12. TaskOwned'
    <2> SUFFICES ASSUME NEW u \in TaskIds, task'[u].pc # "free"
                 PROVE  entry'[task'[u].name] = Running(task'[u].spec, u)
      BY <1>1 DEF TaskOwned
    <2>1. CASE u = t
      BY <1>5, <1>7, <2>1
    <2>2. CASE u # t
      BY <1>4, <1>7, <2>2 DEF IInv, TaskShape
    <2> QED BY <2>1, <2>2
  <1>13. EntryOwns'
    <2> SUFFICES ASSUME NEW m \in Names, entry'[m] # None
                 PROVE  /\ entry'[m].task # None =>
                             /\ ~entry'[m].stopped
                             /\ task'[entry'[m].task].pc # "free"
                             /\ task'[entry'[m].task].name = m
                             /\ task'[entry'[m].task].spec = entry'[m].spec
                        /\ ~(entry'[m].task = None /\ ~entry'[m].stopped)
      BY <1>1 DEF EntryOwns
    <2>1. CASE m = n
      BY <1>2, <1>5, <1>6, <1>7, <2>1
    <2>2. CASE m # n
      <3>1. entry'[m] = entry[m] /\ entry[m] \in Entry
        BY <1>7, <2>2 DEF IInv, TypeOK
      <3>2. entry[m].task \in TaskIds \cup {None}
        BY <3>1 DEF Entry
      <3>3. /\ ~(entry[m].task = None /\ ~entry[m].stopped)
            /\ entry[m].task # None =>
                 /\ ~entry[m].stopped
                 /\ task[entry[m].task].pc # "free"
                 /\ task[entry[m].task].name = m
                 /\ task[entry[m].task].spec = entry[m].spec
        BY <1>1, <3>1 DEF IInv, EntryOwns
      <3> QED BY <1>1, <1>7, <3>1, <3>2, <3>3
    <2> QED BY <2>1, <2>2
  <1>14. CurOwns'
    BY <1>1, <1>3 DEF CurOwns
  <1>15. HandoverOwns'
    <2>1. \A sw \in todo' : sw.name \in Names /\ sw.name # n
      BY <1>1, <1>3 DEF IInv, TypeOK, SavedService
    <2> QED BY <1>1, <1>3, <1>7, <2>1 DEF IInv, HandoverOwns, Alive
  <1> QED BY <1>8, <1>9, <1>10, <1>11, <1>12, <1>13, <1>14, <1>15 DEF IInv

\* A saved process that is gone is skipped, and the loop starts once the list is
\* empty; neither touches a task or an entry.
LEMMA BootLoopIInv ==
  ASSUME IInv, Serve \/ \E sv \in todo : AdoptFails(sv)
  PROVE  IInv'
  <1>1. /\ mpc = "boot" /\ todo' \subseteq todo /\ mpc' \in {"boot", "idle"}
        /\ mpc' = "idle" => todo' = {}
        /\ UNCHANGED <<proc, task, entry, cur, drain, file>>
    BY DEF Serve, AdoptFails
  <1>2. TypeOK' /\ TaskShape' /\ ChildOwned' /\ NameUnique'
    BY <1>1 DEF IInv, TypeOK, TaskShape, ChildOwned, NameUnique, Alive
  <1>3. TaskOwned' /\ CurOwns'
    BY <1>1 DEF IInv, TaskOwned, CurOwns
  <1>4. EntryOwns'
    BY <1>1 DEF IInv, EntryOwns
  <1>5. HandoverOwns'
    BY <1>1 DEF IInv, HandoverOwns, Alive
  <1> QED BY <1>2, <1>3, <1>4, <1>5 DEF IInv

\* The supervisor dies and its unit is cleaned up.
LEMMA DieIInv ==
  ASSUME IInv, Die
  PROVE  IInv'
  <1> USE DEF Die
  <1>1. TypeOK'
    BY DEF IInv, TypeOK, Proc, NoProc, Task, NoTask, TaskPc, Request, NoRequest
  <1>2. TaskShape' /\ ChildOwned' /\ NameUnique' /\ TaskOwned'
    BY DEF TaskShape, ChildOwned, NameUnique, TaskOwned, NoTask, HoldsChild, HasReaped
  <1>3. EntryOwns' /\ CurOwns'
    BY DEF EntryOwns, CurOwns
  <1>4. HandoverOwns'
    BY DEF IInv, TypeOK, SavedService, HandoverOwns, Alive, NoProc, NoTask
  <1> QED BY <1>1, <1>2, <1>3, <1>4 DEF IInv

-----------------------------------------------------------------------------
(* The invariant, and what follows from it. *)

\* Every step of the supervisor, its tasks and its children preserves IInv.
LEMMA NextIInv ==
  ASSUME IInv, [Next]_vars
  PROVE  IInv'
  <1>1. CASE \E t \in TaskIds : TaskStep(t)
    BY <1>1, TaskStepIInv
  <1>2. CASE RequestStep
    <2>1. CASE \E n \in Names, s \in Specs : RegisterNew(n, s) \/ RegisterChanged(n, s)
      BY <2>1, RegisterNewIInv, RegisterChangedIInv
    <2>2. CASE \E n \in Names :
                 \/ StartSvc(n) \/ UnregisterRunning(n) \/ UnregisterStopped(n)
                 \/ StopSvc(n, "stop") \/ StopSvc(n, "restart") \/ KillSvc(n)
      BY <2>2, StartSvcIInv, UnregisterRunningIInv, UnregisterStoppedIInv, StopSvcIInv,
         KillSvcIInv
    <2>3. CASE Shutdown \/ SaveStateForReexec
      BY <2>3, ShutdownIInv, SaveStateIInv
    <2> QED BY <1>2, <2>1, <2>2, <2>3 DEF RequestStep
  <1>3. CASE LoopStep
    BY <1>3, JoinUnregisterIInv, JoinStopIInv, JoinLaunchIInv, TeardownNextIInv,
       JoinTeardownIInv, ExitIInv, ReexecIInv, BootIInv, AdoptIInv, BootLoopIInv
    DEF LoopStep
  <1>4. CASE \E p \in Pids : ProcExit(p)
    BY <1>4, ProcExitIInv
  <1>5. CASE Die
    BY <1>5, DieIInv
  <1>6. CASE UNCHANGED vars
    BY <1>6 DEF vars, IInv, TypeOK, TaskShape, ChildOwned, NameUnique, TaskOwned,
                EntryOwns, CurOwns, HandoverOwns, Alive
  <1> QED BY <1>1, <1>2, <1>3, <1>4, <1>5, <1>6 DEF Next

\* IInv is an invariant of the supervisor: every task is accounted for by an
\* entry, an awaiting handler or the teardown, every child by its task, and every
\* pid in the handover file is dead or a process of the service it is listed for.
THEOREM SupervisorInvariant == Spec => []IInv
  <1>1. Init => IInv
    BY InitIInv
  <1>2. IInv /\ [Next]_vars => IInv'
    BY NextIInv
  <1> QED BY <1>1, <1>2, PTL DEF Spec

\* A live process that is tracked belongs to a name: through the task that holds
\* it, or through the handover file that lists it.
LEMMA TrackedBy ==
  ASSUME IInv, NEW p \in Pids, Tracked(p)
  PROVE  \/ \E t \in TaskIds : /\ task[t].child = p /\ task[t].pc # "free"
                               /\ task[t].name = proc[p].name
                               /\ task[t].spec = proc[p].spec
         \/ /\ mpc \in {"down", "boot"}
            /\ \E sv \in file \cup todo : sv.pid = p /\ sv.name = proc[p].name
  <1>1. ASSUME NEW t \in TaskIds, task[t].child = p
        PROVE  /\ task[t].pc # "free"
               /\ task[t].name = proc[p].name /\ task[t].spec = proc[p].spec
    <2>1. task[t].pc \in HoldsChild \cup HasReaped
      BY <1>1 DEF IInv, TaskShape
    <2>2. task[t].pc \in HoldsChild
      BY <1>1, <2>1 DEF IInv, ChildOwned, Tracked
    <2> QED BY <1>1, <2>2 DEF IInv, ChildOwned, HoldsChild
  <1>2. CASE \E t \in TaskIds : task[t].child = p
    BY <1>1, <1>2
  <1>3. CASE \E sv \in file \cup todo : sv.pid = p
    <2>1. PICK sv \in file \cup todo : sv.pid = p
      BY <1>3
    <2>2. sv.name = proc[p].name
      BY <2>1 DEF IInv, HandoverOwns, Tracked
    <2>3. CASE mpc = "saved"
      <3>1. sv \in file
        BY <2>3 DEF IInv, HandoverOwns
      <3> QED BY <1>1, <2>1, <2>3, <3>1 DEF IInv, HandoverOwns, Tracked
    <2>4. CASE mpc # "saved"
      BY <2>1, <2>2, <2>4 DEF IInv, TypeOK, HandoverOwns
    <2> QED BY <2>3, <2>4
  <1> QED BY <1>2, <1>3 DEF Tracked

\* IInv => OneProcessPerName, state by state.
LEMMA OneProcessFromIInv ==
  ASSUME IInv
  PROVE  OneProcessPerName
  <1> SUFFICES ASSUME NEW p \in Pids, NEW q \in Pids, Tracked(p), Tracked(q),
                      proc[p].name = proc[q].name
               PROVE  p = q
    BY DEF OneProcessPerName
  <1> DEFINE ByTask(r, t) == /\ task[t].child = r /\ task[t].pc # "free"
                             /\ task[t].name = proc[r].name
             ByFile(r, sv) == sv.pid = r /\ sv.name = proc[r].name
  <1>1. ASSUME NEW t \in TaskIds, NEW u \in TaskIds, ByTask(p, t), ByTask(q, u)
        PROVE  p = q
    BY <1>1 DEF IInv, NameUnique
  <1>2. ASSUME NEW sv \in file \cup todo, NEW sw \in file \cup todo,
               ByFile(p, sv), ByFile(q, sw)
        PROVE  p = q
    BY <1>2 DEF IInv, HandoverOwns
  <1>3. ASSUME NEW t \in TaskIds, NEW sv \in file \cup todo, mpc \in {"down", "boot"},
               NEW r \in Pids, NEW o \in Pids, proc[r].name = proc[o].name,
               ByTask(r, t), ByFile(o, sv)
        PROVE  FALSE
    <2>1. mpc = "boot" /\ sv \in todo
      BY <1>3 DEF IInv, HandoverOwns
    <2>2. entry[sv.name] = None /\ drain = {}
      BY <2>1 DEF IInv, HandoverOwns, CurOwns
    <2>3. entry[task[t].name] # None
      BY <1>3, <2>1, <2>2, OwnedByEntry
    <2> QED BY <1>3, <2>2, <2>3
  <1> HIDE DEF ByTask, ByFile
  <1>4. \/ \E t \in TaskIds : ByTask(p, t)
        \/ mpc \in {"down", "boot"} /\ \E sv \in file \cup todo : ByFile(p, sv)
    BY TrackedBy DEF ByTask, ByFile
  <1>5. \/ \E t \in TaskIds : ByTask(q, t)
        \/ mpc \in {"down", "boot"} /\ \E sv \in file \cup todo : ByFile(q, sv)
    BY TrackedBy DEF ByTask, ByFile
  <1> QED BY <1>1, <1>2, <1>3, <1>4, <1>5

\* register awaits the task it replaces, restart_svc and stop_svc await the task
\* they took, and the new image adopts a saved pid under the saved name only: for
\* any number of services and any interleaving the supervisor never runs two
\* processes of one service.
THEOREM OneProcess == Spec => []OneProcessPerName
  <1>1. IInv => OneProcessPerName
    BY OneProcessFromIInv
  <1> QED BY <1>1, SupervisorInvariant, PTL

\* Between two requests every process belongs to a registered service that is not
\* stopped and runs the spec the registry holds.
THEOREM IdleRegistryAgrees == Spec => []IdleAgrees
  <1>1. ASSUME IInv PROVE IdleAgrees
    <2> SUFFICES ASSUME mpc = "idle", NEW p \in Pids, Tracked(p)
                 PROVE  LET e == entry[proc[p].name] IN
                        e # None /\ ~e.stopped /\ e.spec = proc[p].spec
      BY DEF IdleAgrees
    <2>1. PICK t \in TaskIds : /\ task[t].pc # "free"
                               /\ task[t].name = proc[p].name /\ task[t].spec = proc[p].spec
      BY <1>1, TrackedBy
    <2> QED BY <1>1, <2>1, IdleIsQuiet, OwnedByEntry
  <1> QED BY <1>1, SupervisorInvariant, PTL

\* The pid that List reports and kill_svc signals is never that of a process of
\* another service.
THEOREM PidsAreOwn == Spec => []PidIsOwn
  <1>1. ASSUME IInv PROVE PidIsOwn
    <2> SUFFICES ASSUME NEW n \in Names, EntryPid(n) # None, Alive(EntryPid(n))
                 PROVE  proc[EntryPid(n)].name = n
      BY DEF PidIsOwn
    <2> DEFINE t == entry[n].task
    <2>1. Registered(n) /\ t # None /\ EntryPid(n) = task[t].pid
      BY DEF EntryPid
    <2>2. t \in TaskIds /\ task[t].name = n
      BY <1>1, <2>1 DEF IInv, TypeOK, Entry, EntryOwns, Registered
    <2>3. task[t].child = EntryPid(n) /\ task[t].pc \in HoldsChild \cup HasReaped
      BY <1>1, <2>1, <2>2 DEF IInv, TaskShape
    <2> QED BY <1>1, <2>2, <2>3 DEF IInv, ChildOwned
  <1> QED BY <1>1, SupervisorInvariant, PTL

\* shutdown_all returns only when no child of a task is left.
THEOREM ShutdownLeavesNothing == Spec => []NothingLeftBehind
  <1>1. ASSUME IInv PROVE NothingLeftBehind
    <2> SUFFICES ASSUME mpc = "teardown", drain = {}, NEW p \in Pids, Tracked(p)
                 PROVE  FALSE
      BY DEF NothingLeftBehind
    <2>1. \A t \in TaskIds : task[t].pc = "free"
      BY <1>1 DEF IInv, TaskOwned
    <2> QED BY <1>1, <2>1, TrackedBy
  <1> QED BY <1>1, SupervisorInvariant, PTL

-----------------------------------------------------------------------------
(* What a step never loses. *)

\* A child stays tracked by a step that keeps it in a task.
LEMMA ChildKept ==
  ASSUME NEW p \in Pids, Alive(p), proc'[p] = proc[p], NEW t \in TaskIds, task'[t].child = p
  PROVE  Tracked(p)'
  BY DEF Tracked, Alive

\* A live child of a task is one the task has not reaped.
LEMMA LiveChildHeld ==
  ASSUME IInv, NEW p \in Pids, Alive(p), NEW t \in TaskIds, task[t].child = p
  PROVE  task[t].pc \in HoldsChild
  <1>1. task[t].pc \in HoldsChild \cup HasReaped
    BY DEF IInv, TaskShape
  <1> QED BY <1>1 DEF IInv, ChildOwned

\* A task loses a live child by reaping it only; the other steps of the system,
\* the exec and the death of the supervisor apart, keep the children of all tasks.
LEMMA TaskKeeps ==
  ASSUME IInv, Next, NEW p \in Pids, Alive(p), proc'[p] = proc[p],
         NEW t \in TaskIds, task[t].child = p, ~Tracked(p)'
  PROVE  Reexec
  <1> USE DEF HoldsChild, HasReaped
  <1>1. task[t].pc \in HoldsChild /\ t \in TaskIds /\ task \in [TaskIds -> Task]
    BY LiveChildHeld DEF IInv, TypeOK
  <1>2. task'[t].child # p
    BY ChildKept
  <1>3. ASSUME NEW u \in TaskIds, TaskStep(u) PROVE FALSE
    <2>1. CASE u = t
      <3>1. proc'[p] = NoProc \/ task'[t].child = p
        BY <1>1, <1>3, <2>1 DEF IInv, TypeOK, TaskStep, TaskSpawn, TaskSpawnFails, TaskStorePid,
             TaskChildExited, TaskStopRequested, TaskStopTryWait, TaskStopKill, TaskClearPid,
             TaskRespawn, TaskBackoffStop, AdoptedExited, AdoptedStopRequested, AdoptedStopReap,
             Task
      <3> QED BY <1>2, <3>1 DEF Alive, NoProc
    <2>2. CASE u # t
      BY <1>1, <1>2, <1>3, <2>2 DEF TaskStep, TaskSpawn, TaskSpawnFails, TaskStorePid,
           TaskChildExited, TaskStopRequested, TaskStopTryWait, TaskStopKill, TaskClearPid,
           TaskRespawn, TaskBackoffStop, AdoptedExited, AdoptedStopRequested, AdoptedStopReap
    <2> QED BY <2>1, <2>2
  <1>4. ASSUME NEW u, NEW req, AwaitStop(u, req) PROVE FALSE
    BY <1>1, <1>2, <1>4 DEF AwaitStop, Task
  <1>5. ASSUME NEW n, NEW s, Launch(n, s, entry) PROVE FALSE
    BY <1>1, <1>2, <1>5 DEF Launch, FreeTask
  <1>6. ~RequestStep
    BY <1>2, <1>4, <1>5 DEF RequestStep, RegisterNew, RegisterChanged, StartSvc,
       UnregisterRunning, UnregisterStopped, StopSvc, KillSvc, Shutdown, SaveStateForReexec
  <1>7. ASSUME NEW op, Joined(op) PROVE cur.task # t
    BY <1>1, <1>7 DEF Joined
  <1>8. ~(JoinUnregister \/ JoinStop \/ JoinLaunch \/ JoinTeardown)
    BY <1>1, <1>2, <1>7 DEF JoinUnregister, JoinStop, JoinLaunch, JoinTeardown
  <1>9. ASSUME NEW sv, Adopt(sv) PROVE FALSE
    BY <1>1, <1>2, <1>9 DEF Adopt, FreeTask
  <1>10. LoopStep => Reexec
    BY <1>2, <1>4, <1>8, <1>9 DEF LoopStep, TeardownNext, Exit, Boot, BootUnread, Serve, AdoptFails
  <1>11. ASSUME NEW q \in Pids, ProcExit(q) PROVE FALSE
    BY <1>2, <1>11 DEF ProcExit
  <1>12. ~Die
    BY DEF Die, Alive, NoProc
  <1> QED BY <1>3, <1>6, <1>10, <1>11, <1>12 DEF Next

\* A live process that the handover file or the list read from it names stays
\* tracked, unless the file is dropped unread: it is otherwise only emptied into the
\* list, and a process leaves the list for a task of its own.
LEMMA FileKeeps ==
  ASSUME IInv, Next, ~BootUnread, NEW p \in Pids, Alive(p), proc'[p] = proc[p],
         NEW sv \in file \cup todo, sv.pid = p
  PROVE  Tracked(p)'
  <1>1. CASE sv \in file' \cup todo'
    BY <1>1 DEF Tracked, Alive
  <1>2. CASE sv \notin file' \cup todo'
    <2>1. mpc \in {"saved", "down", "boot"}
      BY DEF IInv, HandoverOwns
    <2>2. ~\E t \in TaskIds : TaskStep(t)
      BY <1>2 DEF TaskStep, TaskSpawn, TaskSpawnFails, TaskStorePid, TaskChildExited,
         TaskStopRequested, TaskStopTryWait, TaskStopKill, TaskClearPid, TaskRespawn,
         TaskBackoffStop, AdoptedExited, AdoptedStopRequested, AdoptedStopReap
    <2>3. ~RequestStep
      BY <2>1 DEF RequestStep, RegisterNew, RegisterChanged, StartSvc, UnregisterRunning,
         UnregisterStopped, StopSvc, KillSvc, Shutdown, SaveStateForReexec
    <2>4. ~Die
      BY DEF Die, Alive, NoProc
    <2>5. ~\E q \in Pids : ProcExit(q)
      BY <1>2 DEF ProcExit
    <2>6. LoopStep
      BY <2>2, <2>3, <2>4, <2>5 DEF Next
    <2>7. ~Boot
      BY <1>2 DEF Boot, IInv, HandoverOwns
    <2>8. \E sw \in todo : Adopt(sw) /\ sw = sv
      BY <1>2, <2>1, <2>6, <2>7 DEF LoopStep, JoinUnregister, JoinStop, JoinLaunch, Joined,
         TeardownNext, JoinTeardown, Exit, Reexec, Serve, Adopt, AdoptFails
    <2>9. Adopt(sv)
      BY <2>8
    <2>10. \E t \in TaskIds : task'[t].child = p
      BY <2>9 DEF Adopt, AdoptedTask, IInv, TypeOK
    <2> QED BY <2>10, ChildKept
  <1> QED BY <1>1, <1>2

\* No step of the system loses track of a live process, except the exec, and that
\* only of a process the state file does not list, and the boot that drops the file,
\* and that only of the processes the file lists.
THEOREM OnlyHandoverForgets == Spec => ForgetsOnlyInHandover
  <1> DEFINE Unlisted(p) == mpc = "saved" /\ mpc' = "down" /\ (\A sv \in file : sv.pid # p)
             Dropped(p) == /\ mpc = "down" /\ mpc' = "boot" /\ todo' = {}
                           /\ \E sv \in file : sv.pid = p
  <1>1. ASSUME IInv, [Next]_vars, NEW p \in Pids, Tracked(p), proc'[p] = proc[p], ~Tracked(p)'
        PROVE  Unlisted(p) \/ Dropped(p)
    <2>1. Alive(p)
      BY <1>1 DEF Tracked
    <2>2. Next
      BY <1>1 DEF vars, Tracked, Alive
    <2>3. CASE BootUnread
      <3>1. todo = {} /\ \A t \in TaskIds : task[t].child = None
        BY <1>1, <2>3 DEF BootUnread, IInv, HandoverOwns, TaskShape, NoTask
      <3>2. \E sv \in file : sv.pid = p
        BY <1>1, <3>1 DEF Tracked
      <3> QED BY <2>3, <3>2 DEF BootUnread
    <2>4. CASE ~BootUnread
      <3>1. \A sv \in file \cup todo : sv.pid # p
        BY <1>1, <2>1, <2>2, <2>4, FileKeeps
      <3>2. PICK t \in TaskIds : task[t].child = p
        BY <1>1, <3>1 DEF Tracked
      <3>3. Reexec
        BY <1>1, <2>1, <2>2, <3>2, TaskKeeps
      <3> QED BY <3>1, <3>3 DEF Reexec
    <2> QED BY <2>3, <2>4
  <1>2. IInv /\ [Next]_vars =>
          [\A p \in Pids : Tracked(p) /\ proc'[p] = proc[p] /\ ~Tracked(p)' =>
             \/ mpc = "saved" /\ mpc' = "down" /\ (\A sv \in file : sv.pid # p)
             \/ /\ mpc = "down" /\ mpc' = "boot" /\ todo' = {}
                /\ \E sv \in file : sv.pid = p]_vars
    BY <1>1
  <1> QED BY <1>2, SupervisorInvariant, PTL DEF Spec, ForgetsOnlyInHandover

(***************************************************************************)
(* The supervisor implements ServiceContract, for any number of services,  *)
(* specs, pids and tasks: every step of its main loop, its tasks and its   *)
(* children is a step of the contract, or changes nothing the daemon may   *)
(* rely on.                                                                *)
(***************************************************************************)

\* The contract's view of one service, as a function of the tasks and entries.
RegOf(k, e, n) ==
    IF \E t \in TaskIds : k[t].name = n
    THEN [spec |-> (CHOOSE tk \in {k[t] : t \in TaskIds} : tk.name = n).spec,
          stopped |-> FALSE]
    ELSE IF e[n] # None THEN [spec |-> e[n].spec, stopped |-> TRUE]
    ELSE None

Up(s) == [spec |-> s, stopped |-> FALSE]
Halted(s) == [spec |-> s, stopped |-> TRUE]

\* The processes of service n that the contract sees.
Runs(p, n) == Tracked(p) /\ proc[p].name = n

LEMMA RegIs ==
  /\ ContractReg = [n \in Names |-> RegOf(task, entry, n)]
  /\ ContractReg' = [n \in Names |-> RegOf(task', entry', n)]
  BY DEF ContractReg, RegOf, Registered

LEMMA RunIs ==
  /\ ContractRun = [n \in Names |-> {[pid |-> p, spec |-> proc[p].spec] :
                                       p \in {q \in Pids : Runs(q, n)}}]
  /\ ContractRun' = [n \in Names |-> {[pid |-> p, spec |-> proc'[p].spec] :
                                        p \in {q \in Pids : Runs(q, n)'}}]
  BY DEF ContractRun, Runs

\* A service with a task is registered with the spec of that task.
LEMMA RegServed ==
  ASSUME NEW k, NEW e, NEW n, NEW t \in TaskIds, k[t].name = n,
         \A u \in TaskIds : k[u].name = n => u = t
  PROVE  RegOf(k, e, n) = Up(k[t].spec)
  <1> DEFINE S == {k[u] : u \in TaskIds}
             c == CHOOSE tk \in S : tk.name = n
  <1>1. c \in S /\ c.name = n
    OBVIOUS
  <1>2. c = k[t]
    BY <1>1
  <1> QED BY <1>2 DEF RegOf, Up

LEMMA UpIsSome ==
  ASSUME NEW s \in Specs
  PROVE  /\ Up(s) # None /\ Up(s).spec = s /\ ~Up(s).stopped
         /\ Halted(s) # None /\ Halted(s).spec = s /\ Halted(s).stopped
  <1>1. {Up(s), Halted(s)} \subseteq [spec: Specs, stopped: BOOLEAN]
    BY DEF Up, Halted
  <1>2. Up(s) # None /\ Halted(s) # None
    BY <1>1, NoRegistrationAssumption
  <1> QED BY <1>2 DEF Up, Halted

LEMMA RegUnserved ==
  ASSUME NEW k, NEW e, NEW n, \A t \in TaskIds : k[t].name # n
  PROVE  RegOf(k, e, n) = IF e[n] # None THEN Halted(e[n].spec) ELSE None
  BY DEF RegOf, Halted

\* The task of a service is unique, and a task with a service is not free.
LEMMA OneServer ==
  ASSUME IInv, NEW n \in Names, NEW t \in TaskIds, task[t].name = n
  PROVE  task[t].pc # "free" /\ \A u \in TaskIds : task[u].name = n => u = t
  <1>1. \A u \in TaskIds : task[u].name = n => task[u].pc # "free"
    BY DEF IInv, TaskShape, NoTask
  <1> QED BY <1>1 DEF IInv, NameUnique

LEMMA Served ==
  ASSUME IInv, NEW n \in Names, NEW t \in TaskIds, task[t].name = n
  PROVE  RegOf(task, entry, n) = Up(task[t].spec)
  <1>1. \A u \in TaskIds : task[u].name = n => u = t
    BY OneServer
  <1> QED BY <1>1, RegServed

LEMMA ServedNext ==
  ASSUME IInv', NEW n \in Names, NEW t \in TaskIds, task'[t].name = n
  PROVE  RegOf(task', entry', n) = Up(task'[t].spec)
  <1>1. \A u \in TaskIds : task'[u].name = n => task'[u].pc # "free"
    BY DEF IInv, TaskShape, NoTask
  <1>2. \A u \in TaskIds : task'[u].name = n => u = t
    BY <1>1 DEF IInv, NameUnique
  <1> QED BY <1>2, RegServed

-----------------------------------------------------------------------------
(* Steps that change only a part of what the contract sees. *)

\* The registry does not change when the tasks serve what they served and the
\* entries without a task stay.
LEMMA RegStays ==
  ASSUME IInv, IInv', NEW n \in Names,
         \A t \in TaskIds : /\ task'[t].name = n <=> task[t].name = n
                            /\ task[t].name = n => task'[t].spec = task[t].spec,
         (\A t \in TaskIds : task[t].name # n) => entry'[n] = entry[n]
  PROVE  RegOf(task', entry', n) = RegOf(task, entry, n)
  <1>1. CASE \E t \in TaskIds : task[t].name = n
    <2>1. PICK t \in TaskIds : task[t].name = n
      BY <1>1
    <2>2. task'[t].name = n /\ task'[t].spec = task[t].spec
      BY <2>1
    <2> QED BY <2>1, <2>2, Served, ServedNext
  <1>2. CASE \A t \in TaskIds : task[t].name # n
    BY <1>2, RegUnserved
  <1> QED BY <1>1, <1>2

\* The processes of a service do not change when the same ones are tracked.
LEMMA RunStays ==
  ASSUME \A p \in Pids : Tracked(p)' <=> Tracked(p),
         \A p \in Pids : Tracked(p) => /\ proc'[p].name = proc[p].name
                                       /\ proc'[p].spec = proc[p].spec
  PROVE  ContractRun' = ContractRun
  <1>1. \A n \in Names :
          {q \in Pids : Runs(q, n)'} = {q \in Pids : Runs(q, n)}
    BY DEF Runs
  <1>2. ASSUME NEW n \in Names
        PROVE  {[pid |-> p, spec |-> proc'[p].spec] : p \in {q \in Pids : Runs(q, n)'}}
                 = {[pid |-> p, spec |-> proc[p].spec] : p \in {q \in Pids : Runs(q, n)}}
    <2>1. \A q \in {q \in Pids : Runs(q, n)} : proc'[q].spec = proc[q].spec
      BY DEF Runs
    <2> QED BY <1>1, <2>1
  <1> QED BY <1>2, RunIs

\* The processes of one service change.
LEMMA RunChanges ==
  ASSUME NEW n \in Names, NEW S,
         \A m \in Names : m # n => \A q \in Pids : Runs(q, m)' <=> Runs(q, m),
         \A m \in Names : m # n => \A q \in Pids : Runs(q, m) => proc'[q].spec = proc[q].spec,
         {[pid |-> q, spec |-> proc'[q].spec] : q \in {q \in Pids : Runs(q, n)'}} = S
  PROVE  ContractRun' = [ContractRun EXCEPT ![n] = S]
  <1>1. ASSUME NEW m \in Names, m # n
        PROVE  {[pid |-> q, spec |-> proc'[q].spec] : q \in {q \in Pids : Runs(q, m)'}}
                 = {[pid |-> q, spec |-> proc[q].spec] : q \in {q \in Pids : Runs(q, m)}}
    <2>1. {q \in Pids : Runs(q, m)'} = {q \in Pids : Runs(q, m)}
      BY <1>1
    <2>2. \A q \in {q \in Pids : Runs(q, m)} : proc'[q].spec = proc[q].spec
      BY <1>1
    <2> QED BY <2>1, <2>2
  <1> QED BY <1>1, RunIs

\* The processes stay when the tasks keep their children, or drop a dead one, and
\* nothing else changes that tracks a process.
LEMMA RunSame ==
  ASSUME IInv, UNCHANGED <<proc, file, todo>>,
         \A u \in TaskIds : task'[u].child # task[u].child =>
            task'[u].child = None /\ (task[u].child \in Pids => ~Alive(task[u].child))
  PROVE  ContractRun' = ContractRun
  <1>1. \A p \in Pids : Alive(p) =>
          ((\E u \in TaskIds : task'[u].child = p) <=> \E u \in TaskIds : task[u].child = p)
    OBVIOUS
  <1>2. \A p \in Pids : Tracked(p)' <=> Tracked(p)
    BY <1>1 DEF Tracked, Alive
  <1> QED BY <1>2, RunStays

\* A service without a process.
LEMMA RunEmpty ==
  ASSUME NEW n \in Names, \A p \in Pids : ~Runs(p, n)
  PROVE  ContractRun[n] = {}
  BY RunIs

\* Outside of a handover a process has a task.
LEMMA NoTaskNoRun ==
  ASSUME IInv, mpc \notin {"down", "boot"}, NEW n \in Names,
         \A t \in TaskIds : task[t].child # None => task[t].name # n
  PROVE  \A p \in Pids : ~Runs(p, n)
  BY TrackedBy DEF Runs

\* A service whose task has no child has no process: during a boot the processes
\* still to be adopted are those of services without a task.
LEMMA ChildlessNoRun ==
  ASSUME IInv, NEW n \in Names, NEW t \in TaskIds, task[t].name = n, task[t].child = None
  PROVE  \A p \in Pids : ~Runs(p, n)
  <1>1. task[t].pc # "free" /\ \A u \in TaskIds : task[u].name = n => u = t
    BY OneServer
  <1>2. mpc # "down"
    BY <1>1 DEF IInv, HandoverOwns
  <1>3. mpc = "boot" => entry[n] # None /\ file = {}
    <2>1. mpc = "boot" => drain = {}
      BY DEF IInv, CurOwns
    <2> QED BY <1>1, <2>1, OwnedByEntry DEF IInv, HandoverOwns
  <1>4. mpc = "boot" => \A sv \in file \cup todo : sv.name # n
    BY <1>3 DEF IInv, HandoverOwns
  <1> QED BY <1>1, <1>2, <1>4, TrackedBy DEF Runs

\* A step that leaves the registry and the processes alone is a stutter.
LEMMA Stutters ==
  ASSUME \A n \in Names : RegOf(task', entry', n) = RegOf(task, entry, n),
         ContractRun' = ContractRun
  PROVE  UNCHANGED <<ContractReg, ContractRun>>
  BY RegIs

\* One registration changes.
LEMMA RegChanges ==
  ASSUME NEW n \in Names, NEW v, RegOf(task', entry', n) = v,
         \A m \in Names : m # n => RegOf(task', entry', m) = RegOf(task, entry, m)
  PROVE  ContractReg' = [ContractReg EXCEPT ![n] = v]
  BY RegIs

\* Registrations without a process go away.
LEMMA Unregisters ==
  ASSUME NEW S \in SUBSET Names,
         \A n \in S : (\A p \in Pids : ~Runs(p, n)) /\ RegOf(task', entry', n) = None,
         \A m \in Names \ S : RegOf(task', entry', m) = RegOf(task, entry, m),
         ContractRun' = ContractRun
  PROVE  Contract!Next
  <1>1. \A n \in S : ContractRun[n] = {}
    BY RunEmpty
  <1>2. ContractReg' = [m \in Names |-> IF m \in S THEN None ELSE ContractReg[m]]
    BY RegIs
  <1>3. Contract!Unregister(S)
    BY <1>1, <1>2 DEF Contract!Unregister
  <1> QED BY <1>3 DEF Contract!Next

\* A registration of a service without a process.
LEMMA Registers ==
  ASSUME NEW n \in Names, NEW s \in Specs, \A p \in Pids : ~Runs(p, n),
         RegOf(task', entry', n) = Up(s),
         \A m \in Names : m # n => RegOf(task', entry', m) = RegOf(task, entry, m),
         ContractRun' = ContractRun
  PROVE  Contract!Next
  <1>1. ContractReg' = [ContractReg EXCEPT ![n] = Contract!Running(s)]
    BY RegChanges DEF Contract!Running, Up
  <1>2. Contract!Register(n, s)
    BY <1>1, RunEmpty DEF Contract!Register
  <1> QED BY <1>2 DEF Contract!Next

-----------------------------------------------------------------------------
(* Steps of tasks and children. *)

\* A step of a task keeps its service and spec, and the registry.
LEMMA TaskStepReg ==
  ASSUME IInv, IInv', NEW t \in TaskIds, TaskStep(t)
  PROVE  \A n \in Names : RegOf(task', entry', n) = RegOf(task, entry, n)
  <1>1. \A u \in TaskIds : task'[u].name = task[u].name /\ task'[u].spec = task[u].spec
    BY DEF IInv, TypeOK, Task, TaskStep, TaskSpawn, TaskSpawnFails, TaskStorePid,
       TaskChildExited, TaskStopRequested, TaskStopTryWait, TaskStopKill, TaskClearPid,
       TaskRespawn, TaskBackoffStop, AdoptedExited, AdoptedStopRequested, AdoptedStopReap
  <1>2. entry' = entry
    BY DEF TaskStep, TaskSpawn, TaskSpawnFails, TaskStorePid,
       TaskChildExited, TaskStopRequested, TaskStopTryWait, TaskStopKill, TaskClearPid,
       TaskRespawn, TaskBackoffStop, AdoptedExited, AdoptedStopRequested, AdoptedStopReap
  <1> QED BY <1>1, <1>2, RegStays

\* spawn_child starts the process of a service that has none.
LEMMA SpawnStarts ==
  ASSUME IInv, IInv', NEW t \in TaskIds, TaskSpawn(t),
         NEW n, task[t].name = n, NEW s, task[t].spec = s
  PROVE  Contract!Next
  <1>1. PICK p \in Pids :
          /\ FreshPid(p)
          /\ proc' = [proc EXCEPT ![p] = [st |-> "running", name |-> n, spec |-> s]]
          /\ task' = [task EXCEPT ![t].pc = "spawned", ![t].child = p]
          /\ task[t].pc = "spawn"
          /\ UNCHANGED <<entry, mpc, cur, drain, file, todo>>
    BY DEF TaskSpawn
  <1>2. n \in Names /\ s \in Specs /\ task[t].child = None
    BY <1>1 DEF IInv, TaskShape, HoldsChild, HasReaped
  <1>3. \A q \in Pids : ~Runs(q, n)
    BY <1>2, ChildlessNoRun
  <1>4. ~Tracked(p)
    BY <1>1 DEF FreshPid, Tracked
  <1>5. /\ task'[t].child = p
        /\ \A u \in TaskIds : u # t => task'[u].child = task[u].child
    BY <1>1 DEF IInv, TypeOK, Task
  <1>6. /\ proc'[p] = [st |-> "running", name |-> n, spec |-> s]
        /\ \A q \in Pids : q # p => proc'[q] = proc[q]
    BY <1>1 DEF IInv, TypeOK
  <1>7. Tracked(p)' /\ \A q \in Pids : q # p => (Tracked(q)' <=> Tracked(q))
    <2>1. Alive(p)' /\ \A q \in Pids : q # p => (Alive(q)' <=> Alive(q))
      BY <1>6 DEF Alive
    <2>2. \A q \in Pids : q # p =>
            ((\E u \in TaskIds : task'[u].child = q) <=> \E u \in TaskIds : task[u].child = q)
      <3>1. task[t].child \notin Pids
        BY <1>2
      <3> QED BY <1>5, <3>1
    <2>3. file' = file /\ todo' = todo
      BY <1>1
    <2> QED BY <1>5, <2>1, <2>2, <2>3 DEF Tracked
  <1>8. \A q \in Pids : Runs(q, n)' <=> q = p
    BY <1>3, <1>6, <1>7 DEF Runs
  <1>9. \A m \in Names : m # n => \A q \in Pids : Runs(q, m)' <=> Runs(q, m)
    BY <1>4, <1>6, <1>7 DEF Runs
  <1>10. \A m \in Names : m # n => \A q \in Pids : Runs(q, m) => proc'[q].spec = proc[q].spec
    BY <1>4, <1>6 DEF Runs
  <1>11. {[pid |-> q, spec |-> proc'[q].spec] : q \in {q \in Pids : Runs(q, n)'}}
           = {[pid |-> p, spec |-> s]}
    <2>1. {q \in Pids : Runs(q, n)'} = {p}
      BY <1>8
    <2> QED BY <1>6, <2>1
  <1>12. ContractRun' = [ContractRun EXCEPT ![n] = {[pid |-> p, spec |-> s]}]
    BY <1>2, <1>9, <1>10, <1>11, RunChanges
  <1>13. ContractRun[n] = {}
    BY <1>2, <1>3, RunEmpty
  <1>14. ContractReg' = ContractReg
    <2>1. \A m \in Names : RegOf(task', entry', m) = RegOf(task, entry, m)
      BY TaskStepReg DEF TaskStep
    <2> QED BY <2>1, RegIs
  <1>15. ContractReg[n] = Up(s)
    BY <1>2, Served, RegIs
  <1>16. Contract!ProcessStarts(n)
    BY <1>2, <1>12, <1>13, <1>14, <1>15, UpIsSome DEF Contract!ProcessStarts
  <1> QED BY <1>2, <1>16 DEF Contract!Next

\* A child is reaped: the process of its service ends, and there is no other one.
LEMMA ReapEnds ==
  ASSUME IInv, IInv', NEW t \in TaskIds, ReapStep(t),
         NEW n, task[t].name = n
  PROVE  Contract!Next
  <1> DEFINE p == task[t].child
  <1>1. /\ task[t].pc \in HoldsChild
        /\ proc' = [proc EXCEPT ![p] = NoProc]
        /\ UNCHANGED <<entry, mpc, cur, drain, file, todo>>
        /\ \A u \in TaskIds : task'[u].child = task[u].child
    BY DEF ReapStep, TaskChildExited, TaskStopTryWait, TaskStopKill, AdoptedExited,
           AdoptedStopReap, HoldsChild, IInv, TypeOK, Task
  <1>2. n \in Names /\ p \in Pids /\ Alive(p) /\ proc[p].name = n
    BY <1>1 DEF IInv, TypeOK, Task, TaskShape, ChildOwned, HoldsChild
  <1>3. Tracked(p)
    BY <1>2 DEF Tracked
  <1>4. proc'[p] = NoProc /\ \A q \in Pids : q # p => proc'[q] = proc[q]
    BY <1>1, <1>2 DEF IInv, TypeOK
  <1>5. \A q \in Pids : q # p => (Tracked(q)' <=> Tracked(q))
    BY <1>1, <1>4 DEF Tracked, Alive
  <1>6. \A q \in Pids : Runs(q, n) => q = p
    BY <1>2, <1>3, OneProcessFromIInv DEF Runs, OneProcessPerName
  <1> HIDE DEF p
  <1>7. \A q \in Pids : ~Runs(q, n)'
    BY <1>4, <1>5, <1>6 DEF Runs, Tracked, Alive, NoProc
  <1>8. \A m \in Names : m # n => \A q \in Pids : Runs(q, m)' <=> Runs(q, m)
    BY <1>2, <1>4, <1>5 DEF Runs, Tracked, Alive, NoProc
  <1>9. {[pid |-> q, spec |-> proc'[q].spec] : q \in {q \in Pids : Runs(q, n)'}} = {}
    BY <1>7
  <1>10. \A m \in Names : m # n => \A q \in Pids : Runs(q, m) => proc'[q].spec = proc[q].spec
    BY <1>2, <1>4 DEF Runs
  <1>11. ContractRun' = [ContractRun EXCEPT ![n] = {}]
    BY <1>2, <1>8, <1>9, <1>10, RunChanges
  <1>12. ContractReg' = ContractReg
    <2>1. \A m \in Names : RegOf(task', entry', m) = RegOf(task, entry, m)
      BY TaskStepReg DEF TaskStep, ReapStep
    <2> QED BY <2>1, RegIs
  <1>13. Contract!ProcessEnds(n)
    BY <1>11, <1>12 DEF Contract!ProcessEnds
  <1> QED BY <1>2, <1>13 DEF Contract!Next

\* The other steps of a task do not show.
LEMMA LocalStutters ==
  ASSUME IInv, IInv', NEW t \in TaskIds, LocalStep(t)
  PROVE  UNCHANGED <<ContractReg, ContractRun>>
  <1>1. \A m \in Names : RegOf(task', entry', m) = RegOf(task, entry, m)
    BY TaskStepReg DEF TaskStep, LocalStep
  <1>2. UNCHANGED <<proc, file, todo>>
    BY DEF LocalStep, TaskSpawnFails, TaskStorePid, TaskStopRequested, TaskClearPid,
           TaskRespawn, TaskBackoffStop, AdoptedStopRequested
  <1>3. \A u \in TaskIds : task'[u].child # task[u].child =>
          task'[u].child = None /\ task[u].pc \in HasReaped
    BY DEF LocalStep, TaskSpawnFails, TaskStorePid, TaskStopRequested, TaskClearPid,
           TaskRespawn, TaskBackoffStop, AdoptedStopRequested, IInv, TypeOK, Task, HasReaped
  <1>4. \A u \in TaskIds : task'[u].child # task[u].child =>
          task'[u].child = None /\ ~Alive(task[u].child)
    BY <1>3 DEF IInv, ChildOwned
  <1>5. ContractRun' = ContractRun
    BY <1>2, <1>4, RunSame
  <1> QED BY <1>1, <1>5, Stutters

\* A child that exits or is killed is still there until it is reaped.
LEMMA ExitStutters ==
  ASSUME IInv, IInv', NEW p \in Pids, proc[p].st = "running",
         proc' = [proc EXCEPT ![p].st = "zombie"],
         UNCHANGED <<task, entry, file, todo>>
  PROVE  UNCHANGED <<ContractReg, ContractRun>>
  <1>1. \A q \in Pids : /\ proc'[q].st = "free" <=> proc[q].st = "free"
                        /\ proc'[q].name = proc[q].name /\ proc'[q].spec = proc[q].spec
    BY DEF IInv, TypeOK, Proc
  <1>2. \A q \in Pids : Tracked(q)' <=> Tracked(q)
    BY <1>1 DEF Tracked, Alive
  <1>3. ContractRun' = ContractRun
    BY <1>1, <1>2, RunStays
  <1> QED BY <1>3, Stutters

-----------------------------------------------------------------------------
(* Requests. *)

\* A task is launched for a service that has none: a registration.
LEMMA LaunchRegisters ==
  ASSUME IInv, IInv', mpc = "idle", NEW n \in Names, NEW s \in Specs,
         \A t \in TaskIds : task[t].pc # "free" => task[t].name # n,
         Launch(n, s, entry), UNCHANGED <<proc, file, todo>>
  PROVE  Contract!Next
  <1>1. PICK t \in TaskIds : /\ task[t].pc = "free"
                            /\ task' = [task EXCEPT ![t] = NewTask(n, s)]
                            /\ entry' = [entry EXCEPT ![n] = Running(s, t)]
    BY DEF Launch, FreeTask
  <1>2. \A u \in TaskIds : task[u].pc = "free" => task[u].name = None /\ task[u].child = None
    BY DEF IInv, TaskShape, NoTask
  <1>3. /\ task'[t].name = n /\ task'[t].spec = s /\ task'[t].child = None
        /\ \A u \in TaskIds : u # t => task'[u] = task[u]
        /\ \A m \in Names : m # n => entry'[m] = entry[m]
    BY <1>1 DEF IInv, TypeOK, NewTask
  <1>4. RegOf(task', entry', n) = Up(s)
    BY <1>3, ServedNext
  <1>5. ASSUME NEW m \in Names, m # n
        PROVE  RegOf(task', entry', m) = RegOf(task, entry, m)
    <2>1. \A u \in TaskIds : /\ task'[u].name = m <=> task[u].name = m
                             /\ task[u].name = m => task'[u].spec = task[u].spec
      BY <1>1, <1>2, <1>3, <1>5
    <2> QED BY <1>3, <1>5, <2>1, RegStays
  <1>6. ContractRun' = ContractRun
    BY <1>1, <1>2, <1>3, RunSame
  <1>7. \A p \in Pids : ~Runs(p, n)
    BY <1>2, NoTaskNoRun
  <1> QED BY <1>4, <1>5, <1>6, <1>7, Registers

LEMMA RegisterNewRegisters ==
  ASSUME IInv, IInv', NEW n \in Names, NEW s \in Specs, RegisterNew(n, s)
  PROVE  Contract!Next
  <1>1. \A t \in TaskIds : task[t].pc # "free" => task[t].name # n
    BY IdleNameFree, StoppedHasNoTask DEF RegisterNew, Registered, Stopped
  <1> QED BY <1>1, LaunchRegisters DEF RegisterNew

LEMMA StartSvcRegisters ==
  ASSUME IInv, IInv', NEW n \in Names, StartSvc(n)
  PROVE  Contract!Next
  <1>1. \A t \in TaskIds : task[t].pc # "free" => task[t].name # n
    BY IdleNameFree, StoppedHasNoTask DEF StartSvc, Registered, Stopped
  <1>2. entry[n].spec \in Specs
    BY DEF StartSvc, Stopped, Registered, IInv, TypeOK, Entry
  <1> QED BY <1>1, <1>2, LaunchRegisters DEF StartSvc

\* A stop message is sent: the tasks serve and run what they did.
LEMMA StopMessage ==
  ASSUME IInv, NEW t \in TaskIds, task' = [task EXCEPT ![t].stop = TRUE],
         UNCHANGED <<proc, file, todo>>
  PROVE  /\ \A u \in TaskIds : task'[u].name = task[u].name /\ task'[u].spec = task[u].spec
         /\ ContractRun' = ContractRun
  <1>1. \A u \in TaskIds : /\ task'[u].name = task[u].name /\ task'[u].spec = task[u].spec
                           /\ task'[u].child = task[u].child
    BY DEF IInv, TypeOK, Task
  <1> QED BY <1>1, RunSame

\* A request that has to wait for a task takes effect when it is answered.
LEMMA AwaitStutters ==
  ASSUME IInv, IInv', NEW n \in Names,
         \/ \E s \in Specs : RegisterChanged(n, s)
         \/ UnregisterRunning(n) \/ StopSvc(n, "stop") \/ StopSvc(n, "restart")
  PROVE  UNCHANGED <<ContractReg, ContractRun>>
  <1> DEFINE t == entry[n].task
  <1>1. /\ mpc = "idle" /\ entry[n] # None /\ ~entry[n].stopped
        /\ task' = [task EXCEPT ![t].stop = TRUE]
        /\ UNCHANGED <<proc, file, todo>>
        /\ \A m \in Names : m # n => entry'[m] = entry[m]
    BY DEF RegisterChanged, UnregisterRunning, StopSvc, AwaitStop, Active, Registered, IInv, TypeOK
  <1>2. t \in TaskIds /\ task[t].name = n
    BY <1>1, StoppedHasNoTask DEF IInv, EntryOwns
  <1>3. /\ \A u \in TaskIds : task'[u].name = task[u].name /\ task'[u].spec = task[u].spec
        /\ ContractRun' = ContractRun
    BY <1>1, <1>2, StopMessage
  <1>4. \A m \in Names : RegOf(task', entry', m) = RegOf(task, entry, m)
    BY <1>1, <1>2, <1>3, RegStays
  <1> QED BY <1>3, <1>4, Stutters

\* unregister of a stopped service.
LEMMA StoppedUnregisters ==
  ASSUME IInv, IInv', NEW n \in Names, UnregisterStopped(n)
  PROVE  Contract!Next
  <1>1. /\ mpc = "idle" /\ entry[n] # None /\ entry[n].stopped
        /\ UNCHANGED <<proc, task, file, todo>>
        /\ entry'[n] = None /\ \A m \in Names : m # n => entry'[m] = entry[m]
    BY DEF UnregisterStopped, Stopped, Registered, IInv, TypeOK
  <1>2. \A t \in TaskIds : task[t].name # n
    BY <1>1, IdleNameFree, StoppedHasNoTask, OneServer
  <1>3. \A p \in Pids : ~Runs(p, n)
    BY <1>1, <1>2, NoTaskNoRun
  <1>4. RegOf(task', entry', n) = None
    BY <1>1, <1>2, RegUnserved
  <1>5. \A m \in Names \ {n} : RegOf(task', entry', m) = RegOf(task, entry, m)
    BY <1>1, RegStays
  <1>6. ContractRun' = ContractRun
    BY <1>1, RunSame
  <1>7. {n} \in SUBSET Names /\ \A m \in {n} : m = n
    OBVIOUS
  <1> QED BY <1>3, <1>4, <1>5, <1>6, <1>7, Unregisters

\* A shutdown drops the stopped services at once; the others go one by one.
LEMMA ShutdownUnregisters ==
  ASSUME IInv, IInv', Shutdown
  PROVE  Contract!Next
  <1> DEFINE S == {n \in Names : \A t \in TaskIds : task[t].name # n}
  <1>1. /\ mpc = "idle" /\ UNCHANGED <<proc, task, file, todo>>
        /\ \A n \in Names : entry'[n] = None
    BY DEF Shutdown
  <1>2. \A n \in S : RegOf(task', entry', n) = None
    BY <1>1, RegUnserved
  <1>3. \A n \in S, p \in Pids : ~Runs(p, n)
    BY <1>1, NoTaskNoRun
  <1>4. \A m \in Names \ S : RegOf(task', entry', m) = RegOf(task, entry, m)
    BY <1>1, RegStays
  <1>5. ContractRun' = ContractRun
    BY <1>1, RunSame
  <1> QED BY <1>2, <1>3, <1>4, <1>5, Unregisters

\* The state file lists children of tasks: writing it tracks nothing more.
LEMMA SaveStutters ==
  ASSUME IInv, IInv', SaveStateForReexec
  PROVE  UNCHANGED <<ContractReg, ContractRun>>
  <1>1. /\ mpc = "idle" /\ UNCHANGED <<proc, task, entry, todo>>
        /\ file' = SavedState \/ file' = file
    BY DEF SaveStateForReexec
  <1>2. file = {} /\ todo = {}
    BY <1>1 DEF IInv, HandoverOwns
  <1>3. ASSUME NEW sv \in SavedState PROVE \E t \in TaskIds : task[t].child = sv.pid
    <2> DEFINE t == entry[sv.name].task
    <2>1. /\ sv.name \in Names /\ sv.pid \in Pids
          /\ entry[sv.name] # None /\ t # None /\ task[t].pid = sv.pid
      BY <1>3 DEF SavedState, SavedService, EntryPid, Registered
    <2>2. t \in TaskIds
      BY <2>1 DEF IInv, TypeOK, Entry
    <2>3. task[t].child = sv.pid
      BY <2>1, <2>2 DEF IInv, TaskShape
    <2> QED BY <2>2, <2>3
  <1>4. \A p \in Pids : Tracked(p)' <=> Tracked(p)
    BY <1>1, <1>2, <1>3 DEF Tracked, Alive
  <1>5. ContractRun' = ContractRun
    BY <1>1, <1>4, RunStays
  <1>6. \A m \in Names : RegOf(task', entry', m) = RegOf(task, entry, m)
    BY <1>1
  <1> QED BY <1>5, <1>6, Stutters

\* kill_svc signals a process that has a task.
LEMMA KillStutters ==
  ASSUME IInv, IInv', NEW n \in Names, KillSvc(n)
  PROVE  UNCHANGED <<ContractReg, ContractRun>>
  <1> DEFINE p == EntryPid(n)
  <1>1. p \in Pids
    BY DEF KillSvc, EntryPid, Registered, IInv, TypeOK, Entry, Task
  <1>2. /\ proc[p].st = "running" /\ proc' = [proc EXCEPT ![p].st = "zombie"]
        /\ UNCHANGED <<task, entry, file, todo>>
    BY DEF KillSvc
  <1> HIDE DEF p
  <1> QED BY <1>1, <1>2, ExitStutters

-----------------------------------------------------------------------------
(* Completions. *)

\* The entry whose task stop_svc took and awaits has the spec of that task.
TakenSpec ==
    mpc = "join" /\ cur.op = "stop" => task[cur.task].spec = entry[cur.name].spec

LEMMA TakenSpecKept ==
  ASSUME IInv, IInv', TakenSpec, [Next]_vars
  PROVE  TakenSpec'
  <1> SUFFICES ASSUME mpc' = "join", cur'.op = "stop"
               PROVE  task'[cur'.task].spec = entry'[cur'.name].spec
    BY DEF TakenSpec
  <1>1. CASE \E t \in TaskIds : TaskStep(t)
    <2>1. UNCHANGED <<entry, mpc, cur>>
      BY <1>1 DEF TaskStep, TaskSpawn, TaskSpawnFails, TaskStorePid,
         TaskChildExited, TaskStopRequested, TaskStopTryWait, TaskStopKill, TaskClearPid,
         TaskRespawn, TaskBackoffStop, AdoptedExited, AdoptedStopRequested, AdoptedStopReap
    <2>2. \A u \in TaskIds : task'[u].spec = task[u].spec
      BY <1>1 DEF IInv, TypeOK, Task, TaskStep, TaskSpawn, TaskSpawnFails, TaskStorePid,
         TaskChildExited, TaskStopRequested, TaskStopTryWait, TaskStopKill, TaskClearPid,
         TaskRespawn, TaskBackoffStop, AdoptedExited, AdoptedStopRequested, AdoptedStopReap
    <2> QED BY <2>1, <2>2 DEF TakenSpec, IInv, CurOwns
  <1>2. CASE RequestStep
    <2>1. PICK n \in Names : StopSvc(n, "stop")
      <3>1. ASSUME NEW n \in Names, NEW s \in Specs
            PROVE  ~RegisterNew(n, s) /\ ~RegisterChanged(n, s)
        BY DEF RegisterNew, RegisterChanged, AwaitStop
      <3>2. ASSUME NEW n \in Names
            PROVE  ~StartSvc(n) /\ ~UnregisterStopped(n) /\ ~KillSvc(n)
        BY DEF StartSvc, UnregisterStopped, KillSvc
      <3>3. ASSUME NEW n \in Names
            PROVE  ~UnregisterRunning(n) /\ ~StopSvc(n, "restart")
        BY DEF UnregisterRunning, StopSvc, AwaitStop
      <3>4. ~Shutdown /\ ~SaveStateForReexec
        BY DEF Shutdown, SaveStateForReexec
      <3> QED BY <1>2, <3>1, <3>2, <3>3, <3>4 DEF RequestStep
    <2> DEFINE t == entry[n].task
    <2>2. /\ mpc = "idle" /\ entry[n] # None /\ ~entry[n].stopped
          /\ cur'.task = t /\ cur'.name = n
          /\ task' = [task EXCEPT ![t].stop = TRUE]
          /\ entry' = [entry EXCEPT ![n].task = None]
      BY <2>1 DEF StopSvc, AwaitStop, Active, Registered
    <2>3. t \in TaskIds /\ task[t].spec = entry[n].spec
      BY <2>2, StoppedHasNoTask DEF IInv, EntryOwns
    <2>4. task'[t].spec = task[t].spec /\ entry'[n].spec = entry[n].spec
      BY <2>2, <2>3 DEF IInv, TypeOK, Task, Entry
    <2> HIDE DEF t
    <2> QED BY <2>2, <2>3, <2>4
  <1>3. CASE LoopStep
    BY <1>3 DEF LoopStep, JoinUnregister, JoinStop, JoinLaunch, TeardownNext, JoinTeardown,
       AwaitStop, Exit, Reexec, Boot, BootUnread, Serve, Adopt, AdoptFails
  <1>4. CASE \E p \in Pids : ProcExit(p)
    BY <1>4 DEF ProcExit, TakenSpec
  <1>5. CASE Die
    BY <1>5 DEF Die
  <1>6. CASE UNCHANGED vars
    BY <1>6 DEF vars, TakenSpec
  <1> QED BY <1>1, <1>2, <1>3, <1>4, <1>5, <1>6 DEF Next

\* What a completion does to the contract's view: the service of the task that has
\* returned has no process, and nothing changes for the others.
LEMMA JoinShows ==
  ASSUME IInv, IInv', mpc = "join", task[cur.task].pc = "done",
         NEW n, n = task[cur.task].name,
         NEW k, task' = [task EXCEPT ![cur.task] = k],
         k.name \in {None, n}, k.child = None,
         UNCHANGED <<proc, file, todo>>,
         \A m \in Names : m # n => entry'[m] = entry[m]
  PROVE  /\ n \in Names /\ cur.task \in TaskIds
         /\ task'[cur.task] = k /\ \A u \in TaskIds : u # cur.task => task'[u].name # n
         /\ \A p \in Pids : ~Runs(p, n)
         /\ \A m \in Names : m # n => RegOf(task', entry', m) = RegOf(task, entry, m)
         /\ ContractRun' = ContractRun
  <1>1. /\ cur.task \in TaskIds /\ n \in Names /\ task[cur.task].child = None
        /\ \A u \in TaskIds : u # cur.task => task[u].name # n
    BY JoinedTask, OneServer DEF IInv, TaskShape
  <1>2. task'[cur.task] = k /\ \A u \in TaskIds : u # cur.task => task'[u] = task[u]
    BY <1>1 DEF IInv, TypeOK
  <1>3. \A p \in Pids : ~Runs(p, n)
    BY <1>1, ChildlessNoRun
  <1>4. ASSUME NEW m \in Names, m # n
        PROVE  RegOf(task', entry', m) = RegOf(task, entry, m)
    <2>1. \A u \in TaskIds : /\ task'[u].name = m <=> task[u].name = m
                             /\ task[u].name = m => task'[u].spec = task[u].spec
      BY <1>1, <1>2, <1>4
    <2> QED BY <1>4, <2>1, RegStays
  <1>5. ContractRun' = ContractRun
    <2>1. \A u \in TaskIds : task'[u].child = task[u].child
      BY <1>1, <1>2
    <2> QED BY <2>1, RunSame
  <1> QED BY <1>1, <1>2, <1>3, <1>4, <1>5

\* unregister and every task of a shutdown: the registration is gone.
LEMMA JoinUnregisters ==
  ASSUME IInv, IInv', JoinUnregister \/ JoinTeardown, NEW n, n = task[cur.task].name
  PROVE  Contract!Next
  <1>1. /\ mpc = "join" /\ task[cur.task].pc = "done" /\ cur.op \in {"unregister", "shutdown"}
        /\ task' = [task EXCEPT ![cur.task] = NoTask]
        /\ UNCHANGED <<proc, file, todo, entry>>
    BY DEF JoinUnregister, JoinTeardown, Joined
  <1>2. NoTask.name = None /\ NoTask.child = None
    BY DEF NoTask
  <1>3. /\ n \in Names /\ cur.task \in TaskIds
        /\ task'[cur.task] = NoTask /\ \A u \in TaskIds : u # cur.task => task'[u].name # n
        /\ \A p \in Pids : ~Runs(p, n)
        /\ \A m \in Names : m # n => RegOf(task', entry', m) = RegOf(task, entry, m)
        /\ ContractRun' = ContractRun
    BY <1>1, <1>2, JoinShows, ZenonT(40)
  <1>4. entry'[n] = None
    BY <1>1, <1>3 DEF IInv, CurOwns
  <1>5. RegOf(task', entry', n) = None
    BY <1>2, <1>3, <1>4, RegUnserved
  <1>6. {n} \in SUBSET Names /\ \A m \in {n} : m = n
    BY <1>3
  <1> QED BY <1>3, <1>5, <1>6, Unregisters

\* stop_svc: the registration stays, marked stopped.
LEMMA JoinStops ==
  ASSUME IInv, IInv', TakenSpec, JoinStop, NEW n, n = cur.name, NEW s, s = entry[n].spec
  PROVE  Contract!Next
  <1>1. /\ mpc = "join" /\ task[cur.task].pc = "done" /\ cur.op = "stop"
        /\ task' = [task EXCEPT ![cur.task] = NoTask]
        /\ entry' = [entry EXCEPT ![n].stopped = TRUE]
        /\ UNCHANGED <<proc, file, todo>>
    BY DEF JoinStop, Joined
  <1>2. n \in Names /\ n = task[cur.task].name /\ entry[n] # None /\ cur.task \in TaskIds
    BY <1>1 DEF IInv, CurOwns
  <1>3. NoTask.name = None /\ NoTask.child = None
    BY DEF NoTask
  <1>4. /\ entry'[n] # None /\ entry'[n].spec = s /\ s \in Specs
        /\ \A m \in Names : m # n => entry'[m] = entry[m]
    <2>1. entry[n] \in Entry /\ entry'[n] = [entry[n] EXCEPT !.stopped = TRUE]
      BY <1>1, <1>2 DEF IInv, TypeOK
    <2>2. entry'[n] \in Entry /\ entry'[n].spec = s /\ s \in Specs
      BY <2>1 DEF Entry
    <2>3. \A m \in Names : m # n => entry'[m] = entry[m]
      BY <1>1, <1>2 DEF IInv, TypeOK
    <2> QED BY <2>2, <2>3
  <1>5. /\ task'[cur.task] = NoTask /\ \A u \in TaskIds : u # cur.task => task'[u].name # n
        /\ \A p \in Pids : ~Runs(p, n)
        /\ \A m \in Names : m # n => RegOf(task', entry', m) = RegOf(task, entry, m)
        /\ ContractRun' = ContractRun
    <2>1. \A m \in Names : m # n => entry'[m] = entry[m]
      BY <1>4
    <2>2. NoTask.name \in {None, n} /\ NoTask.child = None
      BY <1>3
    <2>3. mpc = "join" /\ task[cur.task].pc = "done" /\ n = task[cur.task].name
      BY <1>1, <1>2
    <2>4. task' = [task EXCEPT ![cur.task] = NoTask] /\ UNCHANGED <<proc, file, todo>>
      BY <1>1
    <2> QED BY <2>1, <2>2, <2>3, <2>4, JoinShows
  <1>6. RegOf(task, entry, n) = Up(s)
    BY <1>1, <1>2, Served DEF TakenSpec
  <1>7. RegOf(task', entry', n) = Halted(s)
    <2>1. \A u \in TaskIds : task'[u].name # n
      BY <1>2, <1>3, <1>5
    <2> QED BY <1>4, <2>1, RegUnserved
  <1>8. ContractReg[n] = Up(s) /\ Up(s) # None
    BY <1>2, <1>4, <1>6, RegIs, UpIsSome
  <1>9. ContractReg' = [ContractReg EXCEPT ![n] = Halted(s)]
    BY <1>2, <1>5, <1>7, RegChanges
  <1>10. Halted(s) = [Up(s) EXCEPT !.stopped = TRUE]
    <2> DEFINE h == [Up(s) EXCEPT !.stopped = TRUE]
    <2>1. Up(s) \in [spec: Specs, stopped: BOOLEAN] /\ Halted(s) \in [spec: Specs, stopped: BOOLEAN]
      BY <1>4 DEF Up, Halted
    <2>2. h \in [spec: Specs, stopped: BOOLEAN] /\ h.spec = s /\ h.stopped = TRUE
      BY <2>1, <1>4, UpIsSome
    <2>3. Halted(s).spec = s /\ Halted(s).stopped = TRUE
      BY DEF Halted
    <2> HIDE DEF h
    <2>4. Halted(s) = h
      BY <2>1, <2>2, <2>3
    <2> QED BY <2>4 DEF h
  <1>11. ContractReg' = [ContractReg EXCEPT ![n].stopped = TRUE]
    BY <1>8, <1>9, <1>10
  <1>12. ContractRun[n] = {}
    BY <1>2, <1>5, RunEmpty
  <1>13. Contract!Stop(n)
    BY <1>5, <1>8, <1>11, <1>12 DEF Contract!Stop
  <1> QED BY <1>2, <1>13 DEF Contract!Next

\* register with a changed spec and restart_svc: a new incarnation.
LEMMA JoinRegisters ==
  ASSUME IInv, IInv', JoinLaunch, NEW n, n = cur.name, NEW s, s = cur.spec
  PROVE  Contract!Next
  <1>1. /\ mpc = "join" /\ task[cur.task].pc = "done" /\ cur.op \in {"register", "restart"}
        /\ task' = [task EXCEPT ![cur.task] = NewTask(n, s)]
        /\ entry' = [entry EXCEPT ![n] = Running(s, cur.task)]
        /\ UNCHANGED <<proc, file, todo>>
    BY DEF JoinLaunch, Joined
  <1>2. n \in Names /\ s \in Specs /\ n = task[cur.task].name /\ cur.task \in TaskIds
    BY <1>1 DEF IInv, CurOwns
  <1>3. NewTask(n, s).name = n /\ NewTask(n, s).child = None /\ NewTask(n, s).spec = s
    BY DEF NewTask
  <1>4. \A m \in Names : m # n => entry'[m] = entry[m]
    BY <1>1, <1>2 DEF IInv, TypeOK
  <1>5. /\ task'[cur.task] = NewTask(n, s)
        /\ \A p \in Pids : ~Runs(p, n)
        /\ \A m \in Names : m # n => RegOf(task', entry', m) = RegOf(task, entry, m)
        /\ ContractRun' = ContractRun
    BY <1>1, <1>2, <1>3, <1>4, JoinShows
  <1>6. RegOf(task', entry', n) = Up(s)
    BY <1>2, <1>3, <1>5, ServedNext
  <1> QED BY <1>2, <1>5, <1>6, Registers

-----------------------------------------------------------------------------
(* Teardown, re-exec, boot and death. *)

\* The steps of the main loop that the daemon does not see.
LEMMA LoopStutters ==
  ASSUME IInv, IInv', TeardownNext \/ Exit \/ Boot \/ Serve \/ \E sv \in todo : AdoptFails(sv)
  PROVE  UNCHANGED <<ContractReg, ContractRun>>
  <1>1. CASE TeardownNext
    <2>1. PICK t \in drain : task' = [task EXCEPT ![t].stop = TRUE]
      BY <1>1 DEF TeardownNext, AwaitStop
    <2>2. t \in TaskIds /\ entry' = entry /\ UNCHANGED <<proc, file, todo>>
      BY <1>1 DEF TeardownNext, IInv, TypeOK
    <2>3. /\ \A u \in TaskIds : task'[u].name = task[u].name /\ task'[u].spec = task[u].spec
          /\ ContractRun' = ContractRun
      BY <2>1, <2>2, StopMessage
    <2>4. \A m \in Names : RegOf(task', entry', m) = RegOf(task, entry, m)
      BY <2>2, <2>3, RegStays
    <2> QED BY <2>3, <2>4, Stutters
  <1>2. CASE Exit \/ Boot \/ Serve \/ \E sv \in todo : AdoptFails(sv)
    <2>1. UNCHANGED <<proc, task, entry>>
      BY <1>2 DEF Exit, Boot, Serve, AdoptFails
    <2>2. \A p \in Pids : Alive(p) =>
            ((\E sv \in file' \cup todo' : sv.pid = p) <=> \E sv \in file \cup todo : sv.pid = p)
      <3>1. CASE Exit \/ Serve
        BY <3>1 DEF Exit, Serve
      <3>2. CASE Boot
        BY <3>2 DEF Boot, IInv, HandoverOwns
      <3>3. CASE \E sv \in todo : AdoptFails(sv)
        BY <3>3 DEF AdoptFails
      <3> QED BY <1>2, <3>1, <3>2, <3>3
    <2>3. \A p \in Pids : Tracked(p)' <=> Tracked(p)
      BY <2>1, <2>2 DEF Tracked, Alive
    <2>4. ContractRun' = ContractRun
      BY <2>1, <2>3, RunStays
    <2>5. \A m \in Names : RegOf(task', entry', m) = RegOf(task, entry, m)
      BY <2>1
    <2> QED BY <2>4, <2>5, Stutters
  <1> QED BY <1>1, <1>2

\* The image is replaced, dies or drops the file: no registration is left, no
\* process appears.
LEMMA Resets ==
  ASSUME IInv, IInv', Reexec \/ Die \/ BootUnread
  PROVE  Contract!Next
  <1>1. /\ \A t \in TaskIds : task'[t] = NoTask
        /\ \A n \in Names : entry'[n] = None
        /\ file' \subseteq file /\ todo' \subseteq todo
        /\ \A p \in Pids : proc'[p] = proc[p] \/ proc'[p] = NoProc
    <2>1. CASE Reexec \/ Die
      BY <2>1 DEF Reexec, Die
    <2>2. CASE BootUnread
      BY <2>2 DEF BootUnread, IInv, HandoverOwns, TaskShape, EntryOwns
    <2> QED BY <2>1, <2>2
  <1>2. NoTask.name = None /\ NoTask.child = None /\ NoProc.st = "free"
    BY DEF NoTask, NoProc
  <1>3. \A n \in Names : RegOf(task', entry', n) = None
    BY <1>1, <1>2, RegUnserved
  <1>4. ContractReg' = [n \in Names |-> None]
    BY <1>3, RegIs
  <1>5. \A p \in Pids : Tracked(p)' => Tracked(p) /\ proc'[p] = proc[p]
    BY <1>1, <1>2 DEF Tracked, Alive
  <1>6. \A n \in Names, p \in Pids : Runs(p, n)' => Runs(p, n) /\ proc'[p].spec = proc[p].spec
    BY <1>5 DEF Runs
  <1>7. ASSUME NEW n \in Names PROVE ContractRun'[n] \subseteq ContractRun[n]
    BY <1>6, RunIs
  <1>8. DOMAIN ContractRun' = Names
    BY RunIs
  <1>9. Contract!Reset
    BY <1>4, <1>7, <1>8 DEF Contract!Reset
  <1> QED BY <1>9 DEF Contract!Next

\* The new image takes over a live process the file lists.
LEMMA AdoptAdopts ==
  ASSUME IInv, IInv', NEW sv \in todo, Adopt(sv),
         NEW n, n = sv.name, NEW s, s = sv.spec, NEW p, p = sv.pid
  PROVE  Contract!Next
  <1>1. PICK t \in TaskIds :
          /\ task[t].pc = "free" /\ mpc = "boot" /\ Alive(p)
          /\ task' = [task EXCEPT ![t] = AdoptedTask(n, s, p)]
          /\ entry' = [entry EXCEPT ![n] = Running(s, t)]
          /\ todo' = todo \ {sv} /\ UNCHANGED <<proc, file>>
    BY DEF Adopt, FreeTask
  <1>2. n \in Names /\ s \in Specs /\ p \in Pids
    BY DEF IInv, TypeOK, SavedService
  <1>3. entry[n] = None /\ drain = {} /\ proc[p].name = n /\ proc[p].spec = s
    BY <1>1 DEF IInv, HandoverOwns, CurOwns
  <1>4. \A u \in TaskIds : task[u].name # n
    BY <1>1, <1>2, <1>3, OneServer, OwnedByEntry
  <1>5. \A u \in TaskIds : task[u].pc = "free" => task[u].name = None /\ task[u].child = None
    BY DEF IInv, TaskShape, NoTask
  <1>6. /\ task'[t].name = n /\ task'[t].spec = s /\ task'[t].child = p
        /\ \A u \in TaskIds : u # t => task'[u] = task[u]
        /\ \A m \in Names : m # n => entry'[m] = entry[m]
    BY <1>1 DEF IInv, TypeOK, AdoptedTask
  <1>7. RegOf(task, entry, n) = None
    BY <1>3, <1>4, RegUnserved
  <1>8. RegOf(task', entry', n) = Up(s)
    BY <1>2, <1>6, ServedNext
  <1>9. ASSUME NEW m \in Names, m # n
        PROVE  RegOf(task', entry', m) = RegOf(task, entry, m)
    <2>1. \A u \in TaskIds : /\ task'[u].name = m <=> task[u].name = m
                             /\ task[u].name = m => task'[u].spec = task[u].spec
      BY <1>1, <1>5, <1>6, <1>9
    <2> QED BY <1>6, <1>9, <2>1, RegStays
  <1>10. Tracked(p) /\ Tracked(p)'
    BY <1>1, <1>6 DEF Tracked, Alive
  <1>11. \A q \in Pids : Tracked(q)' <=> Tracked(q)
    <2>1. ASSUME NEW q \in Pids, q # p
          PROVE  Tracked(q)' <=> Tracked(q)
      <3>1. (\E u \in TaskIds : task'[u].child = q) <=> \E u \in TaskIds : task[u].child = q
        BY <1>1, <1>5, <1>6, <2>1
      <3>2. (\E sw \in file' \cup todo' : sw.pid = q) <=> \E sw \in file \cup todo : sw.pid = q
        BY <1>1, <2>1
      <3> QED BY <1>1, <3>1, <3>2 DEF Tracked, Alive
    <2> QED BY <1>10, <2>1
  <1>12. ContractRun' = ContractRun
    BY <1>1, <1>11, RunStays
  <1>13. [pid |-> p, spec |-> s] \in ContractRun[n]
    <2>1. Runs(p, n)
      BY <1>3, <1>10 DEF Runs
    <2> QED BY <1>2, <1>3, <2>1, RunIs
  <1>14. ContractReg[n] = None
    BY <1>2, <1>7, RegIs
  <1>15. ContractReg' = [ContractReg EXCEPT ![n] = Contract!Running([pid |-> p, spec |-> s].spec)]
    BY <1>2, <1>8, <1>9, RegChanges DEF Contract!Running, Up
  <1>16. Contract!Adopt(n)
    BY <1>12, <1>13, <1>14, <1>15 DEF Contract!Adopt
  <1> QED BY <1>2, <1>16 DEF Contract!Next

-----------------------------------------------------------------------------
(* The refinement. *)

LEMMA InitImplements == Init => Contract!Init
  <1> SUFFICES ASSUME Init PROVE Contract!Init
    OBVIOUS
  <1>1. \A n \in Names : RegOf(task, entry, n) = None
    BY RegUnserved DEF Init, NoTask
  <1>2. \A p \in Pids : ~Tracked(p)
    BY DEF Init, Tracked, Alive, NoProc
  <1>3. \A n \in Names : ContractRun[n] = {}
    BY <1>2, RunEmpty DEF Runs
  <1>4. ContractReg = [n \in Names |-> None] /\ ContractRun = [n \in Names |-> {}]
    BY <1>1, <1>3, RegIs, RunIs
  <1> QED BY <1>4 DEF Contract!Init

LEMMA NextImplements ==
  ASSUME IInv, IInv', TakenSpec, [Next]_vars
  PROVE  [Contract!Next]_<<ContractReg, ContractRun>>
  <1>1. CASE \E t \in TaskIds : TaskStep(t)
    <2>1. PICK t \in TaskIds : TaskSpawn(t) \/ ReapStep(t) \/ LocalStep(t)
      BY <1>1 DEF TaskStep, ReapStep, LocalStep
    <2> QED BY <2>1, SpawnStarts, ReapEnds, LocalStutters
  <1>2. CASE RequestStep
    <2>1. CASE \E n \in Names, s \in Specs : RegisterNew(n, s) \/ RegisterChanged(n, s)
      BY <2>1, RegisterNewRegisters, AwaitStutters
    <2>2. CASE \E n \in Names : StartSvc(n) \/ UnregisterStopped(n) \/ KillSvc(n)
      BY <2>2, StartSvcRegisters, StoppedUnregisters, KillStutters
    <2>3. CASE \E n \in Names :
                 UnregisterRunning(n) \/ StopSvc(n, "stop") \/ StopSvc(n, "restart")
      BY <2>3, AwaitStutters
    <2>4. CASE Shutdown \/ SaveStateForReexec
      BY <2>4, ShutdownUnregisters, SaveStutters
    <2> QED BY <1>2, <2>1, <2>2, <2>3, <2>4 DEF RequestStep
  <1>3. CASE LoopStep
    <2>1. CASE JoinUnregister \/ JoinTeardown
      BY <2>1, JoinUnregisters
    <2>2. CASE JoinStop
      BY <2>2, JoinStops
    <2>3. CASE JoinLaunch
      BY <2>3, JoinRegisters
    <2>4. CASE Reexec \/ BootUnread
      BY <2>4, Resets
    <2>5. CASE \E sv \in todo : Adopt(sv)
      BY <2>5, AdoptAdopts
    <2>6. CASE TeardownNext \/ Exit \/ Boot \/ Serve \/ \E sv \in todo : AdoptFails(sv)
      BY <2>6, LoopStutters
    <2> QED BY <1>3, <2>1, <2>2, <2>3, <2>4, <2>5, <2>6 DEF LoopStep
  <1>4. CASE \E p \in Pids : ProcExit(p)
    BY <1>4, ExitStutters DEF ProcExit
  <1>5. CASE Die
    BY <1>5, Resets
  <1>6. CASE UNCHANGED vars
    <2>1. UNCHANGED <<proc, task, entry, file, todo>>
      BY <1>6 DEF vars
    <2>2. ContractRun' = ContractRun
      BY <2>1, RunSame
    <2> QED BY <2>1, <2>2, Stutters
  <1> QED BY <1>1, <1>2, <1>3, <1>4, <1>5, <1>6 DEF Next

\* The supervisor implements its contract, however requests, child exits, respawns,
\* handovers and deaths interleave: a process starts only for a registered service
\* that is not stopped and has no other process, and an answered stop, unregister or
\* re-registration leaves no process of the old incarnation.
THEOREM SupervisorImplements == Spec => ImplementsContract
  <1>1. Init => TakenSpec
    BY DEF Init, TakenSpec
  <1>2. IInv /\ IInv' /\ TakenSpec /\ [Next]_vars => TakenSpec'
    BY TakenSpecKept
  <1>3. IInv /\ IInv' /\ TakenSpec /\ [Next]_vars => [Contract!Next]_<<ContractReg, ContractRun>>
    BY NextImplements
  <1>4. Spec => []TakenSpec
    BY <1>1, <1>2, SupervisorInvariant, PTL DEF Spec
  <1> QED BY <1>3, <1>4, InitImplements, SupervisorInvariant, PTL
          DEF Spec, ImplementsContract, Contract!Spec, Contract!cvars
=============================================================================
