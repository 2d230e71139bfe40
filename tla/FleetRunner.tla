----------------------------- MODULE FleetRunner -----------------------------
(***************************************************************************)
(* The fleet runner (runner/src/orchestrator.rs, state.rs): a state machine *)
(* per matrix cell, persisted after every transition, that creates clusters *)
(* on the management server and VMs on Incus, and the sweeps that remove    *)
(* what no cell owns.  Everything the op_lock serialises is done by the     *)
(* actor "op"; the VM chaos loop takes no lock and is the actor "chaos".    *)
(* An actor's pending work is a sequence of tasks, and a step does the head: *)
(* one call to a server, or one critical section of the state's mutex.      *)
(***************************************************************************)
EXTENDS Integers, Sequences, FiniteSets, SequencesExt

CONSTANTS
    Cells,     \* matrix keys that any configuration names
    Nodes,     \* node_count of each
    Matrices,  \* the configurations: sets of cells
    Cap,       \* max_concurrent_launches; 0 is no limit
    Cids,      \* cluster ids; one that nothing mentions is as good as fresh
    Launches,  \* one per generation of a cell's host keys
    Gids,      \* rollout group ids
    Scenarios, \* bounds: a first matrix, how many faults and requests of which
               \* kinds, how many random operations of the chaos loop
    None

\* The faults and requests a scenario may contain, and the random operations.
Disturbances ==
    {"fail", "crash", "timeout", "web",
     "resume", "teardown", "redeploy", "reprovision", "gc",
     "chaos_power", "chaos_reprovision"}

ASSUME FleetAssumption ==
    /\ IsFiniteSet(Cells) /\ Nodes \in [Cells -> Nat \ {0}] /\ Cap \in Nat
    /\ Matrices \subseteq SUBSET Cells
    /\ Scenarios \subseteq [matrix: Matrices, kinds: SUBSET Disturbances,
                            left: Nat, ticks: Nat]
    /\ None \notin Cells \cup Cids \cup Launches \cup Gids

VARIABLES
    matrix,    \* the configuration this process was started with
    mem,       \* Orchestrator.state: cells by key, and paused
    disk,      \* the state file
    clusters,  \* clusters on the server: id -> the cell it is named after
    vms,       \* Incus instances: name -> launch, cluster of its token, power
    beats,     \* heartbeat rows: instance name and launch
    late,      \* launches older than deploy_timeout
    group,     \* the fleet's rollout group on the server
    cached,    \* rollout_group, the id this process remembers
    work,      \* what each actor still has to do
    left,      \* the scenario: what is still to come
    leaked,    \* ghost: VMs that a failed delete left behind
    raced      \* ghost: a chaos reprovision has overlapped a locked operation

vars == <<matrix, mem, disk, clusters, vms, beats, late, group, cached, work, left,
          leaked, raced>>
state == <<mem, disk>>
mgmt == <<clusters, group>>
incus == <<vms, leaked>>
reports == <<beats, late>>
process == <<matrix, cached, raced>>

Actors == {"op", "chaos"}
Names(k) == {k} \X (1 .. Nodes[k])
AllNames == UNION {Names(k) : k \in Cells}

\* A one-node cell's VM bears the name of its cluster; the VMs of a larger
\* cell are numbered, and none has that name.
BaseName(k) == IF Nodes[k] = 1 THEN Names(k) ELSE {}

\* CellStage; off: the instances whose stopped_at is set.
Stage(st, c, l, off) == [st |-> st, cid |-> c, launch |-> l, off |-> off]
Pending == Stage("pending", None, None, {})

Stages ==
    [st: {"pending", "cluster_created", "config_pushed", "launching", "running"},
     cid: Cids \cup {None}, launch: Launches \cup {None}, off: SUBSET AllNames]

\* instances() names the VMs of the last two stages only.
Instances(k, s) == IF s.st \in {"launching", "running"} THEN Names(k) ELSE {}

Find(k) == IF k \in DOMAIN mem.cells THEN mem.cells[k] ELSE Pending
Upsert(f, k, v) == [x \in DOMAIN f \cup {k} |-> IF x = k THEN v ELSE f[x]]
Drop(f, S) == [x \in DOMAIN f \ S |-> f[x]]
Tracked(st) ==
    (UNION {Instances(k, st.cells[k]) : k \in DOMAIN st.cells})
    \cup ({st.cells[k].cid : k \in DOMAIN st.cells} \ {None})

\* A task: op is the next step; n counts reconcile_cell's steps.
Task(op, k) ==
    [op |-> op, k |-> k, n |-> 0, cid |-> None, launch |-> None,
     todo |-> {}, keep |-> {}]
MAX_STEPS == 5
DriveTask(k) == [Task("drive", k) EXCEPT !.n = MAX_STEPS]


-----------------------------------------------------------------------------
(* What a step is made of. *)

\* The head task of actor a is replaced by the sequence s.
Do(a, s) == work' = [work EXCEPT ![a] = s \o Tail(@)]
Then(a, t) == Do(a, <<t>>)
Pop(a) == Do(a, <<>>)
At(a, op) == work[a] # <<>> /\ Head(work[a]).op = op

\* Faults and the operator's requests are bounded together.
Disturb(kind) ==
    kind \in left.kinds /\ left.left > 0 /\ left' = [left EXCEPT !.left = @ - 1]

\* A call to one of the servers succeeds, or fails with its effect done or not.
Answers(ok) ==
    IF ok THEN UNCHANGED left ELSE Disturb("fail")

\* incus.delete_instance of the names S (one or none): it stops the VM and then
\* deletes it, 404 is success, and a failure can come before or after either.
DeleteVm(S, ok) ==
    /\ Answers(ok)
    /\ \E gone \in {S} \cup (IF ok THEN {} ELSE {{}}), halted \in {{}, S} :
         /\ ok => halted = S
         /\ vms' = [n \in DOMAIN vms \ gone |->
                      IF n \in halted THEN [vms[n] EXCEPT !.up = FALSE] ELSE vms[n]]
         /\ leaked' = (leaked \ gone) \cup ((S \ gone) \cap DOMAIN vms)

\* Mutant: the memberships of a deleted cluster stay.
RemoveClusterAlone(c) == clusters' = Drop(clusters, {c}) /\ UNCHANGED group

\* mgmt.delete_cluster: the rows that hang on a cluster go with it.
RemoveCluster(c) ==
    /\ clusters' = Drop(clusters, {c})
    /\ group' = [group EXCEPT !.members = @ \ {c}]

DeleteCluster(c, ok) ==
    /\ Answers(ok)
    /\ \/ RemoveCluster(c)
       \/ ~ok /\ UNCHANGED mgmt

\* Mutant: the state is not saved.
PersistLater(k, s) ==
    /\ mem' = [mem EXCEPT !.cells = Upsert(@, k, s)]
    /\ UNCHANGED disk

\* persist_cell: upsert, then the whole state is written and renamed in place.
Persist(k, s) ==
    /\ mem' = [mem EXCEPT !.cells = Upsert(@, k, s)]
    /\ disk' = mem'

SetPaused(p) == mem' = [mem EXCEPT !.paused = p] /\ disk' = mem'

\* What some variable still mentions, so that a recycled id is truly fresh.
Tasks == UNION {{work[a][i] : i \in 1 .. Len(work[a])} : a \in Actors}
Rows(t) ==
    IF t.op \in {"sweep_next", "sweep_cluster"} THEN {x[1] : x \in t.todo} ELSE t.todo
UsedCids ==
    DOMAIN clusters \cup {vms[n].cid : n \in DOMAIN vms}
    \cup (UNION {{s.cells[k].cid : k \in DOMAIN s.cells} : s \in {mem, disk}})
    \cup (UNION {{t.cid} \cup Rows(t) \cup t.keep : t \in Tasks})
UsedLaunches ==
    {vms[n].launch : n \in DOMAIN vms}
    \cup (UNION {{s.cells[k].launch : k \in DOMAIN s.cells} : s \in {mem, disk}})
    \cup {t.launch : t \in Tasks}

-----------------------------------------------------------------------------
(* drive_cell: one stage forward. *)

Launching == {k \in DOMAIN mem.cells : mem.cells[k].st = "launching"}

\* Mutant: the limit is compared with >.
LaunchQueueFullLate == Cap > 0 /\ Cardinality(Launching) > Cap

LaunchQueueFull == Cap > 0 /\ Cardinality(Launching) >= Cap

\* The stage is read once; what follows works on that copy.
Drive(a) ==
    /\ At(a, "drive")
    /\ LET t == Head(work[a])
           s == Find(t.k)
           Go(op, S) == Then(a, [t EXCEPT !.op = op, !.cid = s.cid,
                                          !.launch = s.launch, !.todo = S])
       IN  \/ t.n = 0 /\ Pop(a)
           \/ t.n > 0 /\ s.st = "running" /\ Pop(a)   \* put_config, drift only
           \/ t.n > 0 /\ s.st = "pending" /\ Go("list_stray", {})
           \/ t.n > 0 /\ s.st = "cluster_created" /\ Go("put_config", {})
           \/ /\ t.n > 0 /\ s.st = "config_pushed" /\ LaunchQueueFull
              /\ Then(a, [t EXCEPT !.n = @ - 1])
           \/ /\ t.n > 0 /\ s.st = "config_pushed" /\ ~LaunchQueueFull
              /\ Go("clean", Names(t.k))
           \/ t.n > 0 /\ s.st = "launching" /\ Go("poll", s.off)
    /\ UNCHANGED <<state, mgmt, incus, reports, process, left>>

\* A transition is done: reconcile_cell counts it and drives on.
Again(a, t) ==
    Then(a, [DriveTask(t.k) EXCEPT !.n = t.n - 1])

\* enter_cluster_created: an orphan with our name is looked up ...
ListStray(a) ==
    /\ At(a, "list_stray")
    /\ \E ok \in BOOLEAN :
         LET t == Head(work[a])
             S == IF ok THEN {c \in DOMAIN clusters : clusters[c] = t.k} ELSE {}
         IN  /\ Answers(ok)
             /\ \/ S = {} /\ Then(a, [t EXCEPT !.op = "create_cluster"])
                \/ \E c \in S : Then(a, [t EXCEPT !.op = "wipe_vm", !.cid = c])
    /\ UNCHANGED <<state, mgmt, incus, reports, process>>

\* ... and wiped, the VM that has its name first.
WipeVm(a) ==
    /\ At(a, "wipe_vm")
    /\ \E ok \in BOOLEAN : DeleteVm(BaseName(Head(work[a]).k), ok)
    /\ Then(a, [Head(work[a]) EXCEPT !.op = "wipe_cluster"])
    /\ UNCHANGED <<state, mgmt, reports, process>>

WipeCluster(a) ==
    /\ At(a, "wipe_cluster")
    /\ \E ok \in BOOLEAN : DeleteCluster(Head(work[a]).cid, ok)
    /\ Then(a, [Head(work[a]) EXCEPT !.op = "create_cluster"])
    /\ UNCHANGED <<state, incus, reports, process>>

\* clusters.name is UNIQUE; an error ends the cell's turn.
CreateCluster(a) ==
    /\ At(a, "create_cluster")
    /\ LET t == Head(work[a])
           c == CHOOSE x \in Cids : x \notin UsedCids
           Taken == \E x \in DOMAIN clusters : clusters[x] = t.k
       IN  \/ Taken /\ Pop(a) /\ UNCHANGED <<clusters, left>>
           \/ /\ ~Taken /\ ~(Cids \subseteq UsedCids)
              /\ \E ok \in BOOLEAN :
                   /\ Answers(ok)
                   /\ \/ clusters' = Upsert(clusters, c, t.k)
                      \/ ~ok /\ UNCHANGED clusters
                   /\ IF ok THEN Then(a, [t EXCEPT !.op = "created", !.cid = c])
                            ELSE Pop(a)
    /\ UNCHANGED <<state, incus, reports, process, group>>

\* The server's next group id.
NewGid == CHOOSE g \in Gids : g # cached

\* The stage is persisted; then ensure_rollout_group, whose id is resolved once
\* per process, and the cluster's membership.  A failure of these is only logged.
Created(a) ==
    /\ At(a, "created")
    /\ LET t == Head(work[a])
           found == IF group.id = None THEN NewGid ELSE group.id
           id == IF cached = None THEN found ELSE cached
           existing == IF cached = None THEN [group EXCEPT !.id = found] ELSE group
           joined == IF existing.id = id /\ t.cid \in DOMAIN clusters
                       THEN [existing EXCEPT !.members = @ \cup {t.cid}] ELSE existing
       IN  /\ Persist(t.k, Stage("cluster_created", t.cid, None, {}))
           /\ \/ Answers(TRUE) /\ group' = joined /\ cached' = id
              \/ /\ Answers(FALSE)
                 /\ \E p \in {<<group, cached>>, <<existing, cached>>,
                              <<existing, id>>, <<joined, id>>} :
                      group' = p[1] /\ cached' = p[2]
           /\ Again(a, t)
    /\ UNCHANGED <<incus, reports, matrix, clusters, raced>>

\* enter_config_pushed.
PutConfig(a) ==
    /\ At(a, "put_config")
    /\ \E ok \in BOOLEAN :
         /\ Answers(ok)
         /\ IF ok /\ Head(work[a]).cid \in DOMAIN clusters
              THEN Then(a, [Head(work[a]) EXCEPT !.op = "pushed"]) ELSE Pop(a)
    /\ UNCHANGED <<state, mgmt, incus, reports, process>>

Pushed(a) ==
    /\ At(a, "pushed")
    /\ LET t == Head(work[a]) IN
       /\ Persist(t.k, Stage("config_pushed", t.cid, None, {}))
       /\ Again(a, t)
    /\ UNCHANGED <<mgmt, incus, reports, process, left>>

\* enter_launching: VMs with the predicted names are deleted ...
Clean(a) ==
    /\ At(a, "clean")
    /\ LET t == Head(work[a]) IN
       \E n \in t.todo, ok \in BOOLEAN :
         /\ DeleteVm({n}, ok)
         /\ Then(a, [t EXCEPT !.todo = @ \ {n},
                              !.op = IF t.todo = {n} THEN "cloud_init" ELSE "clean"])
    /\ UNCHANGED <<state, mgmt, reports, process>>

\* ... fresh host keys make the predicted ids, and the stage that names them is
\* persisted before any VM is created.
CloudInit(a) ==
    /\ At(a, "cloud_init")
    /\ LET t == Head(work[a])
           l == CHOOSE x \in Launches : x \notin UsedLaunches
       IN  \/ /\ ~(Launches \subseteq UsedLaunches)
              /\ Answers(TRUE) /\ t.cid \in DOMAIN clusters
              /\ Persist(t.k, Stage("launching", t.cid, l, {}))
              /\ beats' = {b \in beats : b[2] \in UsedLaunches}   \* nobody asks
              /\ late' = late \cap UsedLaunches                   \* for the others
              /\ Then(a, [t EXCEPT !.op = "launch", !.launch = l, !.todo = Names(t.k)])
           \/ \E ok \in BOOLEAN :
                /\ Answers(ok) /\ (ok => t.cid \notin DOMAIN clusters)
                /\ Pop(a)
                /\ UNCHANGED <<state, reports>>
    /\ UNCHANGED <<mgmt, incus, process>>

\* The VMs are created one by one; a name that exists is an error, and an
\* error leaves the rest to the timeout.
LaunchVm(a) ==
    /\ At(a, "launch")
    /\ LET t == Head(work[a]) IN
       \E n \in t.todo :
         /\ \A m \in t.todo : n[2] <= m[2]
         /\ \/ n \in DOMAIN vms /\ Pop(a) /\ UNCHANGED <<vms, left>>
            \/ /\ n \notin DOMAIN vms
               /\ \E ok \in BOOLEAN :
                    /\ Answers(ok)
                    /\ \/ vms' = Upsert(vms, n, [launch |-> t.launch, cid |-> t.cid,
                                                 up |-> TRUE])
                       \/ ~ok /\ UNCHANGED vms
                    /\ IF ok /\ t.todo # {n} THEN Then(a, [t EXCEPT !.todo = @ \ {n}])
                                             ELSE Pop(a)
    /\ UNCHANGED <<state, mgmt, reports, process, leaked>>

\* Mutant: a launch is never given up.
PollPatient(a) ==
    /\ At(a, "poll")
    /\ LET t == Head(work[a])
           AllUp == /\ t.cid \in DOMAIN clusters
                    /\ \A n \in Names(t.k) : <<n, t.launch>> \in beats
       IN  IF AllUp THEN Then(a, [t EXCEPT !.op = "up"]) ELSE Pop(a)
    /\ UNCHANGED <<state, mgmt, incus, reports, process, left>>

\* poll_launching: every id has a row in the cluster, or deploy_timeout is over,
\* or the cell stays in Launching until the next tick.
Poll(a) ==
    /\ At(a, "poll")
    /\ \E ok \in BOOLEAN :
         LET t == Head(work[a])
             AllUp == /\ ok /\ t.cid \in DOMAIN clusters
                      /\ \A n \in Names(t.k) : <<n, t.launch>> \in beats
         IN  \/ AllUp /\ Answers(ok) /\ Then(a, [t EXCEPT !.op = "up"])
             \/ ~AllUp /\ t.launch \notin late /\ Answers(ok) /\ Pop(a)
             \/ /\ ~AllUp /\ t.launch \in late /\ Answers(ok)
                /\ Then(a, [t EXCEPT !.op = "timed_out", !.todo = Names(t.k)])
    /\ UNCHANGED <<state, mgmt, incus, reports, process>>

CameUp(a) ==
    /\ At(a, "up")
    /\ LET t == Head(work[a]) IN
       Persist(t.k, Stage("running", t.cid, t.launch, t.todo))
    /\ late' = late \ {Head(work[a]).launch}
    /\ Pop(a)
    /\ UNCHANGED <<mgmt, incus, process, beats, left>>

\* on_launch_timeout: the VMs go first, the stage after them.
TimedOut(a) ==
    /\ At(a, "timed_out")
    /\ LET t == Head(work[a]) IN
       \/ \E n \in t.todo, ok \in BOOLEAN :
            /\ DeleteVm({n}, ok)
            /\ Then(a, [t EXCEPT !.todo = @ \ {n}])
            /\ UNCHANGED state
       \/ /\ t.todo = {}
          /\ Persist(t.k, Stage("config_pushed", t.cid, None, {}))
          /\ Again(a, t)
          /\ UNCHANGED <<incus, left>>
    /\ UNCHANGED <<mgmt, reports, process>>

-----------------------------------------------------------------------------
(* Destroying, sweeping, pausing. *)

\* One task per cell of the set S, in some order.
ForEach(op, S) ==
    LET o == SetToSeq(S)
    IN  [i \in 1 .. Len(o) |-> IF op = "drive" THEN DriveTask(o[i]) ELSE Task(op, o[i])]

\* Mutant: the pause flag is not looked at.
ReconcileAlways(a) ==
    /\ At(a, "reconcile")
    /\ Do(a, ForEach("drive", matrix) \o <<Task("stale", None), Task("gc", None)>>)
    /\ UNCHANGED <<state, mgmt, incus, reports, process, left>>

\* reconcile_inner: the cells of the matrix, the cells that left it, gc.
Reconcile(a) ==
    /\ At(a, "reconcile")
    /\ IF mem.paused THEN Pop(a)
       ELSE Do(a, ForEach("drive", matrix) \o <<Task("stale", None), Task("gc", None)>>)
    /\ UNCHANGED <<state, mgmt, incus, reports, process, left>>

Stale(a) ==
    /\ At(a, "stale")
    /\ Do(a, ForEach("destroy", DOMAIN mem.cells \ matrix))
    /\ UNCHANGED <<state, mgmt, incus, reports, process, left>>

\* destroy_cell: best-effort deletes of what the cell's stage names.  gc's
\* reverse sweep ("drop") does the same without the cluster and without saving.
AfterVms(op, S) ==
    IF op \in {"drop", "drop_vm"} THEN IF S = {} THEN "drop_cell" ELSE "drop_vm"
    ELSE IF S = {} THEN "destroy_cluster" ELSE "destroy_vm"

Destroy(a) ==
    /\ At(a, "destroy") \/ At(a, "drop")
    /\ LET t == Head(work[a])
           s == Find(t.k)
       IN  IF t.op = "destroy" /\ t.k \notin DOMAIN mem.cells THEN Pop(a)
           ELSE Then(a, [t EXCEPT !.cid = s.cid, !.todo = Instances(t.k, s),
                                  !.op = AfterVms(t.op, Instances(t.k, s))])
    /\ UNCHANGED <<state, mgmt, incus, reports, process, left>>

DestroyVm(a) ==
    /\ At(a, "destroy_vm") \/ At(a, "drop_vm")
    /\ LET t == Head(work[a]) IN
       \E n \in t.todo, ok \in BOOLEAN :
         /\ DeleteVm({n}, ok)
         /\ Then(a, [t EXCEPT !.todo = @ \ {n}, !.op = AfterVms(t.op, t.todo \ {n})])
    /\ UNCHANGED <<state, mgmt, reports, process>>

DestroyCluster(a) ==
    /\ At(a, "destroy_cluster")
    /\ LET t == Head(work[a]) IN
       /\ \/ t.cid = None /\ UNCHANGED <<mgmt, left>>
          \/ t.cid # None /\ \E ok \in BOOLEAN : DeleteCluster(t.cid, ok)
       /\ Then(a, [t EXCEPT !.op = "forget"])
    /\ UNCHANGED <<state, incus, reports, process>>

Forget(a) ==
    /\ At(a, "forget") \/ At(a, "drop_cell")
    /\ mem' = [mem EXCEPT !.cells = Drop(@, {Head(work[a]).k})]
    /\ disk' = IF At(a, "forget") THEN mem' ELSE disk
    /\ Pop(a)
    /\ UNCHANGED <<mgmt, incus, reports, process, left>>

\* gc_inner: what is tracked, then what Incus and the server list.
Gc(a) ==
    /\ At(a, "gc")
    /\ IF mem.paused THEN Pop(a)
       ELSE Then(a, [Head(work[a]) EXCEPT !.op = "gc_list_vms", !.keep = Tracked(mem)])
    /\ UNCHANGED <<state, mgmt, incus, reports, process, left>>

GcList(a) ==
    /\ \E ok \in BOOLEAN :
         LET t == Head(work[a]) IN
         /\ Answers(ok)
         /\ \/ /\ At(a, "gc_list_vms") /\ ok
               /\ Then(a, [t EXCEPT !.op = "gc_list_clusters", !.todo = DOMAIN vms \ t.keep])
            \/ /\ At(a, "gc_list_clusters") /\ ok
               /\ Then(a, [t EXCEPT !.op = "gc_sweep", !.keep = DOMAIN clusters,
                                    !.todo = @ \cup (DOMAIN clusters \ t.keep)])
            \/ ~ok /\ (At(a, "gc_list_vms") \/ At(a, "gc_list_clusters")) /\ Pop(a)
    /\ UNCHANGED <<state, mgmt, incus, reports, process>>

\* Forward sweep: the untracked VMs, then the untracked clusters.
GcSweep(a) ==
    /\ At(a, "gc_sweep")
    /\ LET t == Head(work[a]) IN
       \E x \in t.todo :
         /\ \/ /\ x \in AllNames
               /\ \E ok \in BOOLEAN : DeleteVm({x}, ok)
               /\ UNCHANGED mgmt
            \/ /\ t.todo \cap AllNames = {}
               /\ \E ok \in BOOLEAN : DeleteCluster(x, ok)
               /\ UNCHANGED incus
         /\ Then(a, [t EXCEPT !.todo = @ \ {x}])
    /\ UNCHANGED <<state, reports, process>>

\* Reverse sweep: cells whose cluster the server did not list.
GcReverse(a) ==
    /\ At(a, "gc_sweep") /\ Head(work[a]).todo = {}
    /\ LET gone == {k \in DOMAIN mem.cells :
                      mem.cells[k].cid \notin Head(work[a]).keep \cup {None}}
       IN  Do(a, ForEach("drop", gone) \o <<Task("save", None)>>)
    /\ UNCHANGED <<state, mgmt, incus, reports, process, left>>

\* Teardown's and redeploy's sweep of every cluster with our prefix.
Sweep(a) ==
    /\ At(a, "sweep")
    /\ \E ok \in BOOLEAN :
         /\ Answers(ok)
         /\ IF ok THEN Then(a, [Head(work[a]) EXCEPT !.op = "sweep_next",
                                  !.todo = {<<c, clusters[c]>> : c \in DOMAIN clusters}])
                  ELSE Pop(a)
    /\ UNCHANGED <<state, mgmt, incus, reports, process>>

SweepVm(a) ==
    /\ At(a, "sweep_next")
    /\ LET t == Head(work[a])
           row == CHOOSE x \in t.todo : TRUE
       IN  \/ t.todo = {} /\ Pop(a) /\ UNCHANGED <<incus, left>>
           \/ /\ t.todo # {}
              /\ \E ok \in BOOLEAN : DeleteVm(BaseName(row[2]), ok)
              /\ Then(a, [t EXCEPT !.op = "sweep_cluster", !.cid = row[1], !.todo = @ \ {row}])
    /\ UNCHANGED <<state, mgmt, reports, process>>

SweepCluster(a) ==
    /\ At(a, "sweep_cluster")
    /\ \E ok \in BOOLEAN : DeleteCluster(Head(work[a]).cid, ok)
    /\ Then(a, [Head(work[a]) EXCEPT !.op = "sweep_next"])
    /\ UNCHANGED <<state, incus, reports, process>>

\* Teardown drops the rollout group; the process keeps the id it remembers.
DropGroup(a) ==
    /\ At(a, "drop_group")
    /\ \E ok \in BOOLEAN :
         /\ Answers(ok)
         /\ \/ group' = [id |-> None, members |-> {}]
            \/ ~ok /\ UNCHANGED group
    /\ Pop(a)
    /\ UNCHANGED <<state, incus, reports, process, clusters>>

\* The steps that only write the state.
SetState(a) ==
    /\ \/ At(a, "pause") /\ SetPaused(TRUE)
       \/ At(a, "unpause") /\ SetPaused(FALSE)
       \/ At(a, "reset") /\ Persist(Head(work[a]).k, Pending)
       \/ At(a, "clear") /\ mem' = [mem EXCEPT !.cells = Drop(@, DOMAIN @)] /\ disk' = mem'
       \/ At(a, "save") /\ disk' = mem /\ UNCHANGED mem
    /\ Pop(a)
    /\ UNCHANGED <<mgmt, incus, reports, process, left>>

-----------------------------------------------------------------------------
(* The VM chaos loop, which holds no lock. *)

PowerOps == {"status", "check", "power", "record"}
Reprovisioning == work["chaos"] # <<>> /\ Head(work["chaos"]).op \notin PowerOps

ReprovisionTasks(k) ==
    <<Task("unpause", None), Task("destroy", k), Task("reset", k), DriveTask(k)>>

IsRunning(k) == k \in DOMAIN mem.cells /\ mem.cells[k].st = "running"

\* chaos_vm_tick picks: an instance stopped for too long, which is started, or
\* a running cell, to reprovision it or to toggle one of its instances.  For
\* the tasks of a toggle, n is 1 to stop and 0 to start.
ChaosVmTick ==
    /\ work["chaos"] = <<>> /\ ~mem.paused
    /\ \E k \in Cells :
         /\ IsRunning(k)
         /\ \/ \E n \in mem.cells[k].off :
                 /\ work' = [work EXCEPT !["chaos"] =
                               <<[Task("check", k) EXCEPT !.todo = {n}]>>]
                 /\ UNCHANGED <<left, raced>>
            \/ /\ "chaos_reprovision" \in left.kinds
               /\ left.ticks > 0 /\ left' = [left EXCEPT !.ticks = @ - 1]
               /\ k \in matrix
               /\ work' = [work EXCEPT !["chaos"] = ReprovisionTasks(k)]
               /\ raced' = (raced \/ work["op"] # <<>>)
            \/ /\ "chaos_power" \in left.kinds
               /\ left.ticks > 0 /\ left' = [left EXCEPT !.ticks = @ - 1]
               /\ \E n \in Names(k) :
                    work' = [work EXCEPT !["chaos"] =
                               <<[Task("status", k) EXCEPT !.todo = {n}]>>]
               /\ UNCHANGED raced
    /\ UNCHANGED <<state, mgmt, incus, reports, matrix, cached>>

\* instance_status: anything but running or stopped ends the tick.
Status ==
    /\ At("chaos", "status")
    /\ LET t == Head(work["chaos"]) IN
       \E n \in t.todo, ok \in BOOLEAN :
         /\ Answers(ok)
         /\ IF ok /\ n \in DOMAIN vms
              THEN Then("chaos", [t EXCEPT !.op = "check",
                                           !.n = IF vms[n].up THEN 1 ELSE 0])
              ELSE Pop("chaos")
    /\ UNCHANGED <<state, mgmt, incus, reports, process>>

\* cell_still_running.
StillRunning ==
    /\ At("chaos", "check")
    /\ LET t == Head(work["chaos"]) IN
       IF IsRunning(t.k) THEN Then("chaos", [t EXCEPT !.op = "power"]) ELSE Pop("chaos")
    /\ UNCHANGED <<state, mgmt, incus, reports, process, left>>

\* set_instance_state; an error skips the record.
SetPower ==
    /\ At("chaos", "power")
    /\ LET t == Head(work["chaos"]) IN
       \E n \in t.todo, ok \in BOOLEAN :
         /\ Answers(ok)
         /\ \/ n \in DOMAIN vms /\ vms' = [vms EXCEPT ![n].up = (t.n = 0)]
            \/ (~ok \/ n \notin DOMAIN vms) /\ UNCHANGED vms
         /\ IF ok /\ n \in DOMAIN vms THEN Then("chaos", [t EXCEPT !.op = "record"])
                                      ELSE Pop("chaos")
    /\ UNCHANGED <<state, mgmt, reports, process, leaked>>

\* stopped_at is set or cleared, if the cell still has the instance.
RecordPower ==
    /\ At("chaos", "record")
    /\ LET t == Head(work["chaos"]) IN
       mem' = IF t.k \in DOMAIN mem.cells
                THEN [mem EXCEPT !.cells[t.k].off =
                        IF t.n = 1 THEN @ \cup (t.todo \cap Instances(t.k, Find(t.k)))
                                   ELSE @ \ t.todo]
                ELSE mem
    /\ disk' = mem'
    /\ Pop("chaos")
    /\ UNCHANGED <<mgmt, incus, reports, process, left>>

-----------------------------------------------------------------------------
(* The locked operations, the daemons, the faults. *)

Begin(tasks) ==
    /\ work["op"] = <<>>
    /\ work' = [work EXCEPT !["op"] = tasks]
    /\ raced' = (raced \/ Reprovisioning)
    /\ UNCHANGED <<state, mgmt, incus, reports, matrix, cached>>

\* The reconcile loop ticks, and once at startup.
ReconcileTick == Begin(<<Task("reconcile", None)>>) /\ UNCHANGED left

TeardownTasks ==
    ForEach("destroy", DOMAIN mem.cells)
    \o <<Task("pause", None), Task("sweep", None), Task("drop_group", None)>>

\* The HTTP API.  Resume is /provision, whose reconcile is one more tick, and
\* /reprovision without a running cell.
Operator ==
    \/ Disturb("resume") /\ Begin(<<Task("unpause", None)>>)
    \/ Disturb("teardown") /\ Begin(TeardownTasks)
    \/ /\ Disturb("redeploy")
       /\ Begin(TeardownTasks \o <<Task("unpause", None), Task("sweep", None),
                                   Task("clear", None), Task("reconcile", None)>>)
    \/ Disturb("reprovision") /\ \E k \in matrix : Begin(ReprovisionTasks(k))
    \/ Disturb("gc") /\ Begin(<<Task("gc", None)>>)

\* A daemon that runs reports to the cluster of its token.
Heartbeat(n) ==
    /\ n \in DOMAIN vms /\ vms[n].up /\ vms[n].cid \in DOMAIN clusters
    /\ <<n, vms[n].launch>> \notin beats
    /\ beats' = beats \cup {<<n, vms[n].launch>>}
    /\ UNCHANGED <<state, mgmt, incus, process, late, work, left>>

\* deploy_timeout passes.  That comes to every launch one of whose daemons will
\* never report; for a launch that only takes long it is a disturbance.
Hopeless(k) ==
    LET s == mem.cells[k] IN
    /\ \A a \in Actors : ~(At(a, "launch") /\ Head(work[a]).k = k)
    /\ \/ s.cid \notin DOMAIN clusters
       \/ \E n \in Names(k) :
            /\ <<n, s.launch>> \notin beats
            /\ ~(n \in DOMAIN vms /\ vms[n].up /\ vms[n].launch = s.launch)

DeployTimeout(k) ==
    /\ k \in Launching /\ mem.cells[k].launch \notin late
    /\ late' = late \cup {mem.cells[k].launch}
    /\ UNCHANGED <<state, mgmt, incus, process, beats, work>>

HopelessTimeout(k) == DeployTimeout(k) /\ Hopeless(k) /\ UNCHANGED left
EarlyTimeout(k) == DeployTimeout(k) /\ Disturb("timeout")

\* Somebody deletes a cluster in the web UI.
WebDelete ==
    /\ Disturb("web")
    /\ \E c \in DOMAIN clusters : RemoveCluster(c)
    /\ UNCHANGED <<state, incus, reports, process, work>>

\* The runner dies and starts again, perhaps with another matrix.
Crash ==
    /\ Disturb("crash")
    /\ matrix' \in Matrices
    /\ mem' = disk /\ cached' = None /\ work' = [a \in Actors |-> <<>>]
    /\ UNCHANGED <<mgmt, incus, reports, disk, raced>>

Init ==
    /\ left \in Scenarios /\ matrix = left.matrix
    /\ mem = [cells |-> [k \in {} |-> Pending], paused |-> FALSE]
    /\ disk = mem
    /\ clusters = [c \in {} |-> None] /\ vms = [n \in {} |-> None]
    /\ beats = {} /\ late = {}
    /\ group = [id |-> None, members |-> {}] /\ cached = None
    /\ work = [a \in Actors |-> <<>>]
    /\ leaked = {} /\ raced = FALSE

Step(a) ==
    \/ Drive(a) \/ ListStray(a) \/ WipeVm(a) \/ WipeCluster(a) \/ CreateCluster(a)
    \/ Created(a) \/ PutConfig(a) \/ Pushed(a) \/ Clean(a) \/ CloudInit(a)
    \/ LaunchVm(a) \/ Poll(a) \/ CameUp(a) \/ TimedOut(a)
    \/ Reconcile(a) \/ Stale(a) \/ Destroy(a) \/ DestroyVm(a)
    \/ DestroyCluster(a) \/ Forget(a) \/ Gc(a) \/ GcList(a) \/ GcSweep(a) \/ GcReverse(a)
    \/ Sweep(a) \/ SweepVm(a) \/ SweepCluster(a) \/ DropGroup(a) \/ SetState(a)

ChaosPower == Status \/ StillRunning \/ SetPower \/ RecordPower

Next ==
    \/ \E a \in Actors : Step(a)
    \/ ChaosVmTick \/ ChaosPower
    \/ ReconcileTick \/ Operator
    \/ \E n \in AllNames : Heartbeat(n)
    \/ \E k \in Cells : HopelessTimeout(k) \/ EarlyTimeout(k)
    \/ WebDelete \/ Crash

Spec == Init /\ [][Next]_vars

\* Both loops tick for ever and their tasks are polled; a booted daemon reports.
Fairness ==
    /\ WF_vars(Step("op")) /\ WF_vars(Step("chaos") \/ ChaosPower)
    /\ WF_vars(ReconcileTick) /\ WF_vars(ChaosVmTick)
    /\ WF_vars(\E n \in AllNames : Heartbeat(n))
    /\ WF_vars(\E k \in Cells : HopelessTimeout(k))

LiveSpec == Spec /\ Fairness

-----------------------------------------------------------------------------
(* Properties. *)

IsState(s) ==
    /\ DOMAIN s = {"cells", "paused"} /\ s.paused \in BOOLEAN
    /\ DOMAIN s.cells \subseteq Cells
    /\ \A k \in DOMAIN s.cells : s.cells[k] \in Stages

TypeOK ==
    /\ matrix \in Matrices /\ IsState(mem) /\ IsState(disk)
    /\ DOMAIN clusters \subseteq Cids
    /\ \A c \in DOMAIN clusters : clusters[c] \in Cells
    /\ DOMAIN vms \subseteq AllNames
    /\ \A n \in DOMAIN vms :
         vms[n] \in [launch: Launches, cid: Cids, up: BOOLEAN]
    /\ beats \subseteq AllNames \X Launches /\ late \subseteq Launches
    /\ group.members \subseteq DOMAIN clusters
    /\ leaked \subseteq DOMAIN vms /\ left.left \in Nat /\ left.ticks \in Nat

\* No orphan: a VM that exists is named by a cell of the state file, so that a
\* restarted runner finds it, or a delete of it failed; through crashes at any
\* step, unless an unlocked chaos reprovision overlapped a locked operation
\* ("a crash between these two phases can't orphan a VM", enter_launching).
NoOrphanVm == raced \/ DOMAIN vms \subseteq Tracked(disk) \cup leaked

DiskLaunching == {k \in DOMAIN disk.cells : disk.cells[k].st = "launching"}

\* At most max_concurrent_launches cells are launching, crashes included, as
\* long as no chaos reprovision has overlapped a locked operation.  The count
\* and the write it permits are no critical section, so from the first overlap
\* on there may be one more, and never two: each of the two actors is at most
\* one cell past its count ("at most `max_concurrent_launches` cells may be in
\* the Launching stage at once", drive_cell).
LaunchBudget ==
    Cap = 0 \/ Cardinality(DiskLaunching) <= Cap + (IF raced THEN 1 ELSE 0)

\* The cell that a chaos reprovision works on, once one has overlapped.
Overlapping == IF raced /\ Reprovisioning THEN {Head(work["chaos"]).k} ELSE {}

\* A torn-down fleet stays down, but for one cell: while the runner is paused no
\* locked operation creates a cluster or a VM, whatever the others do.  What is
\* created all the same belongs to the one cell that the chaos loop, which takes
\* no lock, was reprovisioning when the teardown overlapped it; "every automatic
\* loop sits idle" (FleetState.paused) does not hold of that one.
NoBuildWhilePaused ==
    [][mem.paused /\ mem'.paused =>
         /\ \A n \in DOMAIN vms' \ DOMAIN vms : n[1] \in Overlapping
         /\ \A c \in DOMAIN clusters' \ DOMAIN clusters : clusters'[c] \in Overlapping]_vars

(* What makes these hold at every step, as an inductive invariant. *)

BuildOps ==
    {"drive", "list_stray", "wipe_vm", "wipe_cluster", "create_cluster", "created",
     "put_config", "pushed", "clean", "cloud_init", "launch", "poll", "up", "timed_out"}
DestroyOps == {"destroy", "destroy_vm", "destroy_cluster", "forget"}
DropOps == {"drop", "drop_vm", "drop_cell"}
SweepOps == {"sweep", "sweep_next", "sweep_cluster", "drop_group"}
GcOps == {"gc", "gc_list_vms", "gc_list_clusters", "gc_sweep"}
QuietOps == DestroyOps \cup SweepOps \cup {"pause", "unpause"}
CellOps == BuildOps \cup DestroyOps \cup DropOps \cup PowerOps \cup {"reset"}

\* The ops with which an operation begins: all but the head of a sequence.
StartOps ==
    {"reconcile", "drive", "stale", "gc", "destroy", "drop", "save", "pause", "unpause",
     "sweep", "drop_group", "reset", "clear"}

Things == AllNames \cup Cids \cup (Cids \X Cells)
GoodTasks ==
    {t \in [op: CellOps \cup SweepOps \cup GcOps \cup StartOps, k: Cells \cup {None},
            n: Int, cid: Cids \cup {None}, launch: Launches \cup {None},
            todo: SUBSET Things, keep: SUBSET Things] :
       /\ t.op \in CellOps => t.k \in Cells
       /\ t.op \in {"poll", "up"} => t.todo \subseteq AllNames
       /\ t.op = "launch" => /\ t.cid \in Cids /\ t.launch \in Launches
                             /\ t.todo \subseteq Names(t.k)
       /\ t.op \in {"sweep_next", "sweep_cluster"} => t.todo \subseteq Cids \X Cells}

Shape(w) ==
    /\ \A i \in 2 .. Len(w) : w[i].op \in StartOps
    /\ \A i \in 1 .. Len(w) :
         /\ w[i].op \in GcOps \cup PowerOps \cup {"reconcile"} => i = Len(w)
         /\ w[i].op = "stale" => i = Len(w) - 1 /\ w[i + 1].op = "gc"

WorkOK ==
    /\ work \in [Actors -> Seq(GoodTasks)]
    /\ \A a \in Actors : Shape(work[a])
    /\ work["op"] # <<>> => Head(work["op"]).op \notin PowerOps

\* What a crash would lose is only that a cell was dropped.
Mirror ==
    /\ disk.paused = mem.paused
    /\ DOMAIN mem.cells \subseteq DOMAIN disk.cells
    /\ \A k \in DOMAIN mem.cells : disk.cells[k] = mem.cells[k]

Typed ==
    /\ TypeOK
    /\ \A k \in DOMAIN disk.cells :
         disk.cells[k].st = "launching" => disk.cells[k].launch \in Launches
    /\ DOMAIN group = {"id", "members"}
    /\ left \in [matrix: Matrices, kinds: SUBSET Disturbances, left: Nat, ticks: Nat]

\* The VMs that must be accounted for, and a cell that has none of them.
Alive == DOMAIN vms \ leaked
NoVm(k) == Names(k) \cap Alive = {}
AliveTracked ==
    Alive \subseteq UNION {Instances(k, mem.cells[k]) : k \in DOMAIN mem.cells}

\* What has been established when a task is the next one.
HeadSafe(t) ==
    /\ t.op \in {"list_stray", "wipe_vm", "wipe_cluster", "create_cluster", "created",
                 "put_config", "pushed", "destroy_cluster", "forget", "drop_cell"}
         => NoVm(t.k)
    /\ t.op \in {"timed_out", "destroy_vm", "drop_vm"} => Names(t.k) \cap Alive \subseteq t.todo
    /\ t.op \in {"clean", "cloud_init"} => ~LaunchQueueFull
    /\ t.op = "launch" => t.k \in Launching

\* A cell is reset, or all are cleared, only after they have been destroyed.
ResetSafe(w) ==
    \A i \in 1 .. Len(w) : w[i].op = "reset" =>
        \/ i = 1 /\ NoVm(w[1].k)
        \/ i = 2 /\ w[1].op \in DestroyOps /\ w[1].k = w[2].k
        \/ i = 3 /\ w[1].op = "unpause" /\ w[2].op = "destroy" /\ w[2].k = w[3].k
ClearSafe(w) ==
    \A i \in 1 .. Len(w) : w[i].op = "clear" =>
        /\ \A j \in 1 .. i - 1 : w[j].op \in QuietOps
        /\ \A k \in DOMAIN mem.cells :
             \E j \in 1 .. i - 1 : w[j].op \in DestroyOps /\ w[j].k = k

\* Nothing is built while the runner is paused, nor after it is going to be.
PauseSafe(w) ==
    \A i \in 1 .. Len(w) : w[i].op \in BuildOps =>
        /\ ~mem.paused \/ w[1].op = "unpause"
        /\ \A j \in 1 .. Len(w) : w[j].op # "pause"

SafeFor(a) ==
    /\ work[a] # <<>> => HeadSafe(Head(work[a]))
    /\ ResetSafe(work[a]) /\ ClearSafe(work[a]) /\ PauseSafe(work[a])

\* The limit, as long as nothing has overlapped.
CapKept == Cap = 0 \/ Cardinality(DiskLaunching) <= Cap

Safe ==
    /\ AliveTracked
    /\ CapKept
    /\ work["op"] # <<>> => ~Reprovisioning
    /\ \A a \in Actors : SafeFor(a)

IInv == Typed /\ Mirror /\ WorkOK /\ (raced \/ Safe)

\* An actor has found room among the launching cells and not yet used it.
Past(a) == work[a] # <<>> /\ Head(work[a]).op \in {"clean", "cloud_init"}

\* What holds overlapped or not: only locked operations pause, none builds under
\* a pause, and each actor uses the room it has found for one cell.
RaceInv ==
    /\ PauseSafe(work["op"])
    /\ \A i \in 1 .. Len(work["chaos"]) : work["chaos"][i].op # "pause"
    /\ Cap > 0 =>
         /\ Cardinality(DiskLaunching) <= Cap + 1
         /\ \A a \in Actors : Past(a) => Cardinality(Launching) <= Cap
         /\ (\A a \in Actors : Past(a)) => Cardinality(Launching) < Cap

Settled ==
    /\ DOMAIN mem.cells = matrix
    /\ \A k \in matrix : IsRunning(k) /\ mem.cells[k].off = {}
    /\ DOMAIN vms \cup DOMAIN clusters \subseteq Tracked(mem)

\* Reconciliation converges: once faults and operators are quiet, either the
\* runner is paused or every cell of the matrix runs, no instance is on record
\* as stopped, and nothing else is left of the fleet, on the server, on Incus or
\* in the state, however the chaos loop raced the others before.
FleetConverges == <>[](mem.paused \/ Settled)

\* "Cleared by any explicit provision / reprovision / redeploy so the operator
\* has to ask for the fleet to come back" (FleetState.paused).
TeardownHolds ==
    [][mem.paused /\ ~mem'.paused => work'["op"] # work["op"]]_vars

Quiet == \A a \in Actors : work[a] = <<>>

\* "the next reconcile tick will retry membership" (enter_cluster_created): a
\* cell that runs is in the fleet's rollout group, between operations.
RunningIsEnrolled ==
    \A k \in DOMAIN mem.cells :
        IsRunning(k) /\ Quiet => mem.cells[k].cid \in group.members

\* "Each variant encodes precisely which external resources exist" (CellStage):
\* between operations, the instances of a running cell exist.
RunningHasVms ==
    \A k \in DOMAIN mem.cells :
        IsRunning(k) /\ Quiet => Names(k) \subseteq DOMAIN vms
=============================================================================
