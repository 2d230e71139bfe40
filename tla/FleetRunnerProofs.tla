------------------------- MODULE FleetRunnerProofs -------------------------
(***************************************************************************)
(* The fleet runner for any cells, node counts, matrices, launch limit and *)
(* scenarios, through any failures and crashes.  As long as no chaos       *)
(* reprovision has overlapped a locked operation: no VM is orphaned, the   *)
(* launch budget is kept and nothing is built while the runner is paused.  *)
(* After an overlap: the budget is exceeded by one cell at most, and only  *)
(* the cell that the chaos loop reprovisions is built under a pause.       *)
(***************************************************************************)
EXTENDS FleetRunner, FiniteSetTheorems, TLAPS

OpNames == CellOps \cup SweepOps \cup GcOps \cup StartOps

-----------------------------------------------------------------------------
(* Tasks and sequences of them. *)

LEMMA TaskFields ==
    ASSUME NEW op, NEW k
    PROVE  LET t == Task(op, k) IN
           /\ t.op = op /\ t.k = k /\ t.n = 0 /\ t.cid = None /\ t.launch = None
           /\ t.todo = {} /\ t.keep = {}
BY DEF Task

LEMMA TaskGood ==
    ASSUME NEW op \in OpNames, NEW k \in Cells \cup {None},
           op \in CellOps => k \in Cells, op # "launch"
    PROVE  Task(op, k) \in GoodTasks
BY DEF Task, GoodTasks, OpNames

LEMMA DriveTaskGood ==
    ASSUME NEW k \in Cells, NEW n \in Int
    PROVE  LET t == [DriveTask(k) EXCEPT !.n = n] IN
           t \in GoodTasks /\ t.op = "drive" /\ t.k = k
BY DEF DriveTask, Task, GoodTasks, CellOps, BuildOps

LEMMA DriveTaskItself ==
    ASSUME NEW k \in Cells
    PROVE  DriveTask(k) \in GoodTasks /\ DriveTask(k).op = "drive" /\ DriveTask(k).k = k
BY DEF DriveTask, Task, GoodTasks, CellOps, BuildOps, MAX_STEPS

LEMMA SetToSeqIs ==
    ASSUME NEW S, IsFiniteSet(S)
    PROVE  /\ SetToSeq(S) \in Seq(S)
           /\ \A x \in S : \E i \in 1 .. Len(SetToSeq(S)) : SetToSeq(S)[i] = x
<1> DEFINE n == Cardinality(S)
           o == SetToSeq(S)
<1>1. n \in Nat /\ ExistsBijection(1 .. n, S)
    BY FS_CardinalityType
<1>2. \E f \in [1 .. n -> S] : IsInjective(f)
    BY <1>1 DEF ExistsBijection, Bijection, Injection
<1>3. o \in [1 .. n -> S] /\ IsInjective(o)
    BY <1>2 DEF SetToSeq
<1>4. o \in Injection(1 .. n, S)
    BY <1>3 DEF Injection
<1>5. Cardinality(1 .. n) = n
    BY <1>1, FS_Interval
<1>6. o \in Surjection(1 .. n, S)
    BY <1>4, <1>5, FS_Injection
<1>7. \A x \in S : \E i \in 1 .. n : o[i] = x
    BY <1>6 DEF Surjection
<1> HIDE DEF o
<1>8. o \in Seq(S) /\ Len(o) = n
    BY <1>1, <1>3
<1> QED BY <1>7, <1>8 DEF o

LEMMA ForEachIs ==
    ASSUME NEW op \in {"drive", "destroy", "drop"}, NEW S, S \subseteq Cells
    PROVE  LET w == ForEach(op, S) IN
           /\ w \in Seq(GoodTasks)
           /\ \A i \in 1 .. Len(w) : w[i].op = op /\ w[i].k \in S
           /\ \A k \in S : \E i \in 1 .. Len(w) : w[i].k = k
<1> DEFINE o == SetToSeq(S)
           w == ForEach(op, S)
<1>1. IsFiniteSet(S)
    BY FleetAssumption, FS_Subset
<1>2. o \in Seq(S) /\ \A x \in S : \E i \in 1 .. Len(o) : o[i] = x
    BY <1>1, SetToSeqIs
<1>3. w = [i \in 1 .. Len(o) |-> IF op = "drive" THEN DriveTask(o[i]) ELSE Task(op, o[i])]
    BY DEF ForEach
<1> HIDE DEF o, w
<1>4. ASSUME NEW i \in 1 .. Len(o)
      PROVE  w[i] \in GoodTasks /\ w[i].op = op /\ w[i].k = o[i] /\ o[i] \in S
    <2>1. o[i] \in S /\ o[i] \in Cells
        BY <1>2
    <2>2. CASE op = "drive"
        BY <1>3, <2>1, <2>2, DriveTaskItself
    <2>3. CASE op # "drive"
        <3>1. op \in OpNames /\ op # "launch"
            BY DEF OpNames, StartOps
        <3> QED BY <1>3, <2>1, <2>3, <3>1, TaskGood, TaskFields
    <2> QED BY <2>2, <2>3
<1>5. Len(o) \in Nat
    BY <1>2
<1>6. w \in Seq(GoodTasks) /\ Len(w) = Len(o)
    BY <1>3, <1>4, <1>5
<1>7. \A i \in 1 .. Len(w) : w[i].op = op /\ w[i].k \in S
    BY <1>4, <1>6
<1>8. \A k \in S : \E i \in 1 .. Len(w) : w[i].k = k
    BY <1>2, <1>4, <1>6
<1> QED BY <1>6, <1>7, <1>8 DEF w

LEMMA ReplacedSeq ==
    ASSUME NEW G, NEW w \in Seq(G), w # <<>>, NEW u \in G
    PROVE  LET v == <<u>> \o Tail(w) IN
           /\ v \in Seq(G) /\ Len(v) = Len(w) /\ v # <<>> /\ Head(v) = u /\ v[1] = u
           /\ \A i \in 2 .. Len(w) : v[i] = w[i]
<1> DEFINE v == <<u>> \o Tail(w)
<1>1. /\ Tail(w) \in Seq(G) /\ Len(Tail(w)) = Len(w) - 1 /\ Len(w) \in Nat /\ Len(w) >= 1
      /\ \A i \in 1 .. Len(w) - 1 : Tail(w)[i] = w[i + 1]
    OBVIOUS
<1>2. v \in Seq(G) /\ Len(v) = Len(w) /\ v[1] = u
    BY <1>1
<1>3. v # <<>> /\ Head(v) = v[1]
    BY <1>1, <1>2
<1>4. ASSUME NEW i \in 2 .. Len(w)
      PROVE  v[i] = w[i]
    <2>1. i - 1 \in 1 .. Len(w) - 1 /\ (i - 1) + 1 = i
        BY <1>1
    <2>2. v[i] = Tail(w)[i - 1]
        BY <1>1, <2>1
    <2> QED BY <1>1, <2>1, <2>2
<1> QED BY <1>2, <1>3, <1>4

LEMMA PoppedSeq ==
    ASSUME NEW G, NEW w \in Seq(G), w # <<>>
    PROVE  /\ Tail(w) \in Seq(G) /\ Len(Tail(w)) = Len(w) - 1 /\ Len(w) \in Nat /\ Len(w) >= 1
           /\ Head(w) \in G /\ Head(w) = w[1] /\ w[1] \in G
           /\ \A i \in 1 .. Len(w) - 1 : Tail(w)[i] = w[i + 1]
           /\ Tail(w) # <<>> => Len(w) >= 2 /\ Head(Tail(w)) = w[2]
           /\ <<>> \o Tail(w) = Tail(w)
<1>1. /\ Tail(w) \in Seq(G) /\ Len(Tail(w)) = Len(w) - 1 /\ Len(w) \in Nat /\ Len(w) >= 1
      /\ Head(w) \in G /\ Head(w) = w[1] /\ w[1] \in G
      /\ \A i \in 1 .. Len(w) - 1 : Tail(w)[i] = w[i + 1]
    OBVIOUS
<1>2. ASSUME Tail(w) # <<>>
      PROVE  Len(w) >= 2 /\ Head(Tail(w)) = w[2]
    <2>1. Len(Tail(w)) >= 1
        BY <1>1, <1>2
    <2>2. Head(Tail(w)) = Tail(w)[1]
        BY <1>1, <1>2
    <2> QED BY <1>1, <2>1, <2>2
<1>3. <<>> \o Tail(w) = Tail(w)
    BY <1>1
<1> QED BY <1>1, <1>2, <1>3

(* The ops of a head that a step replaces, and of what it is replaced by.     *)
LEMMA ShapeReplaced ==
    ASSUME NEW w \in Seq(GoodTasks), w # <<>>, Shape(w), NEW u \in GoodTasks,
           u.op \in GcOps \cup PowerOps => w[1].op \in GcOps \cup PowerOps,
           u.op \notin {"stale", "reconcile"}
    PROVE  Shape(<<u>> \o Tail(w))
<1> DEFINE v == <<u>> \o Tail(w)
<1>1. Len(v) = Len(w) /\ Len(w) \in Nat /\ v[1] = u /\ \A i \in 2 .. Len(w) : v[i] = w[i]
    BY ReplacedSeq, PoppedSeq
<1> HIDE DEF v
<1>2. \A i \in 2 .. Len(v) : v[i].op \in StartOps
    BY <1>1 DEF Shape
<1>3. ASSUME NEW i \in 1 .. Len(v)
      PROVE  /\ v[i].op \in GcOps \cup PowerOps \cup {"reconcile"} => i = Len(v)
             /\ v[i].op = "stale" => i = Len(v) - 1 /\ v[i + 1].op = "gc"
    <2>1. CASE i = 1
        BY <1>1, <2>1 DEF Shape
    <2>2. CASE i # 1
        <3>1. i \in 2 .. Len(w) /\ v[i] = w[i]
            BY <1>1, <2>2
        <3>2. ASSUME v[i].op = "stale"
              PROVE  i = Len(v) - 1 /\ v[i + 1].op = "gc"
            <4>1. i = Len(w) - 1 /\ w[i + 1].op = "gc"
                BY <1>1, <3>1, <3>2 DEF Shape
            <4>2. i + 1 \in 2 .. Len(w)
                BY <1>1, <3>1, <4>1
            <4> QED BY <1>1, <4>1, <4>2
        <3> QED BY <1>1, <3>1, <3>2 DEF Shape
    <2> QED BY <2>1, <2>2
<1>4. Shape(v)
    BY <1>2, <1>3 DEF Shape
<1> QED BY <1>4 DEF v

LEMMA ShapePopped ==
    ASSUME NEW w \in Seq(GoodTasks), w # <<>>, Shape(w)
    PROVE  Shape(Tail(w))
<1> DEFINE v == Tail(w)
<1>1. Len(v) = Len(w) - 1 /\ Len(w) \in Nat /\ \A i \in 1 .. Len(v) : v[i] = w[i + 1]
    BY PoppedSeq
<1> HIDE DEF v
<1>2. \A i \in 2 .. Len(v) : v[i].op \in StartOps
    BY <1>1 DEF Shape
<1>3. ASSUME NEW i \in 1 .. Len(v)
      PROVE  /\ v[i].op \in GcOps \cup PowerOps \cup {"reconcile"} => i = Len(v)
             /\ v[i].op = "stale" => i = Len(v) - 1 /\ v[i + 1].op = "gc"
    <2>1. i + 1 \in 1 .. Len(w) /\ v[i] = w[i + 1]
        BY <1>1
    <2>2. v[i].op \in GcOps \cup PowerOps \cup {"reconcile"} => i = Len(v)
        BY <1>1, <2>1 DEF Shape
    <2>3. ASSUME v[i].op = "stale"
          PROVE  i = Len(v) - 1 /\ v[i + 1].op = "gc"
        <3>1. i + 1 = Len(w) - 1 /\ w[(i + 1) + 1].op = "gc"
            BY <2>1, <2>3 DEF Shape
        <3>2. i + 1 \in 1 .. Len(v)
            BY <1>1, <3>1
        <3> QED BY <1>1, <3>1, <3>2
    <2> QED BY <2>2, <2>3
<1>4. Shape(v)
    BY <1>2, <1>3 DEF Shape
<1> QED BY <1>4 DEF v

LEMMA PowerIsNoStart == PowerOps \cap StartOps = {}
BY DEF PowerOps, StartOps

LEMMA WorkSet ==
    ASSUME WorkOK, NEW a \in Actors, NEW v \in Seq(GoodTasks), Shape(v),
           a = "op" /\ v # <<>> => Head(v).op \notin PowerOps,
           work' = [work EXCEPT ![a] = v]
    PROVE  /\ WorkOK' /\ work'[a] = v
           /\ \A b \in Actors \ {a} : work'[b] = work[b]
BY DEF WorkOK, Actors

(* Do with one task, and with none.                                          *)
LEMMA WorkReplaced ==
    ASSUME WorkOK, NEW a \in Actors, work[a] # <<>>, NEW u \in GoodTasks, Then(a, u),
           a = "op" => u.op \notin PowerOps,
           u.op \in GcOps \cup PowerOps => Head(work[a]).op \in GcOps \cup PowerOps,
           u.op \notin {"stale", "reconcile"}
    PROVE  /\ WorkOK' /\ work'[a] = <<u>> \o Tail(work[a])
           /\ \A b \in Actors \ {a} : work'[b] = work[b]
<1> DEFINE v == <<u>> \o Tail(work[a])
<1>1. work[a] \in Seq(GoodTasks) /\ Shape(work[a]) /\ work \in [Actors -> Seq(GoodTasks)]
    BY DEF WorkOK
<1>2. v \in Seq(GoodTasks) /\ Head(v) = u
    BY <1>1, ReplacedSeq
<1>3. Head(work[a]) = work[a][1]
    BY <1>1, PoppedSeq
<1>4. Shape(v)
    BY <1>1, <1>3, ShapeReplaced
<1>5. work' = [work EXCEPT ![a] = v]
    BY <1>1 DEF Then, Do
<1> HIDE DEF v
<1>6. /\ WorkOK' /\ work'[a] = v
      /\ \A b \in Actors \ {a} : work'[b] = work[b]
    BY <1>2, <1>4, <1>5, WorkSet
<1> QED BY <1>6 DEF v

LEMMA WorkPopped ==
    ASSUME WorkOK, NEW a \in Actors, work[a] # <<>>, Pop(a)
    PROVE  /\ WorkOK' /\ work'[a] = Tail(work[a])
           /\ \A b \in Actors \ {a} : work'[b] = work[b]
<1> DEFINE v == Tail(work[a])
<1>1. work[a] \in Seq(GoodTasks) /\ Shape(work[a]) /\ work \in [Actors -> Seq(GoodTasks)]
    BY DEF WorkOK
<1>2. v \in Seq(GoodTasks) /\ Shape(v) /\ <<>> \o Tail(work[a]) = v
    BY <1>1, PoppedSeq, ShapePopped
<1>3. v # <<>> => Head(v).op \notin PowerOps
    <2> SUFFICES ASSUME v # <<>> PROVE Head(v).op \notin PowerOps
        OBVIOUS
    <2>1. Len(work[a]) >= 2 /\ Len(work[a]) \in Nat /\ Head(v) = work[a][2]
        BY <1>1, PoppedSeq
    <2>2. work[a][2].op \in StartOps
        BY <1>1, <2>1 DEF Shape
    <2> QED BY <2>1, <2>2, PowerIsNoStart
<1>4. work' = [work EXCEPT ![a] = v]
    BY <1>1, <1>2 DEF Pop, Do
<1> HIDE DEF v
<1>5. /\ WorkOK' /\ work'[a] = v
      /\ \A b \in Actors \ {a} : work'[b] = work[b]
    BY <1>2, <1>3, <1>4, WorkSet
<1> QED BY <1>5 DEF v

-----------------------------------------------------------------------------
(* The parts of the type invariant, and what an effect does to each. *)

StateOK ==
    /\ IsState(mem) /\ IsState(disk)
    /\ \A k \in DOMAIN disk.cells :
         disk.cells[k].st = "launching" => disk.cells[k].launch \in Launches
    /\ Mirror
MgmtOK ==
    /\ DOMAIN clusters \subseteq Cids
    /\ \A c \in DOMAIN clusters : clusters[c] \in Cells
    /\ group.members \subseteq DOMAIN clusters
    /\ DOMAIN group = {"id", "members"}
IncusOK ==
    /\ DOMAIN vms \subseteq AllNames
    /\ \A n \in DOMAIN vms : vms[n] \in [launch: Launches, cid: Cids, up: BOOLEAN]
    /\ leaked \subseteq DOMAIN vms
ReportsOK == beats \subseteq AllNames \X Launches /\ late \subseteq Launches
LeftOK == left \in [matrix: Matrices, kinds: SUBSET Disturbances, left: Nat, ticks: Nat]
OthersOK == MgmtOK /\ ReportsOK /\ matrix \in Matrices
PartsOK == StateOK /\ IncusOK /\ OthersOK /\ LeftOK /\ WorkOK

LEMMA Parts ==
    /\ IInv <=> PartsOK /\ (raced \/ Safe)
    /\ IInv' <=> PartsOK' /\ (raced' \/ Safe')
<1>1. IInv <=> PartsOK /\ (raced \/ Safe)
    BY DEF IInv, Typed, TypeOK, PartsOK, StateOK, MgmtOK, IncusOK, ReportsOK, LeftOK, OthersOK
<1>2. IInv' <=> PartsOK' /\ (raced' \/ Safe')
    BY DEF IInv, Typed, TypeOK, PartsOK, StateOK, MgmtOK, IncusOK, ReportsOK, LeftOK, OthersOK
<1> QED BY <1>1, <1>2

LEMMA Kept ==
    /\ StateOK /\ UNCHANGED state => StateOK'
    /\ MgmtOK /\ UNCHANGED mgmt => MgmtOK'
    /\ IncusOK /\ UNCHANGED incus => IncusOK' /\ Alive' = Alive
    /\ OthersOK /\ UNCHANGED <<mgmt, reports, matrix>> => OthersOK'
    /\ LeftOK /\ UNCHANGED left => LeftOK'
    /\ WorkOK /\ UNCHANGED work => WorkOK'
<1>1. StateOK /\ UNCHANGED state => StateOK'
    BY DEF StateOK, state, Mirror
<1>2. MgmtOK /\ UNCHANGED mgmt => MgmtOK'
    BY DEF MgmtOK, mgmt
<1>3. IncusOK /\ UNCHANGED incus => IncusOK' /\ Alive' = Alive
    BY DEF IncusOK, incus, Alive
<1>4. ReportsOK /\ UNCHANGED reports => ReportsOK'
    BY DEF ReportsOK, reports
<1>5. WorkOK /\ UNCHANGED work => WorkOK'
    BY DEF WorkOK
<1> QED BY <1>1, <1>2, <1>3, <1>4, <1>5 DEF OthersOK, LeftOK

LEMMA DisturbLeft ==
    ASSUME LeftOK, NEW kind, Disturb(kind)
    PROVE  LeftOK'
BY DEF LeftOK, Disturb

LEMMA AnswersLeft ==
    ASSUME LeftOK, NEW ok \in BOOLEAN, Answers(ok)
    PROVE  LeftOK'
BY DisturbLeft DEF LeftOK, Answers

LEMMA DeletedVm ==
    ASSUME IncusOK, LeftOK, NEW S, NEW ok \in BOOLEAN, DeleteVm(S, ok)
    PROVE  IncusOK' /\ LeftOK' /\ Alive' \subseteq Alive \ S
<1>1. LeftOK'
    BY AnswersLeft DEF DeleteVm
<1>2. PICK gone \in {S, {}}, halted \in {{}, S} :
        /\ vms' = [n \in DOMAIN vms \ gone |->
                     IF n \in halted THEN [vms[n] EXCEPT !.up = FALSE] ELSE vms[n]]
        /\ leaked' = (leaked \ gone) \cup ((S \ gone) \cap DOMAIN vms)
    BY DEF DeleteVm
<1>3. DOMAIN vms' = DOMAIN vms \ gone
    BY <1>2
<1>4. IncusOK'
    BY <1>2, <1>3 DEF IncusOK
<1>5. Alive' \subseteq Alive \ S
    BY <1>2, <1>3 DEF Alive, IncusOK
<1> QED BY <1>1, <1>4, <1>5

LEMMA RemovedCluster ==
    ASSUME MgmtOK, NEW c, RemoveCluster(c)
    PROVE  MgmtOK' /\ DOMAIN clusters' \subseteq DOMAIN clusters
<1>1. /\ DOMAIN clusters' = DOMAIN clusters \ {c}
      /\ \A x \in DOMAIN clusters' : clusters'[x] = clusters[x]
    BY DEF RemoveCluster, Drop
<1>2. DOMAIN group' = {"id", "members"} /\ group'.members = group.members \ {c}
    BY DEF RemoveCluster, MgmtOK
<1> QED BY <1>1, <1>2 DEF MgmtOK

LEMMA DeletedCluster ==
    ASSUME MgmtOK, LeftOK, NEW c, NEW ok \in BOOLEAN, DeleteCluster(c, ok)
    PROVE  MgmtOK' /\ LeftOK' /\ DOMAIN clusters' \subseteq DOMAIN clusters
<1>1. LeftOK'
    BY AnswersLeft DEF DeleteCluster
<1>2. CASE RemoveCluster(c)
    BY <1>1, <1>2, RemovedCluster
<1>3. CASE UNCHANGED mgmt
    BY <1>1, <1>3, Kept DEF mgmt
<1> QED BY <1>2, <1>3 DEF DeleteCluster

LEMMA UpsertIs ==
    ASSUME NEW f, NEW k, NEW v
    PROVE  /\ DOMAIN Upsert(f, k, v) = DOMAIN f \cup {k}
           /\ Upsert(f, k, v)[k] = v
           /\ \A x \in DOMAIN f : x # k => Upsert(f, k, v)[x] = f[x]
BY DEF Upsert

LEMMA DropIs ==
    ASSUME NEW f, NEW S
    PROVE  /\ DOMAIN Drop(f, S) = DOMAIN f \ S
           /\ \A x \in DOMAIN f \ S : Drop(f, S)[x] = f[x]
BY DEF Drop

(* Whatever part of its cells the state keeps, it may be saved.               *)
LEMMA StateSaved ==
    ASSUME StateOK, IsState(mem'), disk' = mem',
           \A k \in DOMAIN mem'.cells :
             mem'.cells[k].st = "launching" => mem'.cells[k].launch \in Launches
    PROVE  StateOK'
BY DEF StateOK, Mirror

LEMMA MemLaunches ==
    ASSUME StateOK, NEW k \in DOMAIN mem.cells
    PROVE  /\ mem.cells[k] \in Stages /\ k \in Cells
           /\ mem.cells[k].st = "launching" => mem.cells[k].launch \in Launches
BY DEF StateOK, Mirror, IsState

LEMMA Persisted ==
    ASSUME StateOK, NEW k \in Cells, NEW s \in Stages, Persist(k, s),
           s.st = "launching" => s.launch \in Launches
    PROVE  /\ StateOK' /\ disk' = mem' /\ mem'.paused = mem.paused
           /\ DOMAIN mem'.cells = DOMAIN mem.cells \cup {k}
           /\ mem'.cells[k] = s
           /\ \A x \in DOMAIN mem.cells : x # k => mem'.cells[x] = mem.cells[x]
<1>1. IsState(mem)
    BY DEF StateOK
<1>2. /\ DOMAIN mem' = {"cells", "paused"} /\ mem'.paused = mem.paused
      /\ mem'.cells = Upsert(mem.cells, k, s) /\ disk' = mem'
    BY <1>1 DEF Persist, IsState
<1>3. /\ DOMAIN mem'.cells = DOMAIN mem.cells \cup {k} /\ mem'.cells[k] = s
      /\ \A x \in DOMAIN mem.cells : x # k => mem'.cells[x] = mem.cells[x]
    BY <1>2 DEF Upsert
<1>4. IsState(mem')
    BY <1>1, <1>2, <1>3 DEF IsState
<1>5. \A x \in DOMAIN mem'.cells :
        mem'.cells[x].st = "launching" => mem'.cells[x].launch \in Launches
    BY <1>3, MemLaunches
<1> QED BY <1>2, <1>3, <1>4, <1>5, StateSaved

-----------------------------------------------------------------------------
(* VMs and launches that are accounted for. *)

LEMMA NamesApart ==
    /\ \A k, l : k # l => Names(k) \cap Names(l) = {}
    /\ \A k \in Cells : Names(k) \subseteq AllNames
BY DEF Names, AllNames

LEMMA NoVmUntracked ==
    ASSUME AliveTracked, NEW k
    PROVE  /\ k \notin DOMAIN mem.cells => NoVm(k)
           /\ k \in DOMAIN mem.cells /\ mem.cells[k].st \notin {"launching", "running"} => NoVm(k)
           /\ k \in DOMAIN mem.cells => Names(k) \cap Alive \subseteq Instances(k, mem.cells[k])
<1>1. ASSUME NEW n \in Names(k) \cap Alive
      PROVE  k \in DOMAIN mem.cells /\ n \in Instances(k, mem.cells[k])
    <2>1. PICK l \in DOMAIN mem.cells : n \in Instances(l, mem.cells[l])
        BY DEF AliveTracked
    <2>2. n \in Names(l)
        BY <2>1 DEF Instances
    <2>3. l = k
        BY <1>1, <2>2, NamesApart
    <2> QED BY <2>1, <2>3
<1> QED BY <1>1 DEF NoVm, Instances

LEMMA TrackedKept ==
    ASSUME AliveTracked, Alive' \subseteq Alive,
           \A k \in DOMAIN mem.cells :
             \/ NoVm(k)
             \/ NoVm(k)'
             \/ k \in DOMAIN mem'.cells
                  /\ Instances(k, mem.cells[k]) \subseteq Instances(k, mem'.cells[k])
    PROVE  AliveTracked'
<1> SUFFICES ASSUME NEW n \in Alive'
             PROVE  \E k \in DOMAIN mem'.cells : n \in Instances(k, mem'.cells[k])
    BY DEF AliveTracked
<1>1. PICK k \in DOMAIN mem.cells : n \in Instances(k, mem.cells[k])
    BY DEF AliveTracked
<1>2. n \in Names(k) /\ n \in Alive
    BY <1>1 DEF Instances
<1>3. ~NoVm(k) /\ ~NoVm(k)'
    BY <1>2 DEF NoVm, Names
<1> QED BY <1>1, <1>3

LEMMA LaunchingFinite ==
    ASSUME StateOK
    PROVE  /\ IsFiniteSet(DiskLaunching) /\ IsFiniteSet(Launching)
           /\ Cardinality(DiskLaunching) \in Nat /\ Cardinality(Launching) \in Nat
           /\ Launching \subseteq DiskLaunching
<1>1. DiskLaunching \subseteq Cells /\ Launching \subseteq Cells /\ Launching \subseteq DiskLaunching
    BY DEF StateOK, IsState, Mirror, DiskLaunching, Launching
<1>2. IsFiniteSet(DiskLaunching) /\ IsFiniteSet(Launching)
    BY <1>1, FleetAssumption, FS_Subset
<1> QED BY <1>1, <1>2, FS_CardinalityType

LEMMA BudgetKept ==
    ASSUME StateOK, StateOK', ~raced, CapKept, DiskLaunching' \subseteq DiskLaunching
    PROVE  CapKept'
<1>1. Cap = 0 \/ Cardinality(DiskLaunching) <= Cap
    BY DEF CapKept, DiskLaunching
<1>2. Cardinality(DiskLaunching') <= Cardinality(DiskLaunching)
    BY LaunchingFinite, FS_Subset
<1>3. Cardinality(DiskLaunching') \in Nat
    <2>1. IsFiniteSet(DiskLaunching')
        BY LaunchingFinite, FS_Subset
    <2> QED BY <2>1, FS_CardinalityType
<1>4. Cap = 0 \/ Cardinality(DiskLaunching') <= Cap
    BY <1>1, <1>2, <1>3, LaunchingFinite, FleetAssumption
<1> QED BY <1>4 DEF CapKept, DiskLaunching

(* Persisting a stage keeps both.                                            *)
LEMMA PersistSafe ==
    ASSUME StateOK, ~raced, AliveTracked, CapKept, NEW k \in Cells, NEW s \in Stages,
           Persist(k, s), s.st = "launching" => s.launch \in Launches /\ ~LaunchQueueFull,
           s.st \in {"launching", "running"} \/ NoVm(k), Alive' \subseteq Alive
    PROVE  AliveTracked' /\ CapKept'
<1>1. /\ StateOK' /\ disk' = mem' /\ DOMAIN mem'.cells = DOMAIN mem.cells \cup {k}
      /\ mem'.cells[k] = s
      /\ \A x \in DOMAIN mem.cells : x # k => mem'.cells[x] = mem.cells[x]
    BY Persisted
<1>2. AliveTracked'
    <2>1. ASSUME NEW x \in DOMAIN mem.cells
          PROVE  \/ NoVm(x)
                 \/ x \in DOMAIN mem'.cells
                      /\ Instances(x, mem.cells[x]) \subseteq Instances(x, mem'.cells[x])
        <3>1. CASE x = k
            BY <1>1, <3>1 DEF Instances
        <3>2. CASE x # k
            BY <1>1, <3>2
        <3> QED BY <3>1, <3>2
    <2> QED BY <2>1, TrackedKept
<1>3. CASE s.st # "launching"
    <2>1. DiskLaunching' \subseteq Launching
        BY <1>1, <1>3 DEF DiskLaunching, Launching
    <2> QED BY <1>1, <1>2, <2>1, LaunchingFinite, BudgetKept
<1>4. CASE s.st = "launching"
    <2>1. DiskLaunching' = Launching \cup {k}
        BY <1>1, <1>4 DEF DiskLaunching, Launching
    <2>2. Cap = 0 \/ Cardinality(Launching) < Cap
        BY <1>4, LaunchingFinite, FleetAssumption DEF LaunchQueueFull
    <2>3. IsFiniteSet(Launching) /\ Cardinality(Launching) \in Nat
        BY LaunchingFinite
    <2>4. Cardinality(Launching \cup {k}) <= Cardinality(Launching) + 1
        <3>1. Cardinality(Launching \cup {k}) =
                IF k \in Launching THEN Cardinality(Launching) ELSE Cardinality(Launching) + 1
            BY <2>3, FS_AddElement
        <3> QED BY <2>3, <3>1
    <2>5. Cardinality(Launching \cup {k}) \in Nat
        BY <2>3, FS_AddElement, FS_CardinalityType
    <2>6. Cap = 0 \/ Cardinality(DiskLaunching') <= Cap
        BY <2>1, <2>2, <2>3, <2>4, <2>5, FleetAssumption
    <2> QED BY <1>2, <2>6 DEF CapKept, DiskLaunching
<1> QED BY <1>3, <1>4

-----------------------------------------------------------------------------
(* What is known of an actor's tasks. *)

(* An actor that does nothing, or only toggles the power of an instance.      *)
Idle(a) == work[a] = <<>> \/ Head(work[a]).op \in PowerOps

LEMMA IdleSafe ==
    ASSUME WorkOK', NEW a \in Actors, Idle(a)'
    PROVE  SafeFor(a)'
<1> DEFINE w == work'[a]
<1>1. w \in Seq(GoodTasks) /\ Shape(w)
    BY DEF WorkOK
<1>2. CASE w = <<>>
    BY <1>2 DEF SafeFor, ResetSafe, ClearSafe, PauseSafe
<1>3. CASE w # <<>> /\ Head(w).op \in PowerOps
    <2>1. Len(w) \in Nat /\ Len(w) >= 1 /\ Head(w) = w[1]
        BY <1>1, <1>3, PoppedSeq
    <2>2. w[1].op \in PowerOps /\ 1 \in 1 .. Len(w)
        BY <1>3, <2>1
    <2>3. Len(w) = 1
        BY <1>1, <2>2 DEF Shape
    <2>4. w[1].op \in {"status", "check", "power", "record"}
        BY <2>2 DEF PowerOps
    <2>5. HeadSafe(Head(work[a]))'
        BY <2>1, <2>4 DEF HeadSafe
    <2>6. ResetSafe(work[a])' /\ ClearSafe(work[a])' /\ PauseSafe(work[a])'
        BY <2>3, <2>4 DEF ResetSafe, ClearSafe, PauseSafe, BuildOps
    <2> QED BY <2>5, <2>6 DEF SafeFor
<1> QED BY <1>2, <1>3 DEF Idle

(* The head task is replaced by another, which goes on with what it began.     *)
LEMMA SafeReplaced ==
    ASSUME WorkOK, WorkOK', NEW a \in Actors, SafeFor(a), work[a] # <<>>, NEW u \in GoodTasks,
           work'[a] = <<u>> \o Tail(work[a]), HeadSafe(u)',
           LET t == Head(work[a]) IN
           /\ t.op # "unpause" /\ u.op \notin {"reset", "clear", "pause"}
           /\ t.op \in DestroyOps => u.op \in DestroyOps /\ u.k = t.k
           /\ t.op \in QuietOps => u.op \in QuietOps /\ DOMAIN mem'.cells \subseteq DOMAIN mem.cells
           /\ u.op \in BuildOps => t.op \in BuildOps,
           mem'.paused = mem.paused
    PROVE  SafeFor(a)'
<1> DEFINE w == work[a]
           v == work'[a]
           t == Head(work[a])
<1>1. w \in Seq(GoodTasks)
    BY DEF WorkOK
<1>2. /\ Len(v) = Len(w) /\ v # <<>> /\ Head(v) = u /\ v[1] = u
      /\ \A i \in 2 .. Len(w) : v[i] = w[i]
    BY <1>1, ReplacedSeq
<1>3. Len(w) \in Nat /\ Len(w) >= 1 /\ t = w[1]
    BY <1>1, PoppedSeq
<1>4. ASSUME NEW i \in 1 .. Len(v), v[i].op = "reset"
      PROVE  \/ i = 2 /\ v[1].op \in DestroyOps /\ v[1].k = v[2].k
    <2>1. i \in 2 .. Len(w) /\ v[i] = w[i]
        BY <1>2, <1>3, <1>4
    <2>2. \/ i = 1 /\ NoVm(w[1].k)
          \/ i = 2 /\ w[1].op \in DestroyOps /\ w[1].k = w[2].k
          \/ i = 3 /\ w[1].op = "unpause" /\ w[2].op = "destroy" /\ w[2].k = w[3].k
        BY <1>4, <2>1 DEF SafeFor, ResetSafe
    <2>3. i = 2 /\ t.op \in DestroyOps /\ t.k = w[2].k
        BY <1>3, <2>1, <2>2
    <2> QED BY <1>2, <2>1, <2>3
<1>5. ResetSafe(work[a])'
    BY <1>4 DEF ResetSafe
<1>6. ASSUME NEW i \in 1 .. Len(v), v[i].op = "clear"
      PROVE  /\ \A j \in 1 .. i - 1 : v[j].op \in QuietOps
             /\ \A k \in DOMAIN mem'.cells :
                  \E j \in 1 .. i - 1 : v[j].op \in DestroyOps /\ v[j].k = k
    <2>1. i \in 2 .. Len(w) /\ v[i] = w[i]
        BY <1>2, <1>3, <1>6
    <2>2. /\ \A j \in 1 .. i - 1 : w[j].op \in QuietOps
          /\ \A k \in DOMAIN mem.cells :
               \E j \in 1 .. i - 1 : w[j].op \in DestroyOps /\ w[j].k = k
        BY <1>6, <2>1 DEF SafeFor, ClearSafe
    <2>3. t.op \in QuietOps
        BY <1>3, <2>1, <2>2
    <2>4. ASSUME NEW j \in 1 .. i - 1
          PROVE  \/ j = 1 /\ v[j] = u /\ w[j] = t
                 \/ v[j] = w[j]
        <3>1. CASE j = 1
            BY <1>2, <1>3, <3>1
        <3>2. CASE j # 1
            <4>1. j \in 2 .. Len(w)
                BY <1>3, <2>1, <3>2
            <4> QED BY <1>2, <4>1
        <3> QED BY <3>1, <3>2
    <2>5. \A j \in 1 .. i - 1 : v[j].op \in QuietOps
        BY <2>2, <2>3, <2>4
    <2>6. ASSUME NEW k \in DOMAIN mem'.cells
          PROVE  \E j \in 1 .. i - 1 : v[j].op \in DestroyOps /\ v[j].k = k
        <3>1. PICK j \in 1 .. i - 1 : w[j].op \in DestroyOps /\ w[j].k = k
            BY <2>2, <2>3
        <3>2. v[j].op \in DestroyOps /\ v[j].k = k
            BY <2>4, <3>1
        <3> QED BY <3>2
    <2> QED BY <2>5, <2>6
<1>7. ClearSafe(work[a])'
    BY <1>6 DEF ClearSafe
<1>8. ASSUME NEW i \in 1 .. Len(v), v[i].op \in BuildOps
      PROVE  ~mem'.paused /\ \A j \in 1 .. Len(v) : v[j].op # "pause"
    <2>1. w[i].op \in BuildOps /\ i \in 1 .. Len(w)
        BY <1>2, <1>3, <1>8
    <2>2. (~mem.paused \/ w[1].op = "unpause") /\ \A j \in 1 .. Len(w) : w[j].op # "pause"
        BY <2>1 DEF SafeFor, PauseSafe
    <2> QED BY <1>2, <1>3, <2>2
<1>9. PauseSafe(work[a])'
    BY <1>8 DEF PauseSafe
<1>10. HeadSafe(Head(work[a]))'
    BY <1>2
<1> QED BY <1>5, <1>7, <1>9, <1>10 DEF SafeFor

LEMMA StartSafe ==
    ASSUME NEW u, u.op \in StartOps
    PROVE  HeadSafe(u)'
BY DEF StartOps, HeadSafe

(* The head task is done.                                                     *)
LEMMA SafePopped ==
    ASSUME WorkOK, WorkOK', NEW a \in Actors, SafeFor(a), work[a] # <<>>,
           work'[a] = Tail(work[a]),
           LET t == Head(work[a]) IN
           /\ t.op \in DestroyOps => /\ Names(t.k) \cap Alive' = {}
                                   /\ t.k \notin DOMAIN mem'.cells
           /\ t.op \in QuietOps => DOMAIN mem'.cells \subseteq DOMAIN mem.cells
           /\ t.op = "unpause" => ~mem'.paused
           /\ t.op # "pause" => mem'.paused = mem.paused \/ ~mem'.paused
    PROVE  SafeFor(a)'
<1> DEFINE w == work[a]
           v == work'[a]
           t == Head(work[a])
<1>1. w \in Seq(GoodTasks) /\ Shape(w)
    BY DEF WorkOK
<1>2. /\ Len(v) = Len(w) - 1 /\ Len(w) \in Nat /\ t = w[1] /\ Len(w) >= 1
      /\ \A i \in 1 .. Len(v) : v[i] = w[i + 1]
      /\ v # <<>> => Head(v) = w[2] /\ Len(w) >= 2
    BY <1>1, PoppedSeq
<1>3. ASSUME NEW i \in 1 .. Len(v), v[i].op = "reset"
      PROVE  \/ i = 1 /\ Names(v[1].k) \cap Alive' = {}
             \/ i = 2 /\ v[1].op \in DestroyOps /\ v[1].k = v[2].k
    <2>1. i + 1 \in 2 .. Len(w) /\ v[i] = w[i + 1] /\ i \in Nat /\ i >= 1
        BY <1>2
    <2>2. \/ i + 1 = 1 /\ NoVm(w[1].k)
          \/ i + 1 = 2 /\ w[1].op \in DestroyOps /\ w[1].k = w[2].k
          \/ i + 1 = 3 /\ w[1].op = "unpause" /\ w[2].op = "destroy" /\ w[2].k = w[3].k
        BY <1>2, <1>3, <2>1 DEF SafeFor, ResetSafe
    <2>3. CASE i = 1
        <3>1. t.op \in DestroyOps /\ t.k = w[2].k /\ v[1] = w[2]
            BY <1>2, <2>1, <2>2, <2>3
        <3> QED BY <2>3, <3>1
    <2>4. CASE i = 2
        <3>1. w[2].op = "destroy" /\ w[2].k = w[3].k /\ v[1] = w[2] /\ v[2] = w[3]
            BY <1>2, <2>1, <2>2, <2>4
        <3> QED BY <2>4, <3>1 DEF DestroyOps
    <2> QED BY <2>1, <2>2, <2>3, <2>4
<1>4. ResetSafe(work[a])'
    BY <1>3 DEF ResetSafe, NoVm, Names
<1>5. ASSUME NEW i \in 1 .. Len(v), v[i].op = "clear"
      PROVE  /\ \A j \in 1 .. i - 1 : v[j].op \in QuietOps
             /\ \A k \in DOMAIN mem'.cells :
                  \E j \in 1 .. i - 1 : v[j].op \in DestroyOps /\ v[j].k = k
    <2>1. i + 1 \in 2 .. Len(w) /\ v[i] = w[i + 1] /\ i \in Nat /\ i >= 1
        BY <1>2
    <2>2. /\ \A j \in 1 .. i : w[j].op \in QuietOps
          /\ \A k \in DOMAIN mem.cells :
               \E j \in 1 .. i : w[j].op \in DestroyOps /\ w[j].k = k
        <3>1. i + 1 \in 1 .. Len(w) /\ w[i + 1].op = "clear" /\ (i + 1) - 1 = i
            BY <1>5, <2>1
        <3> QED BY <3>1 DEF SafeFor, ClearSafe
    <2>3. t.op \in QuietOps
        BY <1>2, <2>1, <2>2
    <2>4. \A j \in 1 .. i - 1 : v[j] = w[j + 1] /\ j + 1 \in 1 .. i
        BY <1>2, <2>1
    <2>5. \A j \in 1 .. i - 1 : v[j].op \in QuietOps
        BY <2>2, <2>4
    <2>6. ASSUME NEW k \in DOMAIN mem'.cells
          PROVE  \E j \in 1 .. i - 1 : v[j].op \in DestroyOps /\ v[j].k = k
        <3>1. k \in DOMAIN mem.cells
            BY <2>3
        <3>2. PICK j \in 1 .. i : w[j].op \in DestroyOps /\ w[j].k = k
            BY <2>2, <3>1
        <3>3. j # 1
            BY <1>2, <3>2
        <3>4. j - 1 \in 1 .. i - 1 /\ (j - 1) + 1 = j
            BY <2>1, <3>3
        <3>5. v[j - 1] = w[j]
            BY <2>4, <3>4
        <3> QED BY <3>2, <3>4, <3>5
    <2> QED BY <2>5, <2>6
<1>6. ClearSafe(work[a])'
    BY <1>5 DEF ClearSafe
<1>7. ASSUME NEW i \in 1 .. Len(v), v[i].op \in BuildOps
      PROVE  ~mem'.paused /\ \A j \in 1 .. Len(v) : v[j].op # "pause"
    <2>1. i + 1 \in 1 .. Len(w) /\ v[i] = w[i + 1]
        BY <1>2
    <2>2. (~mem.paused \/ w[1].op = "unpause") /\ \A j \in 1 .. Len(w) : w[j].op # "pause"
        BY <1>7, <2>1 DEF SafeFor, PauseSafe
    <2>3. ~mem'.paused
        BY <1>2, <2>2
    <2> QED BY <1>2, <2>2, <2>3
<1>8. PauseSafe(work[a])'
    BY <1>7 DEF PauseSafe
<1>9. ASSUME v # <<>>
      PROVE  HeadSafe(Head(work[a]))'
    <2>1. Head(v) = w[2] /\ w[2].op \in StartOps
        BY <1>1, <1>2, <1>9 DEF Shape
    <2> QED BY <2>1, StartSafe
<1> QED BY <1>4, <1>6, <1>8, <1>9 DEF SafeFor

(* Tasks none of which resets, clears or pauses.                              *)
LEMMA SafePlain ==
    ASSUME WorkOK', NEW a \in Actors,
           \A i \in 1 .. Len(work'[a]) :
             /\ work'[a][i].op \in StartOps \ {"reset", "clear", "pause"}
             /\ work'[a][i].op \in BuildOps => ~mem'.paused
    PROVE  SafeFor(a)'
<1>1. ResetSafe(work[a])' /\ ClearSafe(work[a])' /\ PauseSafe(work[a])'
    BY DEF ResetSafe, ClearSafe, PauseSafe
<1>2. ASSUME work'[a] # <<>>
      PROVE  HeadSafe(Head(work[a]))'
    <2>1. work'[a] \in Seq(GoodTasks)
        BY DEF WorkOK
    <2>2. Head(work'[a]).op \in StartOps
        BY <1>2, <2>1, PoppedSeq
    <2> QED BY <2>2, StartSafe
<1> QED BY <1>1, <1>2 DEF SafeFor

-----------------------------------------------------------------------------
(* Steps in general. *)

(* While no reprovision has overlapped, only the actor that takes a step has   *)
(* tasks about which anything must be known.                                  *)
LEMMA StepSafe ==
    ASSUME WorkOK, WorkOK', ~raced, Safe, NEW a \in Actors, work[a] # <<>>,
           Head(work[a]).op \notin PowerOps,
           \A b \in Actors \ {a} : work'[b] = work[b],
           AliveTracked', CapKept', SafeFor(a)'
    PROVE  Safe'
<1>1. CASE a = "op"
    <2>1. work'["chaos"] = work["chaos"] /\ Idle("chaos")
        BY <1>1 DEF Safe, Reprovisioning, Idle, Actors
    <2>2. Idle("chaos")' /\ ~Reprovisioning'
        BY <2>1 DEF Idle, Reprovisioning
    <2>3. SafeFor("chaos")'
        BY <2>2, IdleSafe DEF Actors
    <2> QED BY <1>1, <2>2, <2>3 DEF Safe, Actors
<1>2. CASE a = "chaos"
    <2>1. work'["op"] = work["op"] /\ work["op"] = <<>>
        BY <1>2 DEF Safe, Reprovisioning, Actors
    <2>2. Idle("op")'
        BY <2>1 DEF Idle
    <2>3. SafeFor("op")'
        BY <2>2, IdleSafe DEF Actors
    <2> QED BY <1>2, <2>1, <2>3 DEF Safe, Actors
<1> QED BY <1>1, <1>2 DEF Actors

(* Tasks of one family follow each other.                                     *)
Family(x, y) ==
    \E F \in {BuildOps, DestroyOps, DropOps, SweepOps, GcOps} : x \in F /\ y \in F

LEMMA FamilyRelated ==
    ASSUME NEW x, NEW y, Family(x, y)
    PROVE  /\ x # "unpause" /\ x \notin PowerOps /\ y \notin PowerOps
           /\ y \notin {"reset", "clear", "pause", "stale", "reconcile"}
           /\ x \in DestroyOps => y \in DestroyOps
           /\ x \in QuietOps => y \in QuietOps
           /\ y \in BuildOps => x \in BuildOps
           /\ y \in GcOps \cup PowerOps => x \in GcOps \cup PowerOps
<1>1. CASE x \in BuildOps /\ y \in BuildOps
    BY <1>1 DEF BuildOps, DestroyOps, QuietOps, SweepOps, GcOps, PowerOps
<1>2. CASE x \in DestroyOps /\ y \in DestroyOps
    BY <1>2 DEF BuildOps, DestroyOps, QuietOps, GcOps, PowerOps
<1>3. CASE x \in DropOps /\ y \in DropOps
    BY <1>3 DEF BuildOps, DropOps, DestroyOps, QuietOps, SweepOps, GcOps, PowerOps
<1>4. CASE x \in SweepOps /\ y \in SweepOps
    BY <1>4 DEF BuildOps, DestroyOps, QuietOps, SweepOps, GcOps, PowerOps
<1>5. CASE x \in GcOps /\ y \in GcOps
    BY <1>5 DEF BuildOps, DestroyOps, QuietOps, SweepOps, GcOps, PowerOps
<1> QED BY <1>1, <1>2, <1>3, <1>4, <1>5 DEF Family

LEMMA StepReplaced ==
    ASSUME IInv, NEW a \in Actors, work[a] # <<>>, NEW u \in GoodTasks, Then(a, u),
           Family(Head(work[a]).op, u.op), u.k = Head(work[a]).k,
           StateOK', IncusOK', OthersOK', LeftOK', raced' = raced, mem'.paused = mem.paused,
           ~raced /\ Safe =>
             /\ AliveTracked' /\ CapKept' /\ HeadSafe(u)'
             /\ Head(work[a]).op \in QuietOps => DOMAIN mem'.cells \subseteq DOMAIN mem.cells
    PROVE  IInv'
<1>1. WorkOK
    BY DEF IInv
<1>2. /\ WorkOK' /\ work'[a] = <<u>> \o Tail(work[a])
      /\ \A b \in Actors \ {a} : work'[b] = work[b]
    BY <1>1, FamilyRelated, WorkReplaced
<1>3. ASSUME ~raced
      PROVE  Safe'
    <2>1. Safe /\ SafeFor(a)
        BY <1>3 DEF IInv, Safe
    <2>2. SafeFor(a)'
        BY <1>1, <1>2, <1>3, <2>1, FamilyRelated, SafeReplaced
    <2>3. Head(work[a]).op \notin PowerOps
        BY FamilyRelated
    <2> QED BY <1>1, <1>2, <1>3, <2>1, <2>2, <2>3, StepSafe
<1> QED BY <1>2, <1>3, Parts DEF PartsOK

LEMMA StepPopped ==
    ASSUME IInv, NEW a \in Actors, work[a] # <<>>, Pop(a), Head(work[a]).op \notin PowerOps,
           StateOK', IncusOK', OthersOK', LeftOK', raced' = raced,
           ~raced /\ Safe =>
             /\ AliveTracked' /\ CapKept'
             /\ LET t == Head(work[a]) IN
                /\ t.op \in DestroyOps => /\ Names(t.k) \cap Alive' = {}
                                          /\ t.k \notin DOMAIN mem'.cells
                /\ t.op \in QuietOps => DOMAIN mem'.cells \subseteq DOMAIN mem.cells
                /\ t.op = "unpause" => ~mem'.paused
                /\ t.op # "pause" => mem'.paused = mem.paused \/ ~mem'.paused
    PROVE  IInv'
<1>1. WorkOK
    BY DEF IInv
<1>2. /\ WorkOK' /\ work'[a] = Tail(work[a])
      /\ \A b \in Actors \ {a} : work'[b] = work[b]
    BY <1>1, WorkPopped
<1>3. ASSUME ~raced
      PROVE  Safe'
    <2>1. Safe /\ SafeFor(a)
        BY <1>3 DEF IInv, Safe
    <2>2. SafeFor(a)'
        BY <1>1, <1>2, <1>3, <2>1, SafePopped
    <2> QED BY <1>1, <1>2, <1>3, <2>1, <2>2, StepSafe
<1> QED BY <1>2, <1>3, Parts DEF PartsOK

(* The cells of the state stay where they are, and no VM appears.             *)
SameCells ==
    /\ DOMAIN mem'.cells = DOMAIN mem.cells
    /\ \A k \in DOMAIN mem.cells : mem'.cells[k].st = mem.cells[k].st
    /\ mem'.paused = mem.paused
    /\ disk' \in {disk, mem'}

LEMMA SameCellsSafe ==
    ASSUME StateOK, StateOK', ~raced, AliveTracked, CapKept, SameCells,
           Alive' \subseteq Alive
    PROVE  AliveTracked' /\ CapKept' /\ Launching' = Launching
<1>1. AliveTracked'
    BY TrackedKept DEF SameCells, Instances
<1>2. Launching' = Launching
    BY DEF SameCells, Launching
<1>3. DiskLaunching' \subseteq DiskLaunching
    <2>1. CASE disk' = disk
        BY <2>1 DEF DiskLaunching
    <2>2. CASE disk' = mem'
        BY <1>2, <2>2, LaunchingFinite DEF DiskLaunching, Launching
    <2> QED BY <2>1, <2>2 DEF SameCells
<1> QED BY <1>1, <1>2, <1>3, BudgetKept

LEMMA SameStateSafe ==
    ASSUME StateOK, StateOK', ~raced, AliveTracked, CapKept, UNCHANGED state,
           Alive' \subseteq Alive
    PROVE  AliveTracked' /\ CapKept' /\ Launching' = Launching
<1>1. SameCells
    BY DEF SameCells, state
<1> QED BY <1>1, SameCellsSafe

(* A step of no actor: the tasks stay.                                        *)
LEMMA FrameSafe ==
    ASSUME StateOK, StateOK', WorkOK', ~raced, Safe, SameCells, Alive' \subseteq Alive,
           UNCHANGED work
    PROVE  Safe'
<1>1. AliveTracked' /\ CapKept' /\ Launching' = Launching
    BY SameCellsSafe DEF Safe
<1>2. ASSUME NEW t
      PROVE  HeadSafe(t) => HeadSafe(t)'
    BY <1>1 DEF HeadSafe, NoVm, Names, LaunchQueueFull
<1>3. ASSUME NEW a \in Actors
      PROVE  SafeFor(a)'
    <2>1. SafeFor(a) /\ work'[a] = work[a]
        BY DEF Safe
    <2>2. \A k : NoVm(k) => Names(k) \cap Alive' = {}
        BY DEF NoVm
    <2>3. ResetSafe(work[a])'
        BY <2>1, <2>2 DEF SafeFor, ResetSafe, NoVm, Names
    <2>4. ClearSafe(work[a])' /\ PauseSafe(work[a])'
        BY <2>1 DEF SafeFor, ClearSafe, PauseSafe, SameCells
    <2>5. work'[a] # <<>> => HeadSafe(Head(work[a]))'
        BY <1>2, <2>1 DEF SafeFor
    <2> QED BY <2>3, <2>4, <2>5 DEF SafeFor
<1> QED BY <1>1, <1>3 DEF Safe, Reprovisioning

LEMMA HeadKept ==
    ASSUME NEW t, HeadSafe(t), Launching' = Launching, Alive' \subseteq Alive
    PROVE  HeadSafe(t)'
BY DEF HeadSafe, NoVm, Names, LaunchQueueFull

(* What is known when actor a takes its next task.                            *)
LEMMA Knows ==
    ASSUME IInv, NEW a \in Actors
    PROVE  /\ StateOK /\ IncusOK /\ OthersOK /\ MgmtOK /\ ReportsOK /\ LeftOK /\ WorkOK
           /\ ~raced => Safe /\ AliveTracked /\ CapKept /\ SafeFor(a)
           /\ work[a] # <<>> => /\ Head(work[a]) \in GoodTasks
                                /\ ~raced => HeadSafe(Head(work[a]))
<1>1. PartsOK /\ (raced \/ Safe)
    BY Parts
<1>2. work[a] # <<>> => Head(work[a]) \in GoodTasks
    BY <1>1, PoppedSeq DEF PartsOK, WorkOK
<1> QED BY <1>1, <1>2 DEF PartsOK, OthersOK, Safe, SafeFor

(* Steps that leave the runner's state alone.                                 *)
LEMMA SameReplaced ==
    ASSUME IInv, NEW a \in Actors, work[a] # <<>>, NEW u \in GoodTasks, Then(a, u),
           Family(Head(work[a]).op, u.op), u.k = Head(work[a]).k,
           UNCHANGED state, IncusOK', OthersOK', LeftOK', raced' = raced,
           Alive' \subseteq Alive, ~raced /\ Safe => HeadSafe(u) \/ HeadSafe(u)'
    PROVE  IInv'
<1>1. StateOK /\ StateOK' /\ mem' = mem
    BY Knows, Kept DEF state
<1>2. ASSUME ~raced, Safe
      PROVE  AliveTracked' /\ CapKept' /\ HeadSafe(u)'
    <2>1. AliveTracked' /\ CapKept' /\ Launching' = Launching
        BY <1>1, <1>2, SameStateSafe DEF Safe
    <2> QED BY <1>2, <2>1, HeadKept
<1> QED BY <1>1, <1>2, StepReplaced

LEMMA SamePopped ==
    ASSUME IInv, NEW a \in Actors, work[a] # <<>>, Pop(a),
           Head(work[a]).op \notin PowerOps \cup {"unpause"},
           Head(work[a]).op \in DestroyOps => Head(work[a]).k \notin DOMAIN mem.cells,
           UNCHANGED state, IncusOK', OthersOK', LeftOK', raced' = raced,
           Alive' \subseteq Alive
    PROVE  IInv'
<1>1. StateOK /\ StateOK' /\ mem' = mem
    BY Knows, Kept DEF state
<1>2. ASSUME ~raced, Safe
      PROVE  /\ AliveTracked' /\ CapKept'
             /\ Head(work[a]).op \in DestroyOps => Names(Head(work[a]).k) \cap Alive' = {}
    <2>1. AliveTracked' /\ CapKept'
        BY <1>1, <1>2, SameStateSafe DEF Safe
    <2>2. Head(work[a]).op \in DestroyOps => NoVm(Head(work[a]).k)
        BY <1>2, NoVmUntracked DEF Safe
    <2> QED BY <2>1, <2>2 DEF NoVm
<1> QED BY <1>1, <1>2, StepPopped

-----------------------------------------------------------------------------
(* drive_cell. *)

LEMMA FindOK ==
    ASSUME StateOK, NEW k \in Cells
    PROVE  /\ Find(k) \in Stages
           /\ Find(k).st = "launching" => Find(k).launch \in Launches
           /\ AliveTracked /\ Find(k).st \notin {"launching", "running"} => NoVm(k)
           /\ AliveTracked => Names(k) \cap Alive \subseteq Instances(k, Find(k))
<1>1. CASE k \in DOMAIN mem.cells
    <2>1. Find(k) = mem.cells[k]
        BY <1>1 DEF Find
    <2> QED BY <1>1, <2>1, MemLaunches, NoVmUntracked
<1>2. CASE k \notin DOMAIN mem.cells
    <2>1. Find(k) = Pending
        BY <1>2 DEF Find
    <2>2. Pending \in Stages /\ Pending.st = "pending"
        BY DEF Pending, Stage, Stages
    <2>3. AliveTracked => NoVm(k)
        BY <1>2, NoVmUntracked
    <2> QED BY <2>1, <2>2, <2>3 DEF NoVm
<1> QED BY <1>1, <1>2

LEMMA AtHead ==
    ASSUME NEW a, NEW op, At(a, op)
    PROVE  work[a] # <<>> /\ Head(work[a]).op = op
BY DEF At

LEMMA DriveKeeps ==
    ASSUME IInv, NEW a \in Actors, Drive(a)
    PROVE  IInv'
<1>0. PICK t : t = Head(work[a])
    OBVIOUS
<1>1. work[a] # <<>> /\ t.op = "drive" /\ t \in GoodTasks /\ t.k \in Cells
    BY <1>0, Knows, AtHead DEF Drive, GoodTasks, CellOps, BuildOps
<1>2. UNCHANGED <<state, mgmt, incus, reports, process, left>>
    BY DEF Drive
<1>3. IncusOK' /\ OthersOK' /\ LeftOK' /\ Alive' = Alive /\ UNCHANGED state /\ raced' = raced
    BY <1>2, Knows, Kept DEF process
<1>4. PICK f : f = Find(t.k)
    OBVIOUS
<1>5. f \in Stages
    BY <1>1, <1>4, Knows, FindOK
<1>6. CASE Pop(a)
    BY <1>0, <1>1, <1>3, <1>6, SamePopped DEF PowerOps, DestroyOps
<1>7. ASSUME NEW op \in {"list_stray", "put_config", "clean", "poll"}, NEW S,
             S \subseteq AllNames, ~raced /\ Safe => HeadSafe([t EXCEPT !.op = op]),
             Then(a, [t EXCEPT !.op = op, !.cid = f.cid, !.launch = f.launch, !.todo = S])
      PROVE  IInv'
    <2>1. PICK u : u = [t EXCEPT !.op = op, !.cid = f.cid, !.launch = f.launch, !.todo = S]
        OBVIOUS
    <2>2. u \in GoodTasks /\ u.op = op /\ u.k = t.k
        <3>1. op \in CellOps /\ op \in BuildOps
            BY DEF CellOps, BuildOps
        <3>2. S \subseteq Things /\ f.cid \in Cids \cup {None} /\ f.launch \in Launches \cup {None}
            BY <1>5, <1>7 DEF Things, Stages
        <3> QED BY <1>1, <2>1, <1>7, <3>1, <3>2 DEF GoodTasks
    <2>3. Family(t.op, u.op)
        BY <1>1, <2>2 DEF Family, BuildOps
    <2>4. ~raced /\ Safe => HeadSafe(u)
        <3>1. [t EXCEPT !.op = op].op = op /\ [t EXCEPT !.op = op].k = t.k
            BY <1>1 DEF GoodTasks
        <3> QED BY <1>7, <2>2, <3>1 DEF HeadSafe
    <2> QED BY <1>0, <1>1, <1>3, <1>7, <2>1, <2>2, <2>3, <2>4, SameReplaced
<1>8. CASE Then(a, [t EXCEPT !.n = @ - 1])
    <2>1. PICK u : u = [t EXCEPT !.n = @ - 1]
        OBVIOUS
    <2>2. u \in GoodTasks /\ u.op = "drive" /\ u.k = t.k
        BY <1>1, <2>1 DEF GoodTasks
    <2>3. Family(t.op, u.op) /\ HeadSafe(u)
        BY <1>1, <2>2 DEF Family, BuildOps, HeadSafe
    <2> QED BY <1>0, <1>1, <1>3, <1>8, <2>1, <2>2, <2>3, SameReplaced
<1>9. ASSUME NEW op \in {"list_stray", "put_config", "clean", "poll"}
      PROVE  [t EXCEPT !.op = op].op = op /\ [t EXCEPT !.op = op].k = t.k
    BY <1>1 DEF GoodTasks
<1>10. CASE /\ f.st = "pending"
            /\ Then(a, [t EXCEPT !.op = "list_stray", !.cid = f.cid, !.launch = f.launch, !.todo = {}])
    <2>1. ~raced /\ Safe => NoVm(t.k)
        BY <1>1, <1>4, <1>10, Knows, FindOK
    <2>2. ~raced /\ Safe => HeadSafe([t EXCEPT !.op = "list_stray"])
        BY <1>9, <2>1 DEF HeadSafe
    <2>3. PICK S : S = {}
        OBVIOUS
    <2>4. Then(a, [t EXCEPT !.op = "list_stray", !.cid = f.cid, !.launch = f.launch, !.todo = S])
        BY <1>10, <2>3
    <2>5. S \subseteq AllNames
        BY <2>3
    <2> QED BY <1>7, <2>2, <2>4, <2>5
<1>11. CASE /\ f.st = "cluster_created"
            /\ Then(a, [t EXCEPT !.op = "put_config", !.cid = f.cid, !.launch = f.launch, !.todo = {}])
    <2>1. ~raced /\ Safe => NoVm(t.k)
        BY <1>1, <1>4, <1>11, Knows, FindOK
    <2>2. ~raced /\ Safe => HeadSafe([t EXCEPT !.op = "put_config"])
        BY <1>9, <2>1 DEF HeadSafe
    <2>3. PICK S : S = {}
        OBVIOUS
    <2>4. Then(a, [t EXCEPT !.op = "put_config", !.cid = f.cid, !.launch = f.launch, !.todo = S])
        BY <1>11, <2>3
    <2>5. S \subseteq AllNames
        BY <2>3
    <2> QED BY <1>7, <2>2, <2>4, <2>5
<1>12. CASE /\ ~LaunchQueueFull
            /\ Then(a, [t EXCEPT !.op = "clean", !.cid = f.cid, !.launch = f.launch,
                                 !.todo = Names(t.k)])
    <2>1. HeadSafe([t EXCEPT !.op = "clean"])
        BY <1>9, <1>12 DEF HeadSafe
    <2>2. Names(t.k) \subseteq AllNames
        BY <1>1, NamesApart
    <2> QED BY <1>7, <1>12, <2>1, <2>2
<1>13. CASE Then(a, [t EXCEPT !.op = "poll", !.cid = f.cid, !.launch = f.launch, !.todo = f.off])
    <2>1. HeadSafe([t EXCEPT !.op = "poll"])
        BY <1>9 DEF HeadSafe
    <2>2. f.off \subseteq AllNames
        BY <1>5 DEF Stages
    <2> QED BY <1>7, <1>13, <2>1, <2>2
<1> QED BY <1>0, <1>4, <1>6, <1>8, <1>10, <1>11, <1>12, <1>13 DEF Drive

(* The task of building a cell that goes on: its op and its cluster change.    *)
BareOps ==
    {"drive", "list_stray", "wipe_vm", "wipe_cluster", "create_cluster", "created",
     "put_config", "pushed"}

LEMMA BareTask ==
    ASSUME NEW t \in GoodTasks, NEW u, NEW op \in BareOps, t.op \in BuildOps,
           \/ u = [t EXCEPT !.op = op]
           \/ \E c \in Cids : u = [t EXCEPT !.op = op, !.cid = c]
    PROVE  /\ u \in GoodTasks /\ u.op = op /\ u.k = t.k /\ Family(t.op, u.op)
           /\ NoVm(t.k) => HeadSafe(u)
<1>1. op \in BuildOps /\ op \in CellOps /\ t.op \in CellOps
    BY DEF BuildOps, CellOps, BareOps
<1>2. op \notin {"poll", "up", "launch", "sweep_next", "sweep_cluster"}
    BY DEF BareOps
<1>3. u \in GoodTasks /\ u.op = op /\ u.k = t.k
    <2>1. CASE u = [t EXCEPT !.op = op]
        BY <1>1, <1>2, <2>1 DEF GoodTasks
    <2>2. CASE \E c \in Cids : u = [t EXCEPT !.op = op, !.cid = c]
        BY <1>1, <1>2, <2>2 DEF GoodTasks
    <2> QED BY <2>1, <2>2
<1>4. Family(t.op, u.op)
    BY <1>1, <1>3 DEF Family
<1>5. NoVm(t.k) => HeadSafe(u)
    BY <1>3 DEF HeadSafe, BareOps
<1> QED BY <1>3, <1>4, <1>5

LEMMA NoVmHead ==
    ASSUME IInv, NEW a \in Actors, work[a] # <<>>,
           Head(work[a]).op \in {"list_stray", "wipe_vm", "wipe_cluster", "create_cluster",
             "created", "put_config", "pushed", "destroy_cluster", "forget", "drop_cell"}
    PROVE  ~raced => NoVm(Head(work[a]).k)
BY Knows DEF HeadSafe

LEMMA ListStrayKeeps ==
    ASSUME IInv, NEW a \in Actors, ListStray(a)
    PROVE  IInv'
<1>0. PICK t : t = Head(work[a])
    OBVIOUS
<1>1. /\ work[a] # <<>> /\ t.op = "list_stray" /\ t \in GoodTasks /\ t.op \in BuildOps
      /\ ~raced => NoVm(t.k)
    BY <1>0, Knows, AtHead, NoVmHead DEF ListStray, BuildOps
<1>2. PICK ok \in BOOLEAN, S \in SUBSET DOMAIN clusters :
        /\ Answers(ok)
        /\ \/ S = {} /\ Then(a, [t EXCEPT !.op = "create_cluster"])
           \/ \E c \in S : Then(a, [t EXCEPT !.op = "wipe_vm", !.cid = c])
    BY <1>0 DEF ListStray
<1>3. UNCHANGED <<state, mgmt, incus, reports, process>>
    BY DEF ListStray
<1>4. /\ IncusOK' /\ OthersOK' /\ LeftOK' /\ Alive' = Alive /\ UNCHANGED state /\ raced' = raced
      /\ DOMAIN clusters \subseteq Cids
    BY <1>2, <1>3, Knows, Kept, AnswersLeft DEF process, MgmtOK
<1>5. PICK u : /\ Then(a, u)
               /\ \/ u = [t EXCEPT !.op = "create_cluster"]
                  \/ \E c \in Cids : u = [t EXCEPT !.op = "wipe_vm", !.cid = c]
    BY <1>2, <1>4
<1>6. /\ u \in GoodTasks /\ u.k = t.k /\ Family(t.op, u.op)
      /\ NoVm(t.k) => HeadSafe(u)
    BY <1>1, <1>5, BareTask DEF BareOps
<1> QED BY <1>0, <1>1, <1>4, <1>5, <1>6, SameReplaced

LEMMA WipeVmKeeps ==
    ASSUME IInv, NEW a \in Actors, WipeVm(a)
    PROVE  IInv'
<1>0. PICK t : t = Head(work[a])
    OBVIOUS
<1>1. /\ work[a] # <<>> /\ t.op = "wipe_vm" /\ t \in GoodTasks /\ t.op \in BuildOps
      /\ ~raced => NoVm(t.k)
    BY <1>0, Knows, AtHead, NoVmHead DEF WipeVm, BuildOps
<1>2. PICK ok \in BOOLEAN : DeleteVm(BaseName(Head(work[a]).k), ok)
    BY DEF WipeVm
<1>3. IncusOK' /\ LeftOK' /\ Alive' \subseteq Alive
    BY <1>2, Knows, DeletedVm
<1>4. OthersOK' /\ UNCHANGED state /\ raced' = raced
    BY Knows, Kept DEF process, WipeVm
<1>5. PICK u : u = [t EXCEPT !.op = "wipe_cluster"]
    OBVIOUS
<1>6. Then(a, u)
    BY <1>0, <1>5 DEF WipeVm
<1>7. /\ u \in GoodTasks /\ u.k = t.k /\ Family(t.op, u.op)
      /\ NoVm(t.k) => HeadSafe(u)
    BY <1>1, <1>5, BareTask DEF BareOps
<1> QED BY <1>0, <1>1, <1>3, <1>4, <1>6, <1>7, SameReplaced

LEMMA WipeClusterKeeps ==
    ASSUME IInv, NEW a \in Actors, WipeCluster(a)
    PROVE  IInv'
<1>0. PICK t : t = Head(work[a])
    OBVIOUS
<1>1. /\ work[a] # <<>> /\ t.op = "wipe_cluster" /\ t \in GoodTasks /\ t.op \in BuildOps
      /\ ~raced => NoVm(t.k)
    BY <1>0, Knows, AtHead, NoVmHead DEF WipeCluster, BuildOps
<1>2. PICK ok \in BOOLEAN : DeleteCluster(Head(work[a]).cid, ok)
    BY DEF WipeCluster
<1>3. MgmtOK' /\ LeftOK'
    BY <1>2, Knows, DeletedCluster
<1>4. IncusOK' /\ Alive' = Alive /\ OthersOK' /\ UNCHANGED state /\ raced' = raced
    BY <1>3, Knows, Kept DEF process, WipeCluster, OthersOK, ReportsOK, reports
<1>5. PICK u : u = [t EXCEPT !.op = "create_cluster"]
    OBVIOUS
<1>6. Then(a, u)
    BY <1>0, <1>5 DEF WipeCluster
<1>7. /\ u \in GoodTasks /\ u.k = t.k /\ Family(t.op, u.op)
      /\ NoVm(t.k) => HeadSafe(u)
    BY <1>1, <1>5, BareTask DEF BareOps
<1> QED BY <1>0, <1>1, <1>3, <1>4, <1>6, <1>7, SameReplaced

LEMMA CreateClusterKeeps ==
    ASSUME IInv, NEW a \in Actors, CreateCluster(a)
    PROVE  IInv'
<1>0. PICK t : t = Head(work[a])
    OBVIOUS
<1>1. /\ work[a] # <<>> /\ t.op = "create_cluster" /\ t \in GoodTasks /\ t.op \in BuildOps
      /\ ~raced => NoVm(t.k)
    BY <1>0, Knows, AtHead, NoVmHead DEF CreateCluster, BuildOps
<1>2. UNCHANGED <<state, incus, reports, process, group>>
    BY DEF CreateCluster
<1>3. t.k \in Cells
    BY <1>1 DEF GoodTasks, CellOps
<1>4. t.op \notin PowerOps \cup {"unpause"} /\ t.op \notin DestroyOps
    BY <1>1 DEF PowerOps, DestroyOps
<1>5. CASE Pop(a) /\ UNCHANGED <<clusters, left>>
    <2>1. IncusOK' /\ OthersOK' /\ LeftOK' /\ Alive' = Alive /\ UNCHANGED state /\ raced' = raced
        BY <1>2, <1>5, Knows, Kept DEF process, mgmt
    <2> QED BY <1>0, <1>1, <1>4, <1>5, <2>1, SamePopped
<1>6. ASSUME NEW c \in Cids, NEW ok \in BOOLEAN, Answers(ok),
             clusters' = Upsert(clusters, c, t.k) \/ UNCHANGED clusters,
             IF ok THEN Then(a, [t EXCEPT !.op = "created", !.cid = c]) ELSE Pop(a)
      PROVE  IInv'
    <2>1. MgmtOK'
        <3>1. CASE UNCHANGED clusters
            BY <1>2, <3>1, Knows, Kept DEF mgmt
        <3>2. CASE clusters' = Upsert(clusters, c, t.k)
            <4>1. DOMAIN clusters' = DOMAIN clusters \cup {c} /\ clusters'[c] = t.k
                BY <3>2 DEF Upsert
            <4>2. \A x \in DOMAIN clusters : x # c => clusters'[x] = clusters[x]
                BY <3>2 DEF Upsert
            <4> QED BY <1>2, <1>3, <4>1, <4>2, Knows DEF MgmtOK
        <3> QED BY <1>6, <3>1, <3>2
    <2>2. IncusOK' /\ OthersOK' /\ LeftOK' /\ Alive' = Alive /\ UNCHANGED state /\ raced' = raced
        BY <1>2, <1>6, <2>1, Knows, Kept, AnswersLeft DEF process, OthersOK, ReportsOK, reports
    <2>3. CASE ok
        <3>1. PICK u : u = [t EXCEPT !.op = "created", !.cid = c]
            OBVIOUS
        <3>2. /\ u \in GoodTasks /\ u.k = t.k /\ Family(t.op, u.op)
              /\ NoVm(t.k) => HeadSafe(u)
            BY <1>1, <3>1, BareTask DEF BareOps
        <3> QED BY <1>0, <1>1, <1>6, <2>2, <2>3, <3>1, <3>2, SameReplaced
    <2>4. CASE ~ok
        BY <1>0, <1>1, <1>4, <1>6, <2>2, <2>4, SamePopped
    <2> QED BY <2>3, <2>4
<1>7. ASSUME ~(Cids \subseteq UsedCids)
      PROVE  (CHOOSE x \in Cids : x \notin UsedCids) \in Cids
    BY <1>7
<1> QED BY <1>0, <1>5, <1>6, <1>7 DEF CreateCluster

(* A transition is persisted and the cell is driven on.                       *)
LEMMA AgainTask ==
    ASSUME NEW t \in GoodTasks, t.op \in BuildOps
    PROVE  LET u == [DriveTask(t.k) EXCEPT !.n = t.n - 1] IN
           /\ u \in GoodTasks /\ u.op = "drive" /\ u.k = t.k /\ Family(t.op, u.op)
           /\ HeadSafe(u)'
<1>1. t.k \in Cells /\ t.n \in Int
    BY DEF GoodTasks, CellOps
<1>2. PICK u : u = [DriveTask(t.k) EXCEPT !.n = t.n - 1]
    OBVIOUS
<1>3. u \in GoodTasks /\ u.op = "drive" /\ u.k = t.k
    <2>1. t.n - 1 \in Int
        BY <1>1
    <2> QED BY <1>1, <1>2, <2>1, DriveTaskGood
<1>4. Family(t.op, u.op)
    BY <1>3 DEF Family, BuildOps
<1>5. HeadSafe(u)'
    BY <1>3, StartSafe DEF StartOps
<1> QED BY <1>2, <1>3, <1>4, <1>5

LEMMA StageTyped ==
    ASSUME NEW st \in {"pending", "cluster_created", "config_pushed", "launching", "running"},
           NEW c \in Cids \cup {None}, NEW l \in Launches \cup {None}, NEW off \in SUBSET AllNames
    PROVE  /\ Stage(st, c, l, off) \in Stages
           /\ Stage(st, c, l, off).st = st /\ Stage(st, c, l, off).launch = l
BY DEF Stage, Stages

(* Created, Pushed and the end of TimedOut: the cell has no VM.               *)
LEMMA PersistedAgain ==
    ASSUME IInv, NEW a \in Actors, work[a] # <<>>, Head(work[a]).op \in BuildOps,
           NEW s \in Stages, s.st \notin {"launching", "running"},
           Persist(Head(work[a]).k, s), Again(a, Head(work[a])),
           ~raced => NoVm(Head(work[a]).k),
           IncusOK', OthersOK', LeftOK', raced' = raced, Alive' \subseteq Alive
    PROVE  IInv'
<1>0. PICK t : t = Head(work[a])
    OBVIOUS
<1>1. t \in GoodTasks /\ t.op \in BuildOps /\ t.k \in Cells
    BY <1>0, Knows DEF GoodTasks, CellOps
<1>2. PICK u : u = [DriveTask(t.k) EXCEPT !.n = t.n - 1]
    OBVIOUS
<1>3. u \in GoodTasks /\ u.k = t.k /\ Family(t.op, u.op) /\ HeadSafe(u)'
    BY <1>1, <1>2, AgainTask
<1>4. Then(a, u)
    BY <1>0, <1>2 DEF Again
<1>5. StateOK' /\ mem'.paused = mem.paused
    BY <1>0, <1>1, Knows, Persisted
<1>6. ~raced => AliveTracked' /\ CapKept'
    BY <1>0, <1>1, Knows, PersistSafe
<1>7. t.op \notin QuietOps
    BY <1>1 DEF BuildOps, QuietOps, DestroyOps, SweepOps
<1> QED BY <1>0, <1>3, <1>4, <1>5, <1>6, <1>7, StepReplaced

LEMMA CreatedKeeps ==
    ASSUME IInv, NEW a \in Actors, Created(a)
    PROVE  IInv'
<1>0. PICK t : t = Head(work[a])
    OBVIOUS
<1>1. /\ work[a] # <<>> /\ t.op = "created" /\ t \in GoodTasks /\ t.op \in BuildOps
      /\ ~raced => NoVm(t.k)
    BY <1>0, Knows, AtHead, NoVmHead DEF Created, BuildOps
<1>2. PICK s : s = Stage("cluster_created", t.cid, None, {})
    OBVIOUS
<1>3. s \in Stages /\ s.st \notin {"launching", "running"} /\ Persist(t.k, s) /\ Again(a, t)
    <2>1. t.cid \in Cids \cup {None}
        BY <1>1 DEF GoodTasks
    <2>2. s \in Stages /\ s.st = "cluster_created"
        BY <1>2, <2>1, StageTyped
    <2> QED BY <1>0, <1>2, <2>2 DEF Created
<1>4. UNCHANGED <<incus, reports, matrix, clusters, raced>>
    BY DEF Created
<1>5. PICK found : found = IF group.id = None THEN NewGid ELSE group.id
    OBVIOUS
<1>6. PICK id : id = IF cached = None THEN found ELSE cached
    OBVIOUS
<1>7. PICK existing : existing = IF cached = None THEN [group EXCEPT !.id = found] ELSE group
    OBVIOUS
<1>8. PICK joined : joined = IF existing.id = id /\ t.cid \in DOMAIN clusters
                               THEN [existing EXCEPT !.members = @ \cup {t.cid}] ELSE existing
    OBVIOUS
<1>9. LeftOK' /\ MgmtOK'
    <2>1. \/ Answers(TRUE) /\ group' = joined /\ cached' = id
          \/ /\ Answers(FALSE)
             /\ \E p \in {<<group, cached>>, <<existing, cached>>, <<existing, id>>, <<joined, id>>} :
                  group' = p[1] /\ cached' = p[2]
        BY <1>0, <1>5, <1>6, <1>7, <1>8, ZenonT(40) DEF Created
    <2>2. LeftOK'
        BY <2>1, Knows, AnswersLeft
    <2>3. group' \in {group, existing, joined}
        <3>1. ASSUME NEW p \in {<<group, cached>>, <<existing, cached>>, <<existing, id>>, <<joined, id>>}
              PROVE  p[1] \in {group, existing, joined}
            OBVIOUS
        <3> QED BY <2>1, <3>1
    <2>4. DOMAIN existing = {"id", "members"} /\ existing.members \subseteq DOMAIN clusters
        BY <1>7, Knows DEF MgmtOK
    <2>5. DOMAIN joined = {"id", "members"} /\ joined.members \subseteq DOMAIN clusters
        BY <1>8, <2>4
    <2> QED BY <1>4, <2>2, <2>3, <2>4, <2>5, Knows DEF MgmtOK
<1>10. IncusOK' /\ OthersOK' /\ Alive' = Alive
    BY <1>4, <1>9, Knows, Kept DEF OthersOK, ReportsOK, reports
<1> QED BY <1>0, <1>1, <1>3, <1>4, <1>9, <1>10, PersistedAgain

LEMMA PutConfigKeeps ==
    ASSUME IInv, NEW a \in Actors, PutConfig(a)
    PROVE  IInv'
<1>0. PICK t : t = Head(work[a])
    OBVIOUS
<1>1. /\ work[a] # <<>> /\ t.op = "put_config" /\ t \in GoodTasks /\ t.op \in BuildOps
      /\ ~raced => NoVm(t.k)
    BY <1>0, Knows, AtHead, NoVmHead DEF PutConfig, BuildOps
<1>2. PICK ok \in BOOLEAN :
        Answers(ok) /\ (Then(a, [t EXCEPT !.op = "pushed"]) \/ Pop(a))
    BY <1>0 DEF PutConfig
<1>3. IncusOK' /\ OthersOK' /\ LeftOK' /\ Alive' = Alive /\ UNCHANGED state /\ raced' = raced
    BY <1>2, Knows, Kept, AnswersLeft DEF process, PutConfig
<1>4. CASE Then(a, [t EXCEPT !.op = "pushed"])
    <2>1. PICK u : u = [t EXCEPT !.op = "pushed"]
        OBVIOUS
    <2>2. /\ u \in GoodTasks /\ u.k = t.k /\ Family(t.op, u.op)
          /\ NoVm(t.k) => HeadSafe(u)
        BY <1>1, <2>1, BareTask DEF BareOps
    <2> QED BY <1>0, <1>1, <1>3, <1>4, <2>1, <2>2, SameReplaced
<1>5. CASE Pop(a)
    BY <1>0, <1>1, <1>3, <1>5, SamePopped DEF PowerOps, DestroyOps
<1> QED BY <1>2, <1>4, <1>5

LEMMA PushedKeeps ==
    ASSUME IInv, NEW a \in Actors, Pushed(a)
    PROVE  IInv'
<1>0. PICK t : t = Head(work[a])
    OBVIOUS
<1>1. /\ work[a] # <<>> /\ t.op = "pushed" /\ t \in GoodTasks /\ t.op \in BuildOps
      /\ ~raced => NoVm(t.k)
    BY <1>0, Knows, AtHead, NoVmHead DEF Pushed, BuildOps
<1>2. PICK s : s = Stage("config_pushed", t.cid, None, {})
    OBVIOUS
<1>3. s \in Stages /\ s.st \notin {"launching", "running"} /\ Persist(t.k, s) /\ Again(a, t)
    <2>1. t.cid \in Cids \cup {None}
        BY <1>1 DEF GoodTasks
    <2>2. s \in Stages /\ s.st = "config_pushed"
        BY <1>2, <2>1, StageTyped
    <2> QED BY <1>0, <1>2, <2>2 DEF Pushed
<1>4. IncusOK' /\ OthersOK' /\ LeftOK' /\ Alive' = Alive /\ raced' = raced
    BY Knows, Kept DEF process, Pushed
<1> QED BY <1>0, <1>1, <1>3, <1>4, PersistedAgain

(* A task whose op and todo change.                                            *)
LEMMA NextTask ==
    ASSUME NEW t \in GoodTasks, NEW op \in CellOps, NEW S \in SUBSET Things,
           t.k \in Cells, op \notin {"poll", "up", "launch"}
    PROVE  [t EXCEPT !.op = op, !.todo = S] \in GoodTasks
<1>1. op \notin {"sweep_next", "sweep_cluster"} /\ op \in OpNames
    BY DEF CellOps, BuildOps, DestroyOps, DropOps, PowerOps, OpNames
<1> QED BY <1>1 DEF GoodTasks, OpNames

LEMMA CleanKeeps ==
    ASSUME IInv, NEW a \in Actors, Clean(a)
    PROVE  IInv'
<1>0. PICK t : t = Head(work[a])
    OBVIOUS
<1>1. /\ work[a] # <<>> /\ t.op = "clean" /\ t \in GoodTasks /\ t.k \in Cells
      /\ t.todo \subseteq Things
      /\ ~raced => ~LaunchQueueFull
    BY <1>0, Knows, AtHead DEF Clean, BuildOps, CellOps, GoodTasks, HeadSafe
<1>2. PICK n \in t.todo, ok \in BOOLEAN :
        /\ DeleteVm({n}, ok)
        /\ Then(a, [t EXCEPT !.todo = @ \ {n},
                             !.op = IF t.todo = {n} THEN "cloud_init" ELSE "clean"])
    BY <1>0 DEF Clean
<1>3. IncusOK' /\ LeftOK' /\ Alive' \subseteq Alive
    BY <1>2, Knows, DeletedVm
<1>4. OthersOK' /\ UNCHANGED state /\ raced' = raced
    BY Knows, Kept DEF process, Clean
<1>5. PICK op \in {"clean", "cloud_init"} : Then(a, [t EXCEPT !.op = op, !.todo = t.todo \ {n}])
    BY <1>1, <1>2 DEF GoodTasks
<1>6. PICK S \in SUBSET Things : S = t.todo \ {n}
    BY <1>1
<1>7. PICK u : u = [t EXCEPT !.op = op, !.todo = S]
    OBVIOUS
<1>8. Family(t.op, op) /\ op \in CellOps /\ op \notin {"poll", "up", "launch"}
    BY <1>1 DEF Family, BuildOps, CellOps
<1>9. u \in GoodTasks /\ u.op = op /\ u.k = t.k /\ Family(t.op, u.op)
    <2>1. u \in GoodTasks
        BY <1>1, <1>7, <1>8, NextTask
    <2>2. u.op = op /\ u.k = t.k
        BY <1>1, <1>7 DEF GoodTasks
    <2> QED BY <1>8, <2>1, <2>2
<1>10. ~raced => HeadSafe(u)
    BY <1>1, <1>5, <1>9 DEF HeadSafe
<1> QED BY <1>0, <1>1, <1>3, <1>4, <1>5, <1>6, <1>7, <1>9, <1>10, SameReplaced

LEMMA CloudInitKeeps ==
    ASSUME IInv, NEW a \in Actors, CloudInit(a)
    PROVE  IInv'
<1>0. PICK t : t = Head(work[a])
    OBVIOUS
<1>1. /\ work[a] # <<>> /\ t.op = "cloud_init" /\ t \in GoodTasks /\ t.k \in Cells
      /\ ~raced => ~LaunchQueueFull
    BY <1>0, Knows, AtHead DEF CloudInit, BuildOps, CellOps, GoodTasks, HeadSafe
<1>2. UNCHANGED <<mgmt, incus, process>>
    BY DEF CloudInit
<1>3. IncusOK' /\ MgmtOK' /\ Alive' = Alive /\ raced' = raced /\ matrix' \in Matrices
    BY <1>2, Knows, Kept DEF process, OthersOK
<1>4. ASSUME NEW ok \in BOOLEAN, Answers(ok), Pop(a), UNCHANGED <<state, reports>>
      PROVE  IInv'
    <2>1. OthersOK' /\ LeftOK'
        BY <1>3, <1>4, Knows, Kept, AnswersLeft DEF OthersOK, ReportsOK, reports
    <2> QED BY <1>0, <1>1, <1>3, <1>4, <2>1, SamePopped DEF PowerOps, DestroyOps
<1>5. ASSUME NEW l \in Launches, Answers(TRUE), t.cid \in DOMAIN clusters,
             Persist(t.k, Stage("launching", t.cid, l, {})),
             beats' \subseteq beats, late' \subseteq late,
             Then(a, [t EXCEPT !.op = "launch", !.launch = l, !.todo = Names(t.k)])
      PROVE  IInv'
    <2>1. OthersOK' /\ LeftOK'
        BY <1>3, <1>5, Knows, AnswersLeft DEF OthersOK, ReportsOK
    <2>2. t.cid \in Cids
        BY <1>5, Knows DEF MgmtOK
    <2>3. PICK s : s = Stage("launching", t.cid, l, {})
        OBVIOUS
    <2>4. s \in Stages /\ s.st = "launching" /\ s.launch = l
        BY <2>2, <2>3, StageTyped
    <2>5. /\ StateOK' /\ mem'.paused = mem.paused /\ t.k \in DOMAIN mem'.cells
          /\ mem'.cells[t.k] = s
        BY <1>1, <1>5, <2>3, <2>4, Knows, Persisted
    <2>6. ~raced => AliveTracked' /\ CapKept'
        BY <1>1, <1>3, <1>5, <2>3, <2>4, Knows, PersistSafe
    <2>7. PICK u : u = [t EXCEPT !.op = "launch", !.launch = l, !.todo = Names(t.k)]
        OBVIOUS
    <2>8. u.op = "launch" /\ u.k = t.k /\ u.launch = l /\ u.todo = Names(t.k) /\ u.cid = t.cid
        BY <1>1, <2>7 DEF GoodTasks
    <2>9. Names(t.k) \subseteq Things
        BY <1>1, NamesApart DEF Things
    <2>10. u \in GoodTasks
        BY <1>1, <2>2, <2>7, <2>8, <2>9 DEF GoodTasks, CellOps, BuildOps
    <2>11. Family(t.op, u.op) /\ t.op \notin QuietOps
        BY <1>1, <2>8 DEF Family, BuildOps, QuietOps, DestroyOps, SweepOps
    <2>12. HeadSafe(u)'
        BY <2>4, <2>5, <2>8 DEF HeadSafe, Launching
    <2> QED BY <1>0, <1>1, <1>3, <1>5, <2>1, <2>5, <2>6, <2>7, <2>8, <2>10, <2>11, <2>12, StepReplaced
<1>6. ASSUME ~(Launches \subseteq UsedLaunches)
      PROVE  (CHOOSE x \in Launches : x \notin UsedLaunches) \in Launches
    BY <1>6
<1>7. CASE \E ok \in BOOLEAN : Answers(ok) /\ Pop(a) /\ UNCHANGED <<state, reports>>
    BY <1>4, <1>7
<1>8. ASSUME ~(\E ok \in BOOLEAN : Answers(ok) /\ Pop(a) /\ UNCHANGED <<state, reports>>)
      PROVE  \E l \in Launches :
               /\ Answers(TRUE) /\ t.cid \in DOMAIN clusters
               /\ Persist(t.k, Stage("launching", t.cid, l, {}))
               /\ beats' \subseteq beats /\ late' \subseteq late
               /\ Then(a, [t EXCEPT !.op = "launch", !.launch = l, !.todo = Names(t.k)])
    <2>1. PICK l : l = CHOOSE x \in Launches : x \notin UsedLaunches
        OBVIOUS
    <2>2. /\ ~(Launches \subseteq UsedLaunches)
          /\ Answers(TRUE) /\ t.cid \in DOMAIN clusters
          /\ Persist(t.k, Stage("launching", t.cid, l, {}))
          /\ beats' = {b \in beats : b[2] \in UsedLaunches}
          /\ late' = late \cap UsedLaunches
          /\ Then(a, [t EXCEPT !.op = "launch", !.launch = l, !.todo = Names(t.k)])
        BY <1>0, <1>8, <2>1, Zenon DEF CloudInit
    <2>3. l \in Launches
        BY <1>6, <2>1, <2>2
    <2> QED BY <2>2, <2>3
<1> QED BY <1>5, <1>7, <1>8

(* The new VM bears a name that the launching cell's stage announced.          *)
LEMMA LaunchVmKeeps ==
    ASSUME IInv, NEW a \in Actors, LaunchVm(a)
    PROVE  IInv'
<1>0. PICK t : t = Head(work[a])
    OBVIOUS
<1>1. /\ work[a] # <<>> /\ t.op = "launch" /\ t \in GoodTasks /\ t.k \in Cells
      /\ t.cid \in Cids /\ t.launch \in Launches /\ t.todo \subseteq Names(t.k)
      /\ ~raced => t.k \in Launching
    BY <1>0, Knows, AtHead DEF LaunchVm, BuildOps, CellOps, GoodTasks, HeadSafe
<1>2. UNCHANGED <<state, mgmt, reports, process, leaked>>
    BY DEF LaunchVm
<1>3. PICK n \in t.todo, ok \in BOOLEAN :
        /\ Answers(ok) \/ UNCHANGED left
        /\ vms' = Upsert(vms, n, [launch |-> t.launch, cid |-> t.cid, up |-> TRUE])
             \/ UNCHANGED vms
        /\ Then(a, [t EXCEPT !.todo = @ \ {n}]) \/ Pop(a)
    BY <1>0 DEF LaunchVm
<1>4. /\ StateOK' /\ OthersOK' /\ LeftOK' /\ raced' = raced /\ mem' = mem /\ disk' = disk
    BY <1>2, <1>3, Knows, Kept, AnswersLeft DEF process, state
<1>5. n \in Names(t.k) /\ n \in AllNames
    BY <1>1, NamesApart
<1>6. IncusOK' /\ Alive' \subseteq Alive \cup {n}
    <2>1. CASE UNCHANGED vms
        BY <1>2, <2>1, Knows, Kept DEF incus
    <2>2. CASE vms' = Upsert(vms, n, [launch |-> t.launch, cid |-> t.cid, up |-> TRUE])
        <3>1. /\ DOMAIN vms' = DOMAIN vms \cup {n}
              /\ vms'[n] = [launch |-> t.launch, cid |-> t.cid, up |-> TRUE]
              /\ \A x \in DOMAIN vms : x # n => vms'[x] = vms[x]
            BY <2>2 DEF Upsert
        <3>2. leaked' = leaked
            BY <1>2
        <3>3. Alive' \subseteq Alive \cup {n}
            BY <3>1, <3>2 DEF Alive
        <3>4. DOMAIN vms' \subseteq AllNames /\ leaked' \subseteq DOMAIN vms'
            BY <1>5, <3>1, <3>2, Knows DEF IncusOK
        <3>5. vms'[n] \in [launch: Launches, cid: Cids, up: BOOLEAN]
            BY <1>1, <3>1
        <3>6. \A x \in DOMAIN vms' : vms'[x] \in [launch: Launches, cid: Cids, up: BOOLEAN]
            BY <3>1, <3>5, Knows DEF IncusOK
        <3> QED BY <3>3, <3>4, <3>6 DEF IncusOK
    <2> QED BY <1>3, <2>1, <2>2
<1>7. ASSUME ~raced
      PROVE  AliveTracked' /\ CapKept' /\ t.k \in Launching'
    <2>1. t.k \in DOMAIN mem'.cells /\ n \in Instances(t.k, mem'.cells[t.k]) /\ t.k \in Launching'
        BY <1>1, <1>4, <1>5, <1>7 DEF Launching, Instances
    <2>2. AliveTracked'
        BY <1>4, <1>6, <1>7, <2>1, Knows DEF AliveTracked
    <2>3. DiskLaunching' \subseteq DiskLaunching
        BY <1>4 DEF DiskLaunching
    <2>4. CapKept'
        BY <1>4, <1>7, <2>3, Knows, BudgetKept
    <2> QED BY <2>1, <2>2, <2>4
<1>8. t.op \notin PowerOps \cup DestroyOps \cup QuietOps /\ t.op # "unpause"
    BY <1>1 DEF PowerOps, DestroyOps, QuietOps, SweepOps
<1>9. CASE Pop(a)
    BY <1>0, <1>1, <1>4, <1>6, <1>7, <1>8, <1>9, StepPopped
<1>10. CASE Then(a, [t EXCEPT !.todo = @ \ {n}])
    <2>1. PICK u : u = [t EXCEPT !.todo = @ \ {n}]
        OBVIOUS
    <2>2. u.op = "launch" /\ u.k = t.k /\ u.todo = t.todo \ {n}
        BY <1>1, <2>1 DEF GoodTasks
    <2>3. u \in GoodTasks
        BY <1>1, <2>1, <2>2 DEF GoodTasks
    <2>4. Family(t.op, u.op)
        BY <1>1, <2>2 DEF Family, BuildOps
    <2>5. ~raced => HeadSafe(u)'
        BY <1>7, <2>2 DEF HeadSafe
    <2> QED BY <1>0, <1>1, <1>4, <1>6, <1>7, <1>8, <1>10, <2>1, <2>2, <2>3, <2>4, <2>5, StepReplaced
<1> QED BY <1>3, <1>9, <1>10

LEMMA PollKeeps ==
    ASSUME IInv, NEW a \in Actors, Poll(a)
    PROVE  IInv'
<1>0. PICK t : t = Head(work[a])
    OBVIOUS
<1>1. /\ work[a] # <<>> /\ t.op = "poll" /\ t \in GoodTasks /\ t.k \in Cells
      /\ t.todo \subseteq AllNames
    BY <1>0, Knows, AtHead DEF Poll, BuildOps, CellOps, GoodTasks
<1>2. PICK ok \in BOOLEAN :
        /\ Answers(ok)
        /\ \/ Then(a, [t EXCEPT !.op = "up"])
           \/ Pop(a)
           \/ Then(a, [t EXCEPT !.op = "timed_out", !.todo = Names(t.k)])
    BY <1>0 DEF Poll
<1>3. IncusOK' /\ OthersOK' /\ LeftOK' /\ Alive' = Alive /\ UNCHANGED state /\ raced' = raced
    BY <1>2, Knows, Kept, AnswersLeft DEF process, Poll
<1>4. CASE Pop(a)
    BY <1>0, <1>1, <1>3, <1>4, SamePopped DEF PowerOps, DestroyOps
<1>5. CASE Then(a, [t EXCEPT !.op = "up"])
    <2>1. PICK u : u = [t EXCEPT !.op = "up"]
        OBVIOUS
    <2>2. u \in GoodTasks /\ u.op = "up" /\ u.k = t.k
        BY <1>1, <2>1 DEF GoodTasks, CellOps, BuildOps
    <2>3. Family(t.op, u.op) /\ HeadSafe(u)
        BY <1>1, <2>2 DEF Family, BuildOps, HeadSafe
    <2> QED BY <1>0, <1>1, <1>3, <1>5, <2>1, <2>2, <2>3, SameReplaced
<1>6. CASE Then(a, [t EXCEPT !.op = "timed_out", !.todo = Names(t.k)])
    <2>1. PICK S \in SUBSET Things : S = Names(t.k)
        BY <1>1, NamesApart DEF Things
    <2>2. PICK u : u = [t EXCEPT !.op = "timed_out", !.todo = S]
        OBVIOUS
    <2>3. "timed_out" \in CellOps /\ Family(t.op, "timed_out")
        BY <1>1 DEF CellOps, BuildOps, Family
    <2>4. u \in GoodTasks /\ u.op = "timed_out" /\ u.k = t.k /\ u.todo = S /\ Family(t.op, u.op)
        <3>1. u \in GoodTasks
            BY <1>1, <2>2, <2>3, NextTask
        <3>2. u.op = "timed_out" /\ u.k = t.k /\ u.todo = S
            BY <1>1, <2>2 DEF GoodTasks
        <3> QED BY <2>3, <3>1, <3>2
    <2>5. HeadSafe(u)
        BY <2>1, <2>4 DEF HeadSafe
    <2> QED BY <1>0, <1>1, <1>3, <1>6, <2>1, <2>2, <2>4, <2>5, SameReplaced
<1> QED BY <1>2, <1>4, <1>5, <1>6

LEMMA CameUpKeeps ==
    ASSUME IInv, NEW a \in Actors, CameUp(a)
    PROVE  IInv'
<1>0. PICK t : t = Head(work[a])
    OBVIOUS
<1>1. /\ work[a] # <<>> /\ t.op = "up" /\ t \in GoodTasks /\ t.k \in Cells
      /\ t.todo \subseteq AllNames
    BY <1>0, Knows, AtHead DEF CameUp, BuildOps, CellOps, GoodTasks
<1>2. PICK s : s = Stage("running", t.cid, t.launch, t.todo)
    OBVIOUS
<1>3. s \in Stages /\ s.st = "running" /\ Persist(t.k, s) /\ Pop(a)
    <2>1. t.cid \in Cids \cup {None} /\ t.launch \in Launches \cup {None}
        BY <1>1 DEF GoodTasks
    <2>2. s \in Stages /\ s.st = "running"
        BY <1>1, <1>2, <2>1, StageTyped
    <2> QED BY <1>0, <1>2, <2>2 DEF CameUp
<1>4. IncusOK' /\ LeftOK' /\ MgmtOK' /\ Alive' = Alive /\ raced' = raced /\ matrix' = matrix
    BY Knows, Kept DEF process, CameUp
<1>5. ReportsOK' /\ OthersOK'
    BY <1>4, Knows DEF CameUp, ReportsOK, OthersOK
<1>6. StateOK' /\ mem'.paused = mem.paused
    BY <1>1, <1>3, Knows, Persisted
<1>7. ~raced => AliveTracked' /\ CapKept'
    BY <1>1, <1>3, <1>4, Knows, PersistSafe
<1>8. t.op \notin PowerOps \cup DestroyOps \cup QuietOps /\ t.op # "unpause"
    BY <1>1 DEF PowerOps, DestroyOps, QuietOps, SweepOps
<1> QED BY <1>0, <1>1, <1>3, <1>4, <1>5, <1>6, <1>7, <1>8, StepPopped

LEMMA TimedOutKeeps ==
    ASSUME IInv, NEW a \in Actors, TimedOut(a)
    PROVE  IInv'
<1>0. PICK t : t = Head(work[a])
    OBVIOUS
<1>1. /\ work[a] # <<>> /\ t.op = "timed_out" /\ t \in GoodTasks /\ t.k \in Cells
      /\ t.todo \subseteq Things /\ t.op \in BuildOps
      /\ ~raced => Names(t.k) \cap Alive \subseteq t.todo
    BY <1>0, Knows, AtHead DEF TimedOut, BuildOps, CellOps, GoodTasks, HeadSafe
<1>2. OthersOK' /\ raced' = raced
    BY Knows, Kept DEF process, TimedOut
<1>3. ASSUME NEW n \in t.todo, NEW ok \in BOOLEAN, DeleteVm({n}, ok),
             Then(a, [t EXCEPT !.todo = @ \ {n}]), UNCHANGED state
      PROVE  IInv'
    <2>1. IncusOK' /\ LeftOK' /\ Alive' \subseteq Alive \ {n}
        BY <1>3, Knows, DeletedVm
    <2>2. PICK u : u = [t EXCEPT !.todo = @ \ {n}]
        OBVIOUS
    <2>3. u \in GoodTasks /\ u.op = "timed_out" /\ u.k = t.k /\ u.todo = t.todo \ {n}
        BY <1>1, <2>2 DEF GoodTasks
    <2>4. Family(t.op, u.op)
        BY <1>1, <2>3 DEF Family, BuildOps
    <2>5. ~raced => Names(t.k) \cap Alive' \subseteq u.todo
        BY <1>1, <2>1, <2>3
    <2>6. ~raced => HeadSafe(u)'
        BY <2>3, <2>5 DEF HeadSafe, Names
    <2> QED BY <1>0, <1>1, <1>2, <1>3, <2>1, <2>2, <2>3, <2>4, <2>6, SameReplaced
<1>4. CASE /\ t.todo = {} /\ Persist(t.k, Stage("config_pushed", t.cid, None, {}))
           /\ Again(a, t) /\ UNCHANGED <<incus, left>>
    <2>1. IncusOK' /\ LeftOK' /\ Alive' = Alive
        BY <1>4, Knows, Kept
    <2>2. ~raced => NoVm(t.k)
        BY <1>1, <1>4 DEF NoVm
    <2>3. PICK s : s = Stage("config_pushed", t.cid, None, {})
        OBVIOUS
    <2>4. s \in Stages /\ s.st \notin {"launching", "running"}
        <3>1. t.cid \in Cids \cup {None}
            BY <1>1 DEF GoodTasks
        <3>2. s \in Stages /\ s.st = "config_pushed"
            BY <2>3, <3>1, StageTyped
        <3> QED BY <3>2
    <2> QED BY <1>0, <1>1, <1>2, <1>4, <2>1, <2>2, <2>3, <2>4, PersistedAgain
<1> QED BY <1>0, <1>3, <1>4 DEF TimedOut

-----------------------------------------------------------------------------
(* Several tasks at once. *)

LEMMA ConcatAssociative ==
    ASSUME NEW G, NEW x \in Seq(G), NEW y \in Seq(G), NEW z \in Seq(G)
    PROVE  (x \o y) \o z = x \o (y \o z)
OBVIOUS

LEMMA ConcatSeq ==
    ASSUME NEW G, NEW x \in Seq(G), NEW y \in Seq(G)
    PROVE  /\ x \o y \in Seq(G) /\ Len(x \o y) = Len(x) + Len(y)
           /\ \A i \in 1 .. Len(x) : (x \o y)[i] = x[i]
           /\ \A i \in 1 .. Len(y) : (x \o y)[Len(x) + i] = y[i]
           /\ \A i \in Len(x) + 1 .. Len(x) + Len(y) :
                i - Len(x) \in 1 .. Len(y) /\ (x \o y)[i] = y[i - Len(x)]
OBVIOUS

(* One task per cell, and then the tasks y.                                   *)
LEMMA FollowedIs ==
    ASSUME NEW op \in {"drive", "destroy", "drop"}, NEW S, S \subseteq Cells,
           NEW y \in Seq(GoodTasks), Shape(y), y # <<>>, y[1].op \in StartOps
    PROVE  LET v == ForEach(op, S) \o y IN
           /\ v \in Seq(GoodTasks) /\ Shape(v)
           /\ \A i \in 1 .. Len(v) :
                \/ v[i].op = op /\ v[i].k \in S
                \/ \E j \in 1 .. Len(y) : v[i] = y[j]
<1>1. PICK x : x = ForEach(op, S)
    OBVIOUS
<1>2. x \in Seq(GoodTasks) /\ \A i \in 1 .. Len(x) : x[i].op = op /\ x[i].k \in S
    BY <1>1, ForEachIs
<1>3. Len(x) \in Nat /\ Len(y) \in Nat /\ Len(y) >= 1
    BY <1>2
<1>4. PICK v : v = x \o y
    OBVIOUS
<1>5. /\ v \in Seq(GoodTasks) /\ Len(v) = Len(x) + Len(y)
      /\ \A i \in 1 .. Len(x) : v[i] = x[i]
      /\ \A i \in Len(x) + 1 .. Len(x) + Len(y) :
           i - Len(x) \in 1 .. Len(y) /\ v[i] = y[i - Len(x)]
    BY <1>2, <1>4, ConcatSeq
<1>6. ASSUME NEW i \in 1 .. Len(v)
      PROVE  \/ v[i].op = op /\ v[i].k \in S /\ i \in 1 .. Len(x)
             \/ i \in Len(x) + 1 .. Len(x) + Len(y)
    <2>1. CASE i <= Len(x)
        <3>1. i \in 1 .. Len(x)
            BY <1>3, <1>5, <2>1
        <3> QED BY <1>2, <1>5, <3>1
    <2>2. CASE i > Len(x)
        BY <1>3, <1>5, <2>2
    <2> QED BY <1>3, <2>1, <2>2
<1>7. /\ op \in StartOps
      /\ op \notin GcOps \cup PowerOps \cup {"reconcile"} /\ op # "stale"
    BY DEF StartOps, GcOps, PowerOps
<1>8. \A i \in 1 .. Len(y) : y[i].op \in StartOps
    BY <1>3 DEF Shape
<1>9. \A i \in 1 .. Len(v) : v[i].op \in StartOps
    BY <1>5, <1>6, <1>7, <1>8
<1>10. ASSUME NEW i \in 1 .. Len(v)
       PROVE  /\ v[i].op \in GcOps \cup PowerOps \cup {"reconcile"} => i = Len(v)
              /\ v[i].op = "stale" => i = Len(v) - 1 /\ v[i + 1].op = "gc"
    <2>1. CASE v[i].op = op
        BY <1>7, <2>1
    <2>2. CASE i \in Len(x) + 1 .. Len(x) + Len(y)
        <3>1. i - Len(x) \in 1 .. Len(y) /\ v[i] = y[i - Len(x)] /\ i \in Nat
            BY <1>3, <1>5, <2>2
        <3>2. v[i].op \in GcOps \cup PowerOps \cup {"reconcile"} => i = Len(v)
            <4> SUFFICES ASSUME v[i].op \in GcOps \cup PowerOps \cup {"reconcile"}
                         PROVE  i = Len(v)
                OBVIOUS
            <4>1. i - Len(x) = Len(y)
                BY <3>1 DEF Shape
            <4> QED BY <1>3, <1>5, <3>1, <4>1
        <3>3. ASSUME v[i].op = "stale"
              PROVE  i = Len(v) - 1 /\ v[i + 1].op = "gc"
            <4>1. i - Len(x) = Len(y) - 1 /\ y[(i - Len(x)) + 1].op = "gc"
                BY <3>1, <3>3 DEF Shape
            <4>2. i = Len(v) - 1 /\ i + 1 \in Len(x) + 1 .. Len(x) + Len(y)
                  /\ (i + 1) - Len(x) = (i - Len(x)) + 1
                BY <1>3, <1>5, <3>1, <4>1
            <4>3. v[i + 1] = y[(i + 1) - Len(x)]
                BY <1>5, <4>2
            <4> QED BY <4>1, <4>2, <4>3
        <3> QED BY <3>2, <3>3
    <2> QED BY <1>6, <2>1, <2>2
<1>11. Shape(v)
    BY <1>3, <1>5, <1>9, <1>10 DEF Shape
<1> QED BY <1>1, <1>4, <1>5, <1>6, <1>11

(* An actor goes on with tasks none of which resets, clears or pauses.        *)
LEMMA StepPlain ==
    ASSUME IInv, NEW a \in Actors, work[a] # <<>>, Head(work[a]).op \notin PowerOps,
           NEW v \in Seq(GoodTasks), Shape(v), work' = [work EXCEPT ![a] = v],
           \A i \in 1 .. Len(v) :
             /\ v[i].op \in StartOps \ {"reset", "clear", "pause"}
             /\ v[i].op \in BuildOps => ~mem.paused,
           UNCHANGED <<state, mgmt, incus, reports, process, left>>
    PROVE  IInv'
<1>1. /\ StateOK' /\ IncusOK' /\ OthersOK' /\ LeftOK' /\ Alive' = Alive /\ UNCHANGED state
      /\ raced' = raced /\ mem' = mem
    BY Knows, Kept DEF process, state
<1>2. v # <<>> => Head(v).op \notin PowerOps
    BY PoppedSeq, PowerIsNoStart
<1>3. WorkOK' /\ work'[a] = v /\ \A b \in Actors \ {a} : work'[b] = work[b]
    BY <1>2, Knows, WorkSet
<1>4. ASSUME ~raced
      PROVE  Safe'
    <2>1. Safe /\ AliveTracked' /\ CapKept'
        BY <1>1, <1>4, Knows, SameStateSafe
    <2>2. SafeFor(a)'
        BY <1>1, <1>3, SafePlain
    <2> QED BY <1>3, <1>4, <2>1, <2>2, Knows, StepSafe
<1> QED BY <1>1, <1>3, <1>4, Parts DEF PartsOK

LEMMA ShortSeq ==
    ASSUME NEW G, NEW x \in Seq(G)
    PROVE  (Len(x) = 0 => x = <<>>) /\ (Len(x) = 1 => x = <<x[1]>>)
OBVIOUS

(* The only task, or the one before gc.                                       *)
LEMMA LastTask ==
    ASSUME IInv, NEW a \in Actors, work[a] # <<>>
    PROVE  /\ Head(work[a]).op \in GcOps \cup PowerOps \cup {"reconcile"} => Tail(work[a]) = <<>>
           /\ Head(work[a]).op = "stale" =>
                \E g \in GoodTasks : g.op = "gc" /\ Tail(work[a]) = <<g>>
<1> DEFINE w == work[a]
<1>1. w \in Seq(GoodTasks) /\ Shape(w)
    BY Knows DEF WorkOK
<1> HIDE DEF w
<1>2. /\ Tail(w) \in Seq(GoodTasks) /\ Len(Tail(w)) = Len(w) - 1 /\ Len(w) \in Nat /\ Len(w) >= 1
      /\ Head(w) = w[1] /\ \A i \in 1 .. Len(w) - 1 : Tail(w)[i] = w[i + 1]
    BY <1>1, PoppedSeq DEF w
<1>3. 1 \in 1 .. Len(w)
    BY <1>2
<1>4. ASSUME Head(w).op \in GcOps \cup PowerOps \cup {"reconcile"}
      PROVE  Tail(w) = <<>>
    <2>1. Len(w) = 1
        BY <1>1, <1>2, <1>3, <1>4 DEF Shape
    <2>2. Len(Tail(w)) = 0
        BY <1>2, <2>1
    <2> QED BY <1>2, <2>2, ShortSeq
<1>5. ASSUME Head(w).op = "stale"
      PROVE  \E g \in GoodTasks : g.op = "gc" /\ Tail(w) = <<g>>
    <2>1. Len(w) = 2 /\ w[2].op = "gc"
        <3>1. w[1].op = "stale" /\ Len(w) \in Nat
            BY <1>2, <1>5
        <3>2. 1 = Len(w) - 1 /\ w[1 + 1].op = "gc"
            BY <1>1, <1>3, <3>1 DEF Shape
        <3>3. Len(w) = 2 /\ 1 + 1 = 2
            BY <3>1, <3>2
        <3> QED BY <3>2, <3>3
    <2>2. w[2] \in GoodTasks
        BY <1>1, <2>1
    <2>3. Tail(w) = <<w[2]>>
        <3>1. Len(Tail(w)) = 1 /\ 1 \in 1 .. Len(w) - 1 /\ 1 + 1 = 2
            BY <1>2, <2>1
        <3>2. Tail(w)[1] = w[1 + 1]
            BY <1>2, <3>1
        <3> QED BY <1>2, <3>1, <3>2, ShortSeq
    <2> QED BY <2>1, <2>2, <2>3
<1> QED BY <1>4, <1>5 DEF w

(* Sequences of one task and of two.                                          *)
LEMMA OneTask ==
    ASSUME NEW g \in GoodTasks, g.op \in StartOps, g.op # "stale"
    PROVE  /\ <<g>> \in Seq(GoodTasks) /\ Shape(<<g>>) /\ <<g>> # <<>> /\ Len(<<g>>) = 1
           /\ <<g>>[1] = g /\ \A j \in 1 .. Len(<<g>>) : <<g>>[j] = g
<1>1. PICK y : y = <<g>>
    OBVIOUS
<1>2. y \in Seq(GoodTasks) /\ y # <<>> /\ Len(y) = 1 /\ y[1] = g
    BY <1>1
<1>3. \A j \in 1 .. Len(y) : y[j] = g /\ j = 1
    BY <1>2
<1>4. Shape(y)
    BY <1>2, <1>3 DEF Shape
<1> QED BY <1>1, <1>2, <1>3, <1>4

LEMMA DoIs ==
    ASSUME WorkOK, NEW a \in Actors, NEW s, Do(a, s)
    PROVE  work' = [work EXCEPT ![a] = s \o Tail(work[a])]
BY DEF Do, WorkOK

LEMMA ReconcileTasks ==
    ASSUME IInv, NEW a \in Actors, work[a] # <<>>, Head(work[a]).op = "reconcile",
           Do(a, ForEach("drive", matrix) \o <<Task("stale", None), Task("gc", None)>>)
    PROVE  \E v \in Seq(GoodTasks) :
             /\ Shape(v) /\ work' = [work EXCEPT ![a] = v]
             /\ \A i \in 1 .. Len(v) : v[i].op \in {"drive", "stale", "gc"}
<1>1. matrix \subseteq Cells
    BY Knows, FleetAssumption DEF OthersOK
<1>2. PICK g1, g2 : g1 = Task("stale", None) /\ g2 = Task("gc", None)
    OBVIOUS
<1>3. g1 \in GoodTasks /\ g2 \in GoodTasks /\ g1.op = "stale" /\ g2.op = "gc"
    <2>1. "stale" \notin CellOps /\ "gc" \notin CellOps
        BY DEF CellOps, BuildOps, DestroyOps, DropOps, PowerOps
    <2>2. "stale" \in OpNames /\ "gc" \in OpNames
        BY DEF OpNames, StartOps
    <2> QED BY <1>2, <2>1, <2>2, TaskGood, TaskFields
<1>4. PICK y : y = <<g1, g2>>
    OBVIOUS
<1>5. y \in Seq(GoodTasks) /\ y # <<>> /\ Len(y) = 2 /\ y[1] = g1 /\ y[2] = g2
    BY <1>3, <1>4
<1>6. \A j \in 1 .. Len(y) : j = 1 \/ j = 2
    BY <1>5
<1>7. Shape(y)
    BY <1>3, <1>5, <1>6 DEF Shape, StartOps, GcOps, PowerOps
<1>8. PICK v : v = ForEach("drive", matrix) \o y
    OBVIOUS
<1>9. /\ v \in Seq(GoodTasks) /\ Shape(v)
      /\ \A i \in 1 .. Len(v) :
           v[i].op = "drive" \/ \E j \in 1 .. Len(y) : v[i] = y[j]
    <2>1. y[1].op \in StartOps
        BY <1>3, <1>5 DEF StartOps
    <2>2. y \in Seq(GoodTasks) /\ y # <<>>
        BY <1>5
    <2> QED BY <1>1, <1>7, <1>8, <2>1, <2>2, FollowedIs
<1>10. \A i \in 1 .. Len(v) : v[i].op \in {"drive", "stale", "gc"}
    BY <1>3, <1>5, <1>6, <1>9
<1>11. work' = [work EXCEPT ![a] = v]
    <2>1. work' = [work EXCEPT ![a] = v \o Tail(work[a])] /\ Tail(work[a]) = <<>>
        BY <1>2, <1>4, <1>8, Knows, DoIs, LastTask
    <2>2. v \o <<>> = v
        BY <1>9
    <2> QED BY <2>1, <2>2
<1> QED BY <1>9, <1>10, <1>11

LEMMA ReconcileKeeps ==
    ASSUME IInv, NEW a \in Actors, Reconcile(a)
    PROVE  IInv'
<1>1. work[a] # <<>> /\ Head(work[a]).op = "reconcile"
    BY AtHead DEF Reconcile
<1>2. UNCHANGED <<state, mgmt, incus, reports, process, left>>
    BY DEF Reconcile
<1>3. CASE Pop(a)
    <2>1. IncusOK' /\ OthersOK' /\ LeftOK' /\ Alive' = Alive /\ UNCHANGED state /\ raced' = raced
        BY <1>2, Knows, Kept DEF process
    <2> QED BY <1>1, <1>3, <2>1, SamePopped DEF PowerOps, DestroyOps
<1>4. CASE /\ ~mem.paused
           /\ Do(a, ForEach("drive", matrix) \o <<Task("stale", None), Task("gc", None)>>)
    <2>1. PICK v \in Seq(GoodTasks) :
            /\ Shape(v) /\ work' = [work EXCEPT ![a] = v]
            /\ \A i \in 1 .. Len(v) : v[i].op \in {"drive", "stale", "gc"}
        BY <1>1, <1>4, ReconcileTasks
    <2>2. \A i \in 1 .. Len(v) : v[i].op \in StartOps \ {"reset", "clear", "pause"}
        BY <2>1 DEF StartOps
    <2> QED BY <1>1, <1>2, <1>4, <2>1, <2>2, StepPlain DEF PowerOps
<1> QED BY <1>3, <1>4 DEF Reconcile

LEMMA StaleTasks ==
    ASSUME IInv, NEW a \in Actors, Stale(a)
    PROVE  \E v \in Seq(GoodTasks) :
             /\ Shape(v) /\ work' = [work EXCEPT ![a] = v]
             /\ \A i \in 1 .. Len(v) : v[i].op \in {"destroy", "gc"}
<1>1. work[a] # <<>> /\ Head(work[a]).op = "stale"
    BY AtHead DEF Stale
<1>3. PICK S : S = DOMAIN mem.cells \ matrix
    OBVIOUS
<1>4. S \subseteq Cells
    BY <1>3, Knows DEF StateOK, IsState
<1>5. PICK g \in GoodTasks : g.op = "gc" /\ Tail(work[a]) = <<g>>
    BY <1>1, LastTask
<1>6. PICK y : y = <<g>>
    OBVIOUS
<1>7. y \in Seq(GoodTasks) /\ Shape(y) /\ y # <<>> /\ y[1] = g /\ \A j \in 1 .. Len(y) : y[j] = g
    BY <1>5, <1>6, OneTask DEF StartOps
<1>8. PICK v : v = ForEach("destroy", S) \o y
    OBVIOUS
<1>9. /\ v \in Seq(GoodTasks) /\ Shape(v)
      /\ \A i \in 1 .. Len(v) :
           v[i].op = "destroy" \/ \E j \in 1 .. Len(y) : v[i] = y[j]
    BY <1>4, <1>5, <1>7, <1>8, FollowedIs DEF StartOps
<1>10. \A i \in 1 .. Len(v) : v[i].op \in {"destroy", "gc"}
    BY <1>5, <1>7, <1>9
<1>11. work' = [work EXCEPT ![a] = v]
    BY <1>3, <1>5, <1>6, <1>8, Knows, DoIs DEF Stale
<1> QED BY <1>9, <1>10, <1>11

LEMMA StaleKeeps ==
    ASSUME IInv, NEW a \in Actors, Stale(a)
    PROVE  IInv'
<1>1. work[a] # <<>> /\ Head(work[a]).op = "stale"
    BY AtHead DEF Stale
<1>2. UNCHANGED <<state, mgmt, incus, reports, process, left>>
    BY DEF Stale
<1>3. PICK v \in Seq(GoodTasks) :
        /\ Shape(v) /\ work' = [work EXCEPT ![a] = v]
        /\ \A i \in 1 .. Len(v) : v[i].op \in {"destroy", "gc"}
    BY StaleTasks
<1>4. \A i \in 1 .. Len(v) : /\ v[i].op \in StartOps \ {"reset", "clear", "pause"}
                              /\ v[i].op \notin BuildOps
    BY <1>3 DEF StartOps, BuildOps
<1> QED BY <1>1, <1>2, <1>3, <1>4, StepPlain DEF PowerOps

LEMMA GcReverseTasks ==
    ASSUME IInv, NEW a \in Actors, GcReverse(a)
    PROVE  \E v \in Seq(GoodTasks) :
             /\ Shape(v) /\ work' = [work EXCEPT ![a] = v]
             /\ \A i \in 1 .. Len(v) : v[i].op \in {"drop", "save"}
<1>1. work[a] # <<>> /\ Head(work[a]).op = "gc_sweep"
    BY AtHead DEF GcReverse
<1>3. PICK S : S = {k \in DOMAIN mem.cells :
                      mem.cells[k].cid \notin Head(work[a]).keep \cup {None}}
    OBVIOUS
<1>4. S \subseteq Cells
    BY <1>3, Knows DEF StateOK, IsState
<1>5. PICK g : g = Task("save", None)
    OBVIOUS
<1>6. g \in GoodTasks /\ g.op = "save"
    <2>1. "save" \notin CellOps /\ "save" \in OpNames
        BY DEF CellOps, BuildOps, DestroyOps, DropOps, PowerOps, OpNames, StartOps
    <2> QED BY <1>5, <2>1, TaskGood, TaskFields
<1>7. PICK y : y = <<g>>
    OBVIOUS
<1>8. y \in Seq(GoodTasks) /\ Shape(y) /\ y # <<>> /\ y[1] = g /\ \A j \in 1 .. Len(y) : y[j] = g
    BY <1>6, <1>7, OneTask DEF StartOps
<1>9. PICK v : v = ForEach("drop", S) \o y
    OBVIOUS
<1>10. /\ v \in Seq(GoodTasks) /\ Shape(v)
       /\ \A i \in 1 .. Len(v) :
            v[i].op = "drop" \/ \E j \in 1 .. Len(y) : v[i] = y[j]
    BY <1>4, <1>6, <1>8, <1>9, FollowedIs DEF StartOps
<1>11. \A i \in 1 .. Len(v) : v[i].op \in {"drop", "save"}
    BY <1>6, <1>8, <1>10
<1>12. work' = [work EXCEPT ![a] = v]
    <2>1. work' = [work EXCEPT ![a] = v \o Tail(work[a])]
        BY <1>3, <1>5, <1>7, <1>9, Knows, DoIs DEF GcReverse
    <2>2. Tail(work[a]) = <<>> /\ v \o <<>> = v
        BY <1>1, <1>10, LastTask DEF GcOps
    <2> QED BY <2>1, <2>2
<1> QED BY <1>10, <1>11, <1>12

LEMMA GcReverseKeeps ==
    ASSUME IInv, NEW a \in Actors, GcReverse(a)
    PROVE  IInv'
<1>1. work[a] # <<>> /\ Head(work[a]).op = "gc_sweep"
    BY AtHead DEF GcReverse
<1>2. UNCHANGED <<state, mgmt, incus, reports, process, left>>
    BY DEF GcReverse
<1>3. PICK v \in Seq(GoodTasks) :
        /\ Shape(v) /\ work' = [work EXCEPT ![a] = v]
        /\ \A i \in 1 .. Len(v) : v[i].op \in {"drop", "save"}
    BY GcReverseTasks
<1>4. \A i \in 1 .. Len(v) : /\ v[i].op \in StartOps \ {"reset", "clear", "pause"}
                              /\ v[i].op \notin BuildOps
    BY <1>3 DEF StartOps, BuildOps
<1> QED BY <1>1, <1>2, <1>3, <1>4, StepPlain DEF PowerOps

-----------------------------------------------------------------------------
(* Destroying a cell. *)

LEMMA AfterVmsIs ==
    ASSUME NEW x \in {"destroy", "drop", "destroy_vm", "drop_vm"}, NEW S
    PROVE  /\ S = {} => AfterVms(x, S) \in {"destroy_cluster", "drop_cell"}
           /\ S # {} => AfterVms(x, S) \in {"destroy_vm", "drop_vm"}
           /\ AfterVms(x, S) \in CellOps /\ Family(x, AfterVms(x, S))
           /\ AfterVms(x, S) \notin {"poll", "up", "launch"}
<1>1. CASE x \in {"destroy", "destroy_vm"}
    <2>1. AfterVms(x, S) = IF S = {} THEN "destroy_cluster" ELSE "destroy_vm"
        BY <1>1 DEF AfterVms
    <2> QED BY <1>1, <2>1 DEF CellOps, DestroyOps, Family
<1>2. CASE x \in {"drop", "drop_vm"}
    <2>1. AfterVms(x, S) = IF S = {} THEN "drop_cell" ELSE "drop_vm"
        BY <1>2 DEF AfterVms
    <2> QED BY <1>2, <2>1 DEF CellOps, DropOps, Family
<1> QED BY <1>1, <1>2

(* What is still to be deleted covers the cell's VMs.                         *)
LEMMA VmsTaskSafe ==
    ASSUME NEW u, NEW x \in {"destroy", "drop", "destroy_vm", "drop_vm"},
           u.op = AfterVms(x, u.todo), Names(u.k) \cap Alive' \subseteq u.todo
    PROVE  HeadSafe(u)'
<1>1. CASE u.todo = {}
    <2>1. u.op \in {"destroy_cluster", "drop_cell"} /\ Names(u.k) \cap Alive' = {}
        BY <1>1, AfterVmsIs
    <2> QED BY <2>1 DEF HeadSafe, NoVm, Names
<1>2. CASE u.todo # {}
    <2>1. u.op \in {"destroy_vm", "drop_vm"}
        BY <1>2, AfterVmsIs
    <2> QED BY <2>1 DEF HeadSafe, Names
<1> QED BY <1>1, <1>2

LEMMA DestroyKeeps ==
    ASSUME IInv, NEW a \in Actors, Destroy(a)
    PROVE  IInv'
<1>0. PICK t : t = Head(work[a])
    OBVIOUS
<1>1. /\ work[a] # <<>> /\ t.op \in {"destroy", "drop"} /\ t \in GoodTasks /\ t.k \in Cells
    BY <1>0, Knows, AtHead DEF Destroy, DestroyOps, DropOps, CellOps, GoodTasks
<1>2. UNCHANGED <<state, mgmt, incus, reports, process, left>>
    BY DEF Destroy
<1>3. IncusOK' /\ OthersOK' /\ LeftOK' /\ Alive' = Alive /\ UNCHANGED state /\ raced' = raced
    BY <1>2, Knows, Kept DEF process
<1>4. CASE t.op = "destroy" /\ t.k \notin DOMAIN mem.cells /\ Pop(a)
    BY <1>0, <1>1, <1>3, <1>4, SamePopped DEF PowerOps
<1>5. PICK s : s = Find(t.k)
    OBVIOUS
<1>6. s \in Stages /\ (AliveTracked => Names(t.k) \cap Alive \subseteq Instances(t.k, s))
    BY <1>1, <1>5, Knows, FindOK
<1>7. CASE Then(a, [t EXCEPT !.cid = s.cid, !.todo = Instances(t.k, s),
                             !.op = AfterVms(t.op, Instances(t.k, s))])
    <2>1. PICK S \in SUBSET Things : S = Instances(t.k, s)
        BY <1>1, NamesApart DEF Instances, Things
    <2>2. PICK op : op = AfterVms(t.op, S)
        OBVIOUS
    <2>3. op \in CellOps /\ Family(t.op, op) /\ op \notin {"poll", "up", "launch"}
        BY <1>1, <2>2, AfterVmsIs
    <2>4. PICK v : v = [t EXCEPT !.cid = s.cid]
        OBVIOUS
    <2>5. v \in GoodTasks /\ v.op = t.op /\ v.k = t.k
        BY <1>1, <1>6, <2>4 DEF GoodTasks, Stages
    <2>6. PICK u : u = [v EXCEPT !.op = op, !.todo = S]
        OBVIOUS
    <2>7. u \in GoodTasks
        <3>1. v.k \in Cells
            BY <1>1, <2>5
        <3> QED BY <2>3, <2>5, <2>6, <3>1, NextTask
    <2>8. u.op = op /\ u.k = t.k /\ u.todo = S
        BY <2>5, <2>6 DEF GoodTasks
    <2>9. u = [t EXCEPT !.cid = s.cid, !.todo = S, !.op = op]
        BY <1>1, <2>4, <2>6 DEF GoodTasks
    <2>10. Then(a, u)
        BY <1>7, <2>1, <2>2, <2>9
    <2>11. ~raced => HeadSafe(u)'
        BY <1>1, <1>3, <1>6, <2>1, <2>2, <2>8, Knows, VmsTaskSafe
    <2> QED BY <1>0, <1>1, <1>3, <2>3, <2>7, <2>8, <2>10, <2>11, SameReplaced
<1> QED BY <1>0, <1>4, <1>5, <1>7 DEF Destroy

LEMMA DestroyVmKeeps ==
    ASSUME IInv, NEW a \in Actors, DestroyVm(a)
    PROVE  IInv'
<1>0. PICK t : t = Head(work[a])
    OBVIOUS
<1>1. /\ work[a] # <<>> /\ t.op \in {"destroy_vm", "drop_vm"} /\ t \in GoodTasks
      /\ t.k \in Cells /\ t.todo \subseteq Things
      /\ ~raced => Names(t.k) \cap Alive \subseteq t.todo
    BY <1>0, Knows, AtHead DEF DestroyVm, DestroyOps, DropOps, CellOps, GoodTasks, HeadSafe
<1>2. PICK n \in t.todo, ok \in BOOLEAN :
        /\ DeleteVm({n}, ok)
        /\ Then(a, [t EXCEPT !.todo = @ \ {n}, !.op = AfterVms(t.op, t.todo \ {n})])
    BY <1>0 DEF DestroyVm
<1>3. IncusOK' /\ LeftOK' /\ Alive' \subseteq Alive \ {n}
    BY <1>2, Knows, DeletedVm
<1>4. OthersOK' /\ UNCHANGED state /\ raced' = raced
    BY Knows, Kept DEF process, DestroyVm
<1>5. PICK S \in SUBSET Things : S = t.todo \ {n}
    BY <1>1
<1>6. PICK op : op = AfterVms(t.op, S)
    OBVIOUS
<1>7. op \in CellOps /\ Family(t.op, op) /\ op \notin {"poll", "up", "launch"}
    BY <1>1, <1>6, AfterVmsIs
<1>8. PICK u : u = [t EXCEPT !.op = op, !.todo = S]
    OBVIOUS
<1>9. u \in GoodTasks
    BY <1>1, <1>7, <1>8, NextTask
<1>10. u.op = op /\ u.k = t.k /\ u.todo = S
    BY <1>1, <1>8 DEF GoodTasks
<1>11. Then(a, u)
    <2>1. [t EXCEPT !.todo = @ \ {n}, !.op = AfterVms(t.op, t.todo \ {n})] = u
        BY <1>1, <1>5, <1>6, <1>8 DEF GoodTasks
    <2> QED BY <1>2, <2>1
<1>12. ~raced => HeadSafe(u)'
    <2>1. ~raced => Names(u.k) \cap Alive' \subseteq u.todo
        BY <1>1, <1>3, <1>5, <1>10
    <2> QED BY <1>1, <1>6, <1>10, <2>1, VmsTaskSafe
<1> QED BY <1>0, <1>1, <1>3, <1>4, <1>7, <1>9, <1>10, <1>11, <1>12, SameReplaced

LEMMA DestroyClusterKeeps ==
    ASSUME IInv, NEW a \in Actors, DestroyCluster(a)
    PROVE  IInv'
<1>0. PICK t : t = Head(work[a])
    OBVIOUS
<1>1. /\ work[a] # <<>> /\ t.op = "destroy_cluster" /\ t \in GoodTasks /\ t.k \in Cells
      /\ ~raced => NoVm(t.k)
    BY <1>0, Knows, AtHead, NoVmHead DEF DestroyCluster, DestroyOps, CellOps, GoodTasks
<1>2. MgmtOK' /\ LeftOK'
    <2>1. CASE UNCHANGED <<mgmt, left>>
        BY <2>1, Knows, Kept
    <2>2. CASE \E ok \in BOOLEAN : DeleteCluster(t.cid, ok)
        BY <2>2, Knows, DeletedCluster
    <2> QED BY <1>0, <2>1, <2>2 DEF DestroyCluster
<1>3. IncusOK' /\ Alive' = Alive /\ OthersOK' /\ UNCHANGED state /\ raced' = raced
    BY <1>2, Knows, Kept DEF process, DestroyCluster, OthersOK, ReportsOK, reports
<1>4. PICK u : u = [t EXCEPT !.op = "forget"]
    OBVIOUS
<1>5. u \in GoodTasks /\ u.op = "forget" /\ u.k = t.k
    BY <1>1, <1>4 DEF GoodTasks, CellOps, DestroyOps
<1>6. Then(a, u) /\ Family(t.op, u.op)
    BY <1>0, <1>1, <1>4, <1>5 DEF DestroyCluster, Family, DestroyOps
<1>7. ~raced => HeadSafe(u)
    BY <1>1, <1>5 DEF HeadSafe
<1> QED BY <1>0, <1>1, <1>2, <1>3, <1>5, <1>6, <1>7, SameReplaced

(* Cells leave the state, on disk too or not yet.                             *)
LEMMA CellsDropped ==
    ASSUME StateOK, NEW S, mem' = [mem EXCEPT !.cells = Drop(@, S)], disk' \in {disk, mem'}
    PROVE  /\ StateOK' /\ mem'.paused = mem.paused /\ DOMAIN mem'.cells = DOMAIN mem.cells \ S
           /\ \A k \in DOMAIN mem'.cells : mem'.cells[k] = mem.cells[k]
<1>1. IsState(mem) /\ IsState(disk)
    BY DEF StateOK
<1>2. /\ DOMAIN mem' = {"cells", "paused"} /\ mem'.paused = mem.paused
      /\ mem'.cells = Drop(mem.cells, S)
    BY <1>1 DEF IsState
<1>3. /\ DOMAIN mem'.cells = DOMAIN mem.cells \ S
      /\ \A k \in DOMAIN mem'.cells : mem'.cells[k] = mem.cells[k]
    BY <1>2 DEF Drop
<1>4. IsState(mem')
    BY <1>1, <1>2, <1>3 DEF IsState
<1>5. CASE disk' = mem'
    <2>1. \A x \in DOMAIN mem'.cells :
            mem'.cells[x].st = "launching" => mem'.cells[x].launch \in Launches
        BY <1>3, MemLaunches
    <2> QED BY <1>2, <1>3, <1>4, <1>5, <2>1, StateSaved
<1>6. CASE disk' = disk
    <2>1. Mirror'
        BY <1>2, <1>3, <1>6 DEF StateOK, Mirror
    <2> QED BY <1>1, <1>2, <1>3, <1>4, <1>6, <2>1 DEF StateOK
<1> QED BY <1>5, <1>6

LEMMA DroppedSafe ==
    ASSUME StateOK, StateOK', ~raced, AliveTracked, CapKept, Alive' = Alive,
           DOMAIN mem'.cells \subseteq DOMAIN mem.cells,
           \A k \in DOMAIN mem'.cells : mem'.cells[k] = mem.cells[k],
           \A k \in DOMAIN mem.cells \ DOMAIN mem'.cells : NoVm(k),
           disk' \in {disk, mem'}
    PROVE  AliveTracked' /\ CapKept'
<1>1. AliveTracked'
    BY TrackedKept
<1>2. DiskLaunching' \subseteq DiskLaunching
    <2>1. CASE disk' = disk
        BY <2>1 DEF DiskLaunching
    <2>2. CASE disk' = mem'
        <3>1. DiskLaunching' \subseteq Launching
            BY <2>2 DEF DiskLaunching, Launching
        <3> QED BY <3>1, LaunchingFinite
    <2> QED BY <2>1, <2>2
<1> QED BY <1>1, <1>2, BudgetKept

LEMMA ForgetKeeps ==
    ASSUME IInv, NEW a \in Actors, Forget(a)
    PROVE  IInv'
<1>0. PICK t : t = Head(work[a])
    OBVIOUS
<1>1. /\ work[a] # <<>> /\ t.op \in {"forget", "drop_cell"} /\ t \in GoodTasks
      /\ ~raced => NoVm(t.k)
    BY <1>0, Knows, AtHead, NoVmHead DEF Forget
<1>2. IncusOK' /\ OthersOK' /\ LeftOK' /\ Alive' = Alive /\ raced' = raced
    BY Knows, Kept DEF process, Forget
<1>3. mem' = [mem EXCEPT !.cells = Drop(@, {t.k})] /\ disk' \in {disk, mem'} /\ Pop(a)
    BY <1>0 DEF Forget
<1>4. /\ StateOK' /\ mem'.paused = mem.paused /\ DOMAIN mem'.cells = DOMAIN mem.cells \ {t.k}
      /\ \A k \in DOMAIN mem'.cells : mem'.cells[k] = mem.cells[k]
    BY <1>3, Knows, CellsDropped
<1>5. ~raced => AliveTracked' /\ CapKept' /\ Names(t.k) \cap Alive' = {}
    BY <1>1, <1>2, <1>3, <1>4, Knows, DroppedSafe DEF NoVm
<1>6. t.op \notin PowerOps /\ t.op # "unpause"
    BY <1>1 DEF PowerOps
<1> QED BY <1>0, <1>1, <1>2, <1>3, <1>4, <1>5, <1>6, StepPopped

-----------------------------------------------------------------------------
(* gc and the sweeps. *)

LEMMA ListTaskSafe ==
    ASSUME NEW u, u.op \in GcOps \cup SweepOps
    PROVE  HeadSafe(u)
BY DEF GcOps, SweepOps, HeadSafe

LEMMA TrackedThings ==
    ASSUME StateOK
    PROVE  Tracked(mem) \subseteq Things
<1>1. ASSUME NEW k \in DOMAIN mem.cells
      PROVE  Instances(k, mem.cells[k]) \subseteq AllNames /\ mem.cells[k].cid \in Cids \cup {None}
    BY MemLaunches, NamesApart DEF Instances, Stages
<1>2. ASSUME NEW x \in Tracked(mem)
      PROVE  x \in AllNames \cup Cids
    <2>1. \/ \E k \in DOMAIN mem.cells : x \in Instances(k, mem.cells[k])
          \/ x # None /\ \E k \in DOMAIN mem.cells : x = mem.cells[k].cid
        <3>1. \/ x \in UNION {Instances(k, mem.cells[k]) : k \in DOMAIN mem.cells}
              \/ x \in {mem.cells[k].cid : k \in DOMAIN mem.cells} /\ x # None
            BY DEF Tracked
        <3> QED BY <3>1
    <2> QED BY <1>1, <2>1
<1> QED BY <1>2 DEF Things

(* A task of gc: what it lists and what it keeps.                             *)
LEMMA GcTask ==
    ASSUME NEW t \in GoodTasks, t.op \in GcOps, NEW op \in GcOps,
           NEW S \in SUBSET Things, NEW K \in SUBSET Things
    PROVE  /\ [t EXCEPT !.op = op, !.todo = S, !.keep = K] \in GoodTasks
           /\ Family(t.op, op)
<1>1. op \notin CellOps /\ op \notin {"poll", "up", "launch", "sweep_next", "sweep_cluster"}
    BY DEF GcOps, CellOps, BuildOps, DestroyOps, DropOps, PowerOps
<1>2. [t EXCEPT !.op = op, !.todo = S, !.keep = K] \in GoodTasks
    BY <1>1 DEF GoodTasks
<1> QED BY <1>2 DEF Family

LEMMA GcStep ==
    ASSUME IInv, NEW a \in Actors, work[a] # <<>>, Head(work[a]).op \in GcOps,
           NEW op \in GcOps, NEW S \in SUBSET Things, NEW K \in SUBSET Things,
           Then(a, [Head(work[a]) EXCEPT !.op = op, !.todo = S, !.keep = K]),
           UNCHANGED state, IncusOK', OthersOK', LeftOK', raced' = raced, Alive' \subseteq Alive
    PROVE  IInv'
<1>1. PICK t : t = Head(work[a])
    OBVIOUS
<1>2. t \in GoodTasks /\ t.op \in GcOps
    BY <1>1, Knows
<1>3. PICK u : u = [t EXCEPT !.op = op, !.todo = S, !.keep = K]
    OBVIOUS
<1>4. u \in GoodTasks /\ u.op = op /\ u.k = t.k /\ Family(t.op, op)
    <2>1. u \in GoodTasks /\ Family(t.op, op)
        BY <1>2, <1>3, GcTask
    <2>2. u.op = op /\ u.k = t.k
        BY <1>2, <1>3 DEF GoodTasks
    <2> QED BY <2>1, <2>2
<1>5. HeadSafe(u)
    BY <1>4, ListTaskSafe
<1> QED BY <1>1, <1>3, <1>4, <1>5, SameReplaced

LEMMA GcPopped ==
    ASSUME IInv, NEW a \in Actors, work[a] # <<>>, Head(work[a]).op \in GcOps \cup SweepOps, Pop(a),
           UNCHANGED state, IncusOK', OthersOK', LeftOK', raced' = raced, Alive' \subseteq Alive
    PROVE  IInv'
<1>1. Head(work[a]).op \notin PowerOps \cup {"unpause"} /\ Head(work[a]).op \notin DestroyOps
    BY DEF PowerOps, DestroyOps, GcOps, SweepOps
<1> QED BY <1>1, SamePopped

LEMMA GcKeeps ==
    ASSUME IInv, NEW a \in Actors, Gc(a)
    PROVE  IInv'
<1>1. work[a] # <<>> /\ Head(work[a]).op = "gc" /\ Head(work[a]) \in GoodTasks
    BY Knows, AtHead DEF Gc
<1>2. IncusOK' /\ OthersOK' /\ LeftOK' /\ Alive' = Alive /\ UNCHANGED state /\ raced' = raced
    BY Knows, Kept DEF process, Gc
<1>3. CASE Pop(a)
    BY <1>1, <1>2, <1>3, GcPopped DEF GcOps
<1>4. CASE Then(a, [Head(work[a]) EXCEPT !.op = "gc_list_vms", !.keep = Tracked(mem)])
    <2>1. PICK S, K : S = Head(work[a]).todo /\ K = Tracked(mem)
        OBVIOUS
    <2>2. S \in SUBSET Things /\ K \in SUBSET Things
        BY <1>1, <2>1, Knows, TrackedThings DEF GoodTasks
    <2>3. [Head(work[a]) EXCEPT !.op = "gc_list_vms", !.todo = S, !.keep = K]
            = [Head(work[a]) EXCEPT !.op = "gc_list_vms", !.keep = Tracked(mem)]
        BY <1>1, <2>1 DEF GoodTasks
    <2> QED BY <1>1, <1>2, <1>4, <2>2, <2>3, GcStep DEF GcOps
<1> QED BY <1>3, <1>4 DEF Gc

LEMMA GcListKeeps ==
    ASSUME IInv, NEW a \in Actors, GcList(a)
    PROVE  IInv'
<1>0. PICK t : t = Head(work[a])
    OBVIOUS
<1>1. PICK ok \in BOOLEAN :
        /\ Answers(ok)
        /\ \/ /\ At(a, "gc_list_vms")
              /\ Then(a, [t EXCEPT !.op = "gc_list_clusters", !.todo = DOMAIN vms \ t.keep])
           \/ /\ At(a, "gc_list_clusters")
              /\ Then(a, [t EXCEPT !.op = "gc_sweep", !.keep = DOMAIN clusters,
                                   !.todo = @ \cup (DOMAIN clusters \ t.keep)])
           \/ (At(a, "gc_list_vms") \/ At(a, "gc_list_clusters")) /\ Pop(a)
    BY <1>0 DEF GcList
<1>2. work[a] # <<>> /\ t.op \in GcOps /\ t \in GoodTasks
    BY <1>0, <1>1, Knows, AtHead DEF GcOps
<1>3. IncusOK' /\ OthersOK' /\ LeftOK' /\ Alive' = Alive /\ UNCHANGED state /\ raced' = raced
    BY <1>1, Knows, Kept, AnswersLeft DEF process, GcList
<1>4. DOMAIN vms \subseteq Things /\ DOMAIN clusters \subseteq Things /\ t.todo \subseteq Things
      /\ t.keep \subseteq Things
    BY <1>2, Knows DEF IncusOK, MgmtOK, Things, GoodTasks
<1>5. CASE Then(a, [t EXCEPT !.op = "gc_list_clusters", !.todo = DOMAIN vms \ t.keep])
    <2>1. PICK S, K : S = DOMAIN vms \ t.keep /\ K = t.keep
        OBVIOUS
    <2>2. S \in SUBSET Things /\ K \in SUBSET Things
        BY <1>4, <2>1
    <2>3. [t EXCEPT !.op = "gc_list_clusters", !.todo = S, !.keep = K]
            = [t EXCEPT !.op = "gc_list_clusters", !.todo = DOMAIN vms \ t.keep]
        BY <1>2, <2>1 DEF GoodTasks
    <2> QED BY <1>0, <1>2, <1>3, <1>5, <2>2, <2>3, GcStep, ZenonT(60) DEF GcOps
<1>6. CASE Then(a, [t EXCEPT !.op = "gc_sweep", !.keep = DOMAIN clusters,
                             !.todo = @ \cup (DOMAIN clusters \ t.keep)])
    <2>1. PICK S, K : S = t.todo \cup (DOMAIN clusters \ t.keep) /\ K = DOMAIN clusters
        OBVIOUS
    <2>2. S \in SUBSET Things /\ K \in SUBSET Things
        BY <1>4, <2>1
    <2>3. [t EXCEPT !.op = "gc_sweep", !.todo = S, !.keep = K]
            = [t EXCEPT !.op = "gc_sweep", !.keep = DOMAIN clusters,
                        !.todo = @ \cup (DOMAIN clusters \ t.keep)]
        BY <1>2, <2>1 DEF GoodTasks
    <2>4. "gc_sweep" \in GcOps /\ Then(a, [t EXCEPT !.op = "gc_sweep", !.todo = S, !.keep = K])
        BY <1>6, <2>3 DEF GcOps
    <2> QED BY <1>0, <1>2, <1>3, <2>2, <2>4, GcStep
<1>7. CASE Pop(a)
    BY <1>0, <1>2, <1>3, <1>7, GcPopped
<1> QED BY <1>1, <1>5, <1>6, <1>7

LEMMA GcSweepKeeps ==
    ASSUME IInv, NEW a \in Actors, GcSweep(a)
    PROVE  IInv'
<1>0. PICK t : t = Head(work[a])
    OBVIOUS
<1>1. work[a] # <<>> /\ t.op = "gc_sweep" /\ t \in GoodTasks
    BY <1>0, Knows, AtHead DEF GcSweep
<1>2. PICK x \in t.todo, ok \in BOOLEAN :
        /\ \/ DeleteVm({x}, ok) /\ UNCHANGED mgmt
           \/ DeleteCluster(x, ok) /\ UNCHANGED incus
        /\ Then(a, [t EXCEPT !.todo = @ \ {x}])
    BY <1>0 DEF GcSweep
<1>3. IncusOK' /\ MgmtOK' /\ LeftOK' /\ Alive' \subseteq Alive
    BY <1>2, Knows, Kept, DeletedVm, DeletedCluster
<1>4. OthersOK' /\ UNCHANGED state /\ raced' = raced
    BY <1>3, Knows DEF process, GcSweep, OthersOK, ReportsOK, reports
<1>5. PICK S, K : S = t.todo \ {x} /\ K = t.keep
    OBVIOUS
<1>6. S \in SUBSET Things /\ K \in SUBSET Things
    BY <1>1, <1>5 DEF GoodTasks
<1>7. [t EXCEPT !.op = "gc_sweep", !.todo = S, !.keep = K] = [t EXCEPT !.todo = @ \ {x}]
    BY <1>1, <1>5 DEF GoodTasks
<1> QED BY <1>0, <1>1, <1>2, <1>3, <1>4, <1>6, <1>7, GcStep, ZenonT(60) DEF GcOps

(* A task of the sweep: the clusters it has still to delete.                  *)
LEMMA SweepTask ==
    ASSUME NEW t \in GoodTasks, t.op \in SweepOps, NEW op \in SweepOps,
           NEW S \in SUBSET (Cids \X Cells), NEW c \in Cids \cup {None}
    PROVE  /\ [t EXCEPT !.op = op, !.cid = c, !.todo = S] \in GoodTasks
           /\ Family(t.op, op)
<1>1. op \notin CellOps /\ op \notin {"poll", "up", "launch"}
    BY DEF SweepOps, CellOps, BuildOps, DestroyOps, DropOps, PowerOps
<1>2. S \subseteq Things
    BY DEF Things
<1>3. [t EXCEPT !.op = op, !.cid = c, !.todo = S] \in GoodTasks
    BY <1>1, <1>2 DEF GoodTasks
<1> QED BY <1>3 DEF Family

LEMMA SweepStep ==
    ASSUME IInv, NEW a \in Actors, work[a] # <<>>, Head(work[a]).op \in SweepOps,
           NEW op \in SweepOps, NEW S \in SUBSET (Cids \X Cells), NEW c \in Cids \cup {None},
           Then(a, [Head(work[a]) EXCEPT !.op = op, !.cid = c, !.todo = S]),
           UNCHANGED state, IncusOK', OthersOK', LeftOK', raced' = raced, Alive' \subseteq Alive
    PROVE  IInv'
<1>1. PICK t : t = Head(work[a])
    OBVIOUS
<1>2. t \in GoodTasks /\ t.op \in SweepOps
    BY <1>1, Knows
<1>3. PICK u : u = [t EXCEPT !.op = op, !.cid = c, !.todo = S]
    OBVIOUS
<1>4. u \in GoodTasks /\ u.op = op /\ u.k = t.k /\ Family(t.op, op)
    <2>1. u \in GoodTasks /\ Family(t.op, op)
        BY <1>2, <1>3, SweepTask
    <2>2. u.op = op /\ u.k = t.k
        BY <1>2, <1>3 DEF GoodTasks
    <2> QED BY <2>1, <2>2
<1>5. HeadSafe(u)
    BY <1>4, ListTaskSafe
<1> QED BY <1>1, <1>3, <1>4, <1>5, SameReplaced

LEMMA SweepKeeps ==
    ASSUME IInv, NEW a \in Actors, Sweep(a)
    PROVE  IInv'
<1>0. PICK t : t = Head(work[a])
    OBVIOUS
<1>1. work[a] # <<>> /\ t.op = "sweep" /\ t \in GoodTasks /\ t.op \in SweepOps
    BY <1>0, Knows, AtHead DEF Sweep, SweepOps
<1>2. PICK ok \in BOOLEAN :
        /\ Answers(ok)
        /\ \/ Then(a, [t EXCEPT !.op = "sweep_next",
                                !.todo = {<<c, clusters[c]>> : c \in DOMAIN clusters}])
           \/ Pop(a)
    BY <1>0 DEF Sweep
<1>3. IncusOK' /\ OthersOK' /\ LeftOK' /\ Alive' = Alive /\ UNCHANGED state /\ raced' = raced
    BY <1>2, Knows, Kept, AnswersLeft DEF process, Sweep
<1>4. CASE Pop(a)
    BY <1>0, <1>1, <1>3, <1>4, GcPopped
<1>5. CASE Then(a, [t EXCEPT !.op = "sweep_next",
                             !.todo = {<<c, clusters[c]>> : c \in DOMAIN clusters}])
    <2>1. PICK S : S = {<<c, clusters[c]>> : c \in DOMAIN clusters}
        OBVIOUS
    <2>2. S \in SUBSET (Cids \X Cells)
        BY <2>1, Knows DEF MgmtOK
    <2>3. PICK c : c = t.cid
        OBVIOUS
    <2>4. c \in Cids \cup {None}
        BY <1>1, <2>3 DEF GoodTasks
    <2>5. [t EXCEPT !.op = "sweep_next", !.cid = c, !.todo = S]
            = [t EXCEPT !.op = "sweep_next", !.todo = S]
        BY <1>1, <2>3 DEF GoodTasks
    <2>6. Then(a, [t EXCEPT !.op = "sweep_next", !.cid = c, !.todo = S])
        BY <1>5, <2>1, <2>5
    <2> QED BY <1>0, <1>1, <1>3, <2>2, <2>4, <2>6, SweepStep DEF SweepOps
<1> QED BY <1>2, <1>4, <1>5

LEMMA SweepVmKeeps ==
    ASSUME IInv, NEW a \in Actors, SweepVm(a)
    PROVE  IInv'
<1>0. PICK t : t = Head(work[a])
    OBVIOUS
<1>1. /\ work[a] # <<>> /\ t.op = "sweep_next" /\ t \in GoodTasks /\ t.op \in SweepOps
      /\ t.todo \subseteq Cids \X Cells
    BY <1>0, Knows, AtHead DEF SweepVm, SweepOps, GoodTasks
<1>2. OthersOK' /\ UNCHANGED state /\ raced' = raced
    BY Knows, Kept DEF process, SweepVm
<1>3. CASE Pop(a) /\ UNCHANGED <<incus, left>>
    <2>1. IncusOK' /\ LeftOK' /\ Alive' = Alive
        BY <1>3, Knows, Kept
    <2> QED BY <1>0, <1>1, <1>2, <1>3, <2>1, GcPopped
<1>4. PICK row : row = CHOOSE x \in t.todo : TRUE
    OBVIOUS
<1>5. CASE /\ t.todo # {} /\ \E ok \in BOOLEAN : DeleteVm(BaseName(row[2]), ok)
           /\ Then(a, [t EXCEPT !.op = "sweep_cluster", !.cid = row[1], !.todo = @ \ {row}])
    <2>1. IncusOK' /\ LeftOK' /\ Alive' \subseteq Alive
        BY <1>5, Knows, DeletedVm
    <2>2. row \in t.todo
        BY <1>4, <1>5
    <2>3. PICK S, c : S = t.todo \ {row} /\ c = row[1]
        OBVIOUS
    <2>4. S \in SUBSET (Cids \X Cells) /\ c \in Cids \cup {None}
        BY <1>1, <2>2, <2>3
    <2>5. [t EXCEPT !.op = "sweep_cluster", !.cid = c, !.todo = S]
            = [t EXCEPT !.op = "sweep_cluster", !.cid = row[1], !.todo = @ \ {row}]
        BY <1>1, <2>3 DEF GoodTasks
    <2>6. Then(a, [t EXCEPT !.op = "sweep_cluster", !.cid = c, !.todo = S])
        BY <1>5, <2>5
    <2> QED BY <1>0, <1>1, <1>2, <2>1, <2>4, <2>6, SweepStep DEF SweepOps
<1> QED BY <1>0, <1>3, <1>4, <1>5, Zenon DEF SweepVm

LEMMA SweepClusterKeeps ==
    ASSUME IInv, NEW a \in Actors, SweepCluster(a)
    PROVE  IInv'
<1>0. PICK t : t = Head(work[a])
    OBVIOUS
<1>1. /\ work[a] # <<>> /\ t.op = "sweep_cluster" /\ t \in GoodTasks /\ t.op \in SweepOps
      /\ t.todo \subseteq Cids \X Cells
    BY <1>0, Knows, AtHead DEF SweepCluster, SweepOps, GoodTasks
<1>2. MgmtOK' /\ LeftOK'
    BY Knows, DeletedCluster DEF SweepCluster
<1>3. IncusOK' /\ Alive' = Alive /\ OthersOK' /\ UNCHANGED state /\ raced' = raced
    BY <1>2, Knows, Kept DEF process, SweepCluster, OthersOK, ReportsOK, reports
<1>4. PICK S, c : S = t.todo /\ c = t.cid
    OBVIOUS
<1>5. S \in SUBSET (Cids \X Cells) /\ c \in Cids \cup {None}
    BY <1>1, <1>4 DEF GoodTasks
<1>6. [t EXCEPT !.op = "sweep_next", !.cid = c, !.todo = S] = [t EXCEPT !.op = "sweep_next"]
    BY <1>1, <1>4 DEF GoodTasks
<1>7. Then(a, [t EXCEPT !.op = "sweep_next", !.cid = c, !.todo = S])
    BY <1>0, <1>6 DEF SweepCluster
<1> QED BY <1>0, <1>1, <1>2, <1>3, <1>5, <1>7, SweepStep DEF SweepOps

LEMMA DropGroupKeeps ==
    ASSUME IInv, NEW a \in Actors, DropGroup(a)
    PROVE  IInv'
<1>1. work[a] # <<>> /\ Head(work[a]).op = "drop_group"
    BY AtHead DEF DropGroup
<1>2. LeftOK'
    BY Knows, AnswersLeft DEF DropGroup
<1>3. MgmtOK'
    <2>1. clusters' = clusters
        BY DEF DropGroup
    <2>2. CASE group' = [id |-> None, members |-> {}]
        BY <2>1, <2>2, Knows DEF MgmtOK
    <2>3. CASE group' = group
        BY <2>1, <2>3, Knows DEF MgmtOK
    <2> QED BY <2>2, <2>3 DEF DropGroup
<1>4. IncusOK' /\ Alive' = Alive /\ OthersOK' /\ UNCHANGED state /\ raced' = raced /\ Pop(a)
    BY <1>3, Knows, Kept DEF process, DropGroup, OthersOK, ReportsOK, reports
<1> QED BY <1>1, <1>2, <1>4, GcPopped DEF SweepOps

-----------------------------------------------------------------------------
(* Writing the state. *)

(* The state is saved with the cells it has.                                  *)
LEMMA SavedSafe ==
    ASSUME StateOK, DOMAIN mem' = {"cells", "paused"}, mem'.paused \in BOOLEAN,
           mem'.cells = mem.cells, disk' = mem', Alive' = Alive
    PROVE  StateOK' /\ (~raced /\ AliveTracked /\ CapKept => AliveTracked' /\ CapKept')
<1>1. IsState(mem')
    BY DEF StateOK, IsState
<1>2. StateOK'
    BY <1>1, MemLaunches, StateSaved
<1>3. ASSUME ~raced, AliveTracked, CapKept
      PROVE  AliveTracked' /\ CapKept'
    BY <1>2, <1>3, DroppedSafe
<1> QED BY <1>2, <1>3

(* The head of the sequence is the first of its tasks.                        *)
LEMMA FirstTask ==
    ASSUME IInv, NEW a \in Actors, work[a] # <<>>, ~raced
    PROVE  /\ Head(work[a]).op = "reset" => NoVm(Head(work[a]).k)
           /\ Head(work[a]).op = "clear" => DOMAIN mem.cells = {}
           /\ Head(work[a]).op \in BuildOps => ~mem.paused
<1> DEFINE w == work[a]
<1>1. w \in Seq(GoodTasks) /\ ResetSafe(w) /\ ClearSafe(w) /\ PauseSafe(w)
    BY Knows DEF WorkOK, SafeFor
<1> HIDE DEF w
<1>2. Len(w) \in Nat /\ 1 \in 1 .. Len(w) /\ Head(w) = w[1]
    BY <1>1, PoppedSeq DEF w
<1>3. w[1].op = "reset" => NoVm(w[1].k)
    BY <1>1, <1>2 DEF ResetSafe
<1>4. ASSUME w[1].op = "clear"
      PROVE  DOMAIN mem.cells = {}
    <2>1. \A k \in DOMAIN mem.cells :
            \E j \in 1 .. 1 - 1 : w[j].op \in DestroyOps /\ w[j].k = k
        BY <1>1, <1>2, <1>4 DEF ClearSafe
    <2> QED BY <2>1
<1>5. w[1].op \in BuildOps => ~mem.paused
    BY <1>1, <1>2 DEF PauseSafe, BuildOps
<1> QED BY <1>2, <1>3, <1>4, <1>5 DEF w

LEMMA SetStateKeeps ==
    ASSUME IInv, NEW a \in Actors, SetState(a)
    PROVE  IInv'
<1>0. PICK t : t = Head(work[a])
    OBVIOUS
<1>1. /\ work[a] # <<>> /\ t \in GoodTasks
      /\ t.op \in {"pause", "unpause", "reset", "clear", "save"}
    BY <1>0, Knows, AtHead DEF SetState
<1>2. IncusOK' /\ OthersOK' /\ LeftOK' /\ Alive' = Alive /\ raced' = raced /\ Pop(a)
    BY Knows, Kept DEF process, SetState
<1>3. t.op \notin PowerOps \cup DestroyOps
    BY <1>1 DEF PowerOps, DestroyOps
<1>4. DOMAIN mem = {"cells", "paused"} /\ mem.paused \in BOOLEAN
    BY Knows DEF StateOK, IsState
<1>5. ASSUME NEW p \in BOOLEAN, SetPaused(p), t.op # "pause" => ~p
      PROVE  IInv'
    <2>1. DOMAIN mem' = {"cells", "paused"} /\ mem'.paused = p /\ mem'.cells = mem.cells
        BY <1>4, <1>5 DEF SetPaused
    <2>2. StateOK' /\ (~raced => AliveTracked' /\ CapKept')
        BY <1>2, <1>5, <2>1, Knows, SavedSafe DEF SetPaused
    <2>3. DOMAIN mem'.cells = DOMAIN mem.cells
        BY <2>1
    <2>4. t.op # "pause" => ~mem'.paused
        BY <1>5, <2>1
    <2> QED BY <1>0, <1>1, <1>2, <1>3, <2>2, <2>3, <2>4, StepPopped
<1>6. CASE t.op = "reset" /\ Persist(t.k, Pending)
    <2>1. t.k \in Cells /\ Pending \in Stages /\ Pending.st = "pending"
        BY <1>1, <1>6 DEF GoodTasks, CellOps, Pending, Stage, Stages
    <2>2. StateOK' /\ mem'.paused = mem.paused
        BY <1>6, <2>1, Knows, Persisted
    <2>3. ~raced => AliveTracked' /\ CapKept'
        BY <1>0, <1>1, <1>2, <1>6, <2>1, Knows, FirstTask, PersistSafe
    <2>4. t.op \notin QuietOps
        BY <1>6 DEF QuietOps, DestroyOps, SweepOps
    <2> QED BY <1>0, <1>1, <1>2, <1>3, <1>6, <2>2, <2>3, <2>4, StepPopped
<1>7. CASE t.op = "clear" /\ mem' = [mem EXCEPT !.cells = Drop(@, DOMAIN @)] /\ disk' = mem'
    <2>1. PICK S : S = DOMAIN mem.cells
        OBVIOUS
    <2>2. mem' = [mem EXCEPT !.cells = Drop(@, S)]
        BY <1>4, <1>7, <2>1
    <2>3. /\ StateOK' /\ mem'.paused = mem.paused /\ DOMAIN mem'.cells = DOMAIN mem.cells \ S
          /\ \A k \in DOMAIN mem'.cells : mem'.cells[k] = mem.cells[k]
        BY <1>7, <2>2, Knows, CellsDropped
    <2>4. ~raced => DOMAIN mem.cells = {}
        BY <1>0, <1>1, <1>7, FirstTask
    <2>5. ~raced => AliveTracked' /\ CapKept'
        BY <1>2, <1>7, <2>3, <2>4, Knows, DroppedSafe
    <2>6. t.op \notin QuietOps
        BY <1>7 DEF QuietOps, DestroyOps, SweepOps
    <2> QED BY <1>0, <1>1, <1>2, <1>3, <1>7, <2>3, <2>5, <2>6, StepPopped
<1>8. CASE t.op = "save" /\ disk' = mem /\ UNCHANGED mem
    <2>1. StateOK' /\ (~raced => AliveTracked' /\ CapKept')
        BY <1>2, <1>4, <1>8, Knows, SavedSafe
    <2>2. t.op \notin QuietOps
        BY <1>8 DEF QuietOps, DestroyOps, SweepOps
    <2> QED BY <1>0, <1>1, <1>2, <1>3, <1>8, <2>1, <2>2, StepPopped
<1>9. \/ t.op = "pause" /\ SetPaused(TRUE)
      \/ t.op = "unpause" /\ SetPaused(FALSE)
      \/ t.op = "reset" /\ Persist(t.k, Pending)
      \/ t.op = "clear" /\ mem' = [mem EXCEPT !.cells = Drop(@, DOMAIN @)] /\ disk' = mem'
      \/ t.op = "save" /\ disk' = mem /\ UNCHANGED mem
    BY <1>0, AtHead DEF SetState
<1> QED BY <1>5, <1>6, <1>7, <1>8, <1>9

LEMMA StepKeeps ==
    ASSUME IInv, NEW a \in Actors, Step(a)
    PROVE  IInv'
<1>1. CASE \/ Drive(a) \/ ListStray(a) \/ WipeVm(a) \/ WipeCluster(a) \/ CreateCluster(a)
           \/ Created(a) \/ PutConfig(a) \/ Pushed(a) \/ Clean(a) \/ CloudInit(a)
           \/ LaunchVm(a) \/ Poll(a) \/ CameUp(a) \/ TimedOut(a)
    BY <1>1, DriveKeeps, ListStrayKeeps, WipeVmKeeps, WipeClusterKeeps, CreateClusterKeeps,
       CreatedKeeps, PutConfigKeeps, PushedKeeps, CleanKeeps, CloudInitKeeps, LaunchVmKeeps,
       PollKeeps, CameUpKeeps, TimedOutKeeps
<1>2. CASE \/ Reconcile(a) \/ Stale(a) \/ Destroy(a) \/ DestroyVm(a) \/ DestroyCluster(a)
           \/ Forget(a) \/ Gc(a) \/ GcList(a) \/ GcSweep(a) \/ GcReverse(a)
           \/ Sweep(a) \/ SweepVm(a) \/ SweepCluster(a) \/ DropGroup(a) \/ SetState(a)
    BY <1>2, ReconcileKeeps, StaleKeeps, DestroyKeeps, DestroyVmKeeps, DestroyClusterKeeps,
       ForgetKeeps, GcKeeps, GcListKeeps, GcSweepKeeps, GcReverseKeeps, SweepKeeps,
       SweepVmKeeps, SweepClusterKeeps, DropGroupKeeps, SetStateKeeps
<1> QED BY <1>1, <1>2 DEF Step

-----------------------------------------------------------------------------
(* The power of an instance, which concerns no other task. *)

(* Afterwards the chaos loop toggles the power of an instance, or waits.       *)
LEMMA PowerSafe ==
    ASSUME IInv, WorkOK',
           work'["op"] = work["op"], work'["chaos"] # <<>> => Head(work'["chaos"]).op \in PowerOps,
           StateOK', SameCells, Alive' \subseteq Alive, ~raced
    PROVE  Safe'
<1>1. Safe /\ StateOK
    BY Knows DEF Actors
<1>2. AliveTracked' /\ CapKept' /\ Launching' = Launching
    BY <1>1, SameCellsSafe DEF Safe
<1>3. SafeFor("chaos")' /\ ~Reprovisioning'
    <2>1. Idle("chaos")'
        BY DEF Idle
    <2> QED BY <2>1, IdleSafe DEF Actors, Idle, Reprovisioning
<1>4. SafeFor("op")'
    <2>1. SafeFor("op") /\ work'["op"] = work["op"]
        BY <1>1 DEF Safe, Actors
    <2>2. \A k : NoVm(k) => Names(k) \cap Alive' = {}
        BY DEF NoVm
    <2>3. ResetSafe(work["op"])'
        BY <2>1, <2>2 DEF SafeFor, ResetSafe, NoVm, Names
    <2>4. ClearSafe(work["op"])' /\ PauseSafe(work["op"])'
        BY <2>1 DEF SafeFor, ClearSafe, PauseSafe, SameCells
    <2>5. work'["op"] # <<>> => HeadSafe(Head(work["op"]))'
        BY <1>2, <2>1, HeadKept DEF SafeFor
    <2> QED BY <2>3, <2>4, <2>5 DEF SafeFor
<1> QED BY <1>2, <1>3, <1>4 DEF Safe, Actors

LEMMA PowerStep ==
    ASSUME IInv, work["chaos"] # <<>>, Head(work["chaos"]).op \in PowerOps,
           \/ Pop("chaos")
           \/ \E u \in GoodTasks : u.op \in PowerOps /\ Then("chaos", u),
           StateOK', SameCells, IncusOK', OthersOK', LeftOK', raced' = raced, Alive' \subseteq Alive
    PROVE  IInv'
<1>1. WorkOK /\ "chaos" \in Actors /\ "op" \in Actors \ {"chaos"}
    BY Knows DEF Actors
<1>2. /\ WorkOK' /\ work'["op"] = work["op"]
      /\ work'["chaos"] # <<>> => Head(work'["chaos"]).op \in PowerOps
    <2>1. CASE Pop("chaos")
        <3>1. WorkOK' /\ work'["chaos"] = Tail(work["chaos"]) /\ work'["op"] = work["op"]
            BY <1>1, <2>1, WorkPopped
        <3>2. Tail(work["chaos"]) = <<>>
            BY <1>1, LastTask
        <3> QED BY <3>1, <3>2
    <2>2. ASSUME NEW u \in GoodTasks, u.op \in PowerOps, Then("chaos", u)
          PROVE  /\ WorkOK' /\ work'["op"] = work["op"]
                 /\ Head(work'["chaos"]).op \in PowerOps
        <3>1. u.op \notin {"stale", "reconcile"} /\ "chaos" # "op"
            BY <2>2 DEF PowerOps
        <3>2. /\ WorkOK' /\ work'["chaos"] = <<u>> \o Tail(work["chaos"])
              /\ work'["op"] = work["op"]
            BY <1>1, <2>2, <3>1, WorkReplaced
        <3>3. work["chaos"] \in Seq(GoodTasks)
            BY <1>1 DEF WorkOK
        <3>4. Head(work'["chaos"]) = u
            BY <3>2, <3>3, ReplacedSeq
        <3> QED BY <2>2, <3>2, <3>4
    <2> QED BY <2>1, <2>2
<1>3. ~raced => Safe'
    BY <1>2, PowerSafe
<1> QED BY <1>2, <1>3, Parts DEF PartsOK

LEMMA AtPower ==
    ASSUME IInv, NEW op \in PowerOps, At("chaos", op)
    PROVE  /\ work["chaos"] # <<>> /\ Head(work["chaos"]).op \in PowerOps
           /\ Head(work["chaos"]) \in GoodTasks /\ Head(work["chaos"]).k \in Cells
BY Knows, AtHead DEF Actors, GoodTasks, CellOps

LEMMA SameState ==
    ASSUME IInv, UNCHANGED state
    PROVE  StateOK' /\ SameCells
BY Knows, Kept DEF Actors, SameCells, state

LEMMA StatusKeeps ==
    ASSUME IInv, Status
    PROVE  IInv'
<1>0. PICK t : t = Head(work["chaos"])
    OBVIOUS
<1>1. work["chaos"] # <<>> /\ t.op \in PowerOps /\ t \in GoodTasks /\ t.k \in Cells
    BY <1>0, AtPower DEF Status, PowerOps
<1>2. PICK ok \in BOOLEAN, m \in {0, 1} :
        Answers(ok) /\ (Then("chaos", [t EXCEPT !.op = "check", !.n = m]) \/ Pop("chaos"))
    <2>1. PICK n \in t.todo, ok \in BOOLEAN :
            /\ Answers(ok)
            /\ \/ Then("chaos", [t EXCEPT !.op = "check", !.n = IF vms[n].up THEN 1 ELSE 0])
               \/ Pop("chaos")
        BY <1>0 DEF Status
    <2>2. PICK m \in {0, 1} : m = IF vms[n].up THEN 1 ELSE 0
        OBVIOUS
    <2> QED BY <2>1, <2>2
<1>3. IncusOK' /\ OthersOK' /\ LeftOK' /\ Alive' = Alive /\ raced' = raced
    BY <1>2, Knows, Kept, AnswersLeft DEF Actors, process, Status
<1>4. StateOK' /\ SameCells
    BY SameState DEF Status
<1>5. [t EXCEPT !.op = "check", !.n = m] \in GoodTasks /\ [t EXCEPT !.op = "check", !.n = m].op \in PowerOps
    <2>1. m \in Int
        BY <1>2
    <2>2. [t EXCEPT !.op = "check", !.n = m].op = "check"
        BY <1>1 DEF GoodTasks
    <2>3. [t EXCEPT !.op = "check", !.n = m] \in GoodTasks
        BY <1>1, <2>1 DEF GoodTasks, CellOps, PowerOps
    <2> QED BY <2>2, <2>3 DEF PowerOps
<1> QED BY <1>0, <1>1, <1>2, <1>3, <1>4, <1>5, PowerStep

LEMMA StillRunningKeeps ==
    ASSUME IInv, StillRunning
    PROVE  IInv'
<1>0. PICK t : t = Head(work["chaos"])
    OBVIOUS
<1>1. work["chaos"] # <<>> /\ t.op \in PowerOps /\ t \in GoodTasks /\ t.k \in Cells
    BY <1>0, AtPower DEF StillRunning, PowerOps
<1>2. Then("chaos", [t EXCEPT !.op = "power"]) \/ Pop("chaos")
    BY <1>0 DEF StillRunning
<1>3. IncusOK' /\ OthersOK' /\ LeftOK' /\ Alive' = Alive /\ raced' = raced
    BY Knows, Kept DEF Actors, process, StillRunning
<1>4. StateOK' /\ SameCells
    BY SameState DEF StillRunning
<1>5. [t EXCEPT !.op = "power"] \in GoodTasks /\ [t EXCEPT !.op = "power"].op \in PowerOps
    BY <1>1 DEF GoodTasks, CellOps, PowerOps
<1> QED BY <1>0, <1>1, <1>2, <1>3, <1>4, <1>5, PowerStep

LEMMA SetPowerKeeps ==
    ASSUME IInv, SetPower
    PROVE  IInv'
<1>0. PICK t : t = Head(work["chaos"])
    OBVIOUS
<1>1. work["chaos"] # <<>> /\ t.op \in PowerOps /\ t \in GoodTasks /\ t.k \in Cells
    BY <1>0, AtPower DEF SetPower, PowerOps
<1>2. PICK n \in t.todo, ok \in BOOLEAN :
        /\ Answers(ok)
        /\ (n \in DOMAIN vms /\ vms' = [vms EXCEPT ![n].up = (t.n = 0)]) \/ UNCHANGED vms
        /\ Then("chaos", [t EXCEPT !.op = "record"]) \/ Pop("chaos")
    BY <1>0 DEF SetPower
<1>3. OthersOK' /\ LeftOK' /\ raced' = raced /\ leaked' = leaked
    BY <1>2, Knows, Kept, AnswersLeft DEF Actors, process, SetPower
<1>4. IncusOK' /\ Alive' = Alive
    <2>1. CASE UNCHANGED vms
        BY <1>3, <2>1, Knows, Kept DEF Actors, incus
    <2>2. CASE n \in DOMAIN vms /\ vms' = [vms EXCEPT ![n].up = (t.n = 0)]
        <3>1. DOMAIN vms' = DOMAIN vms
            BY <2>2
        <3>2. vms[n] \in [launch: Launches, cid: Cids, up: BOOLEAN]
            BY <2>2, Knows DEF Actors, IncusOK
        <3>3. PICK b \in BOOLEAN : b = (t.n = 0)
            OBVIOUS
        <3>4. vms'[n] \in [launch: Launches, cid: Cids, up: BOOLEAN]
            BY <2>2, <3>2, <3>3
        <3>5. \A x \in DOMAIN vms : x # n => vms'[x] = vms[x]
            BY <2>2
        <3> QED BY <1>3, <3>1, <3>4, <3>5, Knows DEF Actors, IncusOK, Alive
    <2> QED BY <1>2, <2>1, <2>2
<1>5. StateOK' /\ SameCells
    BY SameState DEF SetPower
<1>6. [t EXCEPT !.op = "record"] \in GoodTasks /\ [t EXCEPT !.op = "record"].op \in PowerOps
    BY <1>1 DEF GoodTasks, CellOps, PowerOps
<1> QED BY <1>0, <1>1, <1>2, <1>3, <1>4, <1>5, <1>6, PowerStep

LEMMA RecordSame ==
    ASSUME IInv, RecordPower
    PROVE  StateOK' /\ SameCells /\ disk' = mem'
<1>0. PICK t : t = Head(work["chaos"])
    OBVIOUS
<1>1. work["chaos"] # <<>> /\ t.op \in PowerOps /\ t \in GoodTasks /\ t.k \in Cells
    BY <1>0, AtPower DEF RecordPower, PowerOps
<1>3. StateOK /\ IsState(mem) /\ disk' = mem'
    BY Knows DEF Actors, StateOK, RecordPower
<1>4. CASE t.k \notin DOMAIN mem.cells
    <2>1. mem' = mem
        BY <1>0, <1>4 DEF RecordPower
    <2>2. StateOK'
        BY <1>3, <2>1, MemLaunches, StateSaved
    <2> QED BY <1>3, <2>1, <2>2 DEF SameCells
<1>5. CASE t.k \in DOMAIN mem.cells
    <2>1. PICK O : mem' = [mem EXCEPT !.cells[t.k].off = O] /\ O \subseteq AllNames
        <3>1. PICK o : o = mem.cells[t.k].off
            OBVIOUS
        <3>2. PICK O : O = IF t.n = 1 THEN o \cup (t.todo \cap Instances(t.k, Find(t.k)))
                                      ELSE o \ t.todo
            OBVIOUS
        <3>3. mem' = [mem EXCEPT !.cells[t.k].off = O]
            BY <1>0, <1>3, <1>5, <3>1, <3>2 DEF RecordPower, IsState
        <3>4. o \subseteq AllNames
            BY <1>3, <1>5, <3>1, MemLaunches DEF Stages
        <3>5. Instances(t.k, Find(t.k)) \subseteq AllNames
            BY <1>1, NamesApart DEF Instances
        <3>6. O \subseteq AllNames
            <4>1. CASE t.n = 1
                BY <3>2, <3>4, <3>5, <4>1
            <4>2. CASE t.n # 1
                BY <3>2, <3>4, <4>2
            <4> QED BY <4>1, <4>2
        <3> QED BY <3>3, <3>6
    <2>2. /\ DOMAIN mem' = {"cells", "paused"} /\ mem'.paused = mem.paused
          /\ mem'.cells = [mem.cells EXCEPT ![t.k].off = O]
        BY <1>3, <2>1 DEF IsState
    <2>3. /\ DOMAIN mem'.cells = DOMAIN mem.cells
          /\ \A k \in DOMAIN mem.cells : k # t.k => mem'.cells[k] = mem.cells[k]
          /\ mem'.cells[t.k] = [mem.cells[t.k] EXCEPT !.off = O]
        BY <1>5, <2>2
    <2>4. mem.cells[t.k] \in Stages
        BY <1>3, <1>5, MemLaunches
    <2>5. /\ mem'.cells[t.k] \in Stages /\ mem'.cells[t.k].st = mem.cells[t.k].st
          /\ mem'.cells[t.k].launch = mem.cells[t.k].launch
        BY <2>1, <2>3, <2>4 DEF Stages
    <2>6. IsState(mem')
        BY <1>3, <2>2, <2>3, <2>5 DEF IsState
    <2>7. \A k \in DOMAIN mem'.cells :
            mem'.cells[k].st = "launching" => mem'.cells[k].launch \in Launches
        BY <1>3, <2>3, <2>5, MemLaunches
    <2>8. StateOK'
        BY <1>3, <2>6, <2>7, StateSaved
    <2>9. SameCells
        BY <1>3, <2>2, <2>3, <2>5 DEF SameCells
    <2> QED BY <1>3, <2>8, <2>9
<1> QED BY <1>4, <1>5

LEMMA RecordPowerKeeps ==
    ASSUME IInv, RecordPower
    PROVE  IInv'
<1>0. PICK t : t = Head(work["chaos"])
    OBVIOUS
<1>1. work["chaos"] # <<>> /\ t.op \in PowerOps
    BY <1>0, AtPower DEF RecordPower, PowerOps
<1>2. IncusOK' /\ OthersOK' /\ LeftOK' /\ Alive' = Alive /\ raced' = raced /\ Pop("chaos")
    BY Knows, Kept DEF Actors, process, RecordPower
<1> QED BY <1>0, <1>1, <1>2, RecordSame, PowerStep

-----------------------------------------------------------------------------
(* Operations begin. *)

LEMMA NoneTask ==
    ASSUME NEW op \in {"reconcile", "gc", "pause", "unpause", "sweep", "drop_group", "clear"}
    PROVE  Task(op, None) \in GoodTasks /\ Task(op, None).op = op
<1>1. op \notin CellOps /\ op \in OpNames /\ op # "launch"
    BY DEF CellOps, BuildOps, DestroyOps, DropOps, PowerOps, OpNames, StartOps
<1> QED BY <1>1, TaskGood, TaskFields

LEMMA ReprovisionIs ==
    ASSUME NEW k \in Cells
    PROVE  LET v == ReprovisionTasks(k) IN
           /\ v \in Seq(GoodTasks) /\ Len(v) = 4 /\ v # <<>> /\ Head(v) = v[1]
           /\ v[1].op = "unpause" /\ v[2].op = "destroy" /\ v[3].op = "reset" /\ v[4].op = "drive"
           /\ v[2].k = k /\ v[3].k = k
           /\ Shape(v)
<1>1. PICK t1, t2, t3, t4 :
        /\ t1 = Task("unpause", None) /\ t2 = Task("destroy", k)
        /\ t3 = Task("reset", k) /\ t4 = DriveTask(k)
    OBVIOUS
<1>2. t1 \in GoodTasks /\ t1.op = "unpause"
    BY <1>1, NoneTask
<1>3. /\ t2 \in GoodTasks /\ t3 \in GoodTasks
      /\ t2.op = "destroy" /\ t3.op = "reset" /\ t2.k = k /\ t3.k = k
    <2>1. "destroy" \in OpNames /\ "reset" \in OpNames
        BY DEF OpNames, StartOps
    <2> QED BY <1>1, <2>1, TaskGood, TaskFields
<1>4. t4 \in GoodTasks /\ t4.op = "drive"
    BY <1>1, DriveTaskItself
<1>5. PICK v : v = <<t1, t2, t3, t4>>
    OBVIOUS
<1>6. /\ v \in Seq(GoodTasks) /\ Len(v) = 4 /\ v # <<>> /\ Head(v) = v[1]
      /\ v[1] = t1 /\ v[2] = t2 /\ v[3] = t3 /\ v[4] = t4
    BY <1>2, <1>3, <1>4, <1>5
<1>7. \A i \in 1 .. Len(v) : v[i].op \in {"unpause", "destroy", "reset", "drive"}
    <2>1. \A i \in 1 .. Len(v) : i = 1 \/ i = 2 \/ i = 3 \/ i = 4
        BY <1>6
    <2> QED BY <1>2, <1>3, <1>4, <1>6, <2>1
<1>8. \A i \in 1 .. Len(v) :
        /\ v[i].op \in StartOps
        /\ v[i].op \notin GcOps \cup PowerOps \cup {"reconcile"} /\ v[i].op # "stale"
    BY <1>7 DEF StartOps, GcOps, PowerOps
<1>9. Shape(v)
    BY <1>6, <1>8 DEF Shape
<1>10. v = ReprovisionTasks(k)
    BY <1>1, <1>5 DEF ReprovisionTasks
<1> QED BY <1>2, <1>3, <1>4, <1>6, <1>9, <1>10

LEMMA ReprovisionSafe ==
    ASSUME NEW k \in Cells, NEW a \in Actors, work'[a] = ReprovisionTasks(k)
    PROVE  SafeFor(a)'
<1>1. PICK v : v = ReprovisionTasks(k)
    OBVIOUS
<1>2. /\ v \in Seq(GoodTasks) /\ Len(v) = 4 /\ v # <<>> /\ Head(v) = v[1]
      /\ v[1].op = "unpause" /\ v[2].op = "destroy" /\ v[3].op = "reset" /\ v[4].op = "drive"
      /\ v[2].k = k /\ v[3].k = k /\ Shape(v)
    BY <1>1, ReprovisionIs
<1>3. work'[a] = v
    BY <1>1
<1>4. \A i \in 1 .. Len(v) : i = 1 \/ i = 2 \/ i = 3 \/ i = 4
    BY <1>2
<1>5. \A i \in 1 .. Len(v) : /\ v[i].op \notin {"clear", "pause"}
                             /\ v[i].op = "reset" => i = 3
    BY <1>2, <1>4
<1>6. ResetSafe(work[a])'
    BY <1>2, <1>3, <1>5 DEF ResetSafe
<1>7. ClearSafe(work[a])' /\ PauseSafe(work[a])'
    BY <1>2, <1>3, <1>5 DEF ClearSafe, PauseSafe
<1>8. HeadSafe(Head(work[a]))'
    BY <1>2, <1>3, StartSafe DEF StartOps
<1> QED BY <1>6, <1>7, <1>8 DEF SafeFor

LEMMA BeginKeeps ==
    ASSUME IInv, NEW v \in Seq(GoodTasks), Shape(v), v # <<>>, v[1].op \in StartOps, Begin(v),
           LeftOK', WorkOK' /\ work'["op"] = v /\ mem' = mem => SafeFor("op")'
    PROVE  IInv'
<1>1. /\ StateOK' /\ IncusOK' /\ OthersOK' /\ Alive' = Alive /\ UNCHANGED state /\ mem' = mem
      /\ StateOK
    BY Knows, Kept DEF Actors, Begin, state
<1>2. Head(v).op \notin PowerOps
    BY PoppedSeq, PowerIsNoStart
<1>3. "op" \in Actors /\ "chaos" \in Actors \ {"op"} /\ WorkOK
    BY Knows DEF Actors
<1>4. WorkOK' /\ work'["op"] = v /\ work'["chaos"] = work["chaos"]
    BY <1>2, <1>3, WorkSet DEF Begin
<1>5. ASSUME ~raced'
      PROVE  Safe'
    <2>1. ~raced /\ Idle("chaos")
        BY <1>5 DEF Begin, Reprovisioning, Idle
    <2>2. AliveTracked' /\ CapKept'
        BY <1>1, <1>3, <2>1, Knows, SameStateSafe
    <2>3. Idle("chaos")' /\ ~Reprovisioning'
        BY <1>4, <2>1 DEF Idle, Reprovisioning
    <2>4. SafeFor("chaos")' /\ SafeFor("op")'
        BY <1>1, <1>3, <1>4, <2>3, IdleSafe
    <2> QED BY <2>2, <2>3, <2>4 DEF Safe, Actors
<1> QED BY <1>1, <1>4, <1>5, Parts DEF PartsOK

(* An operation of one task that builds, resets, clears and pauses nothing.    *)
LEMMA BeginOne ==
    ASSUME IInv, NEW op \in {"reconcile", "gc", "unpause"}, Begin(<<Task(op, None)>>), LeftOK'
    PROVE  IInv'
<1>1. PICK g : g = Task(op, None)
    OBVIOUS
<1>2. g \in GoodTasks /\ g.op = op
    BY <1>1, NoneTask
<1>3. PICK v : v = <<g>>
    OBVIOUS
<1>4. /\ v \in Seq(GoodTasks) /\ Shape(v) /\ v # <<>> /\ v[1] = g
      /\ \A j \in 1 .. Len(v) : v[j] = g
    BY <1>2, <1>3, OneTask DEF StartOps
<1>5. /\ op \in StartOps \ {"reset", "clear", "pause"} /\ op \notin BuildOps
    BY DEF StartOps, BuildOps
<1>6. Begin(v)
    BY <1>1, <1>3
<1>7. ASSUME WorkOK', work'["op"] = v, mem' = mem
      PROVE  SafeFor("op")'
    BY <1>2, <1>4, <1>5, <1>7, SafePlain DEF Actors
<1> QED BY <1>2, <1>4, <1>5, <1>6, <1>7, BeginKeeps

(* Every cell is destroyed before anything is cleared.                        *)
LEMMA TeardownSafe ==
    ASSUME NEW a \in Actors, NEW y \in Seq(GoodTasks), Shape(y), y # <<>>,
           \A i \in 1 .. Len(y) :
             /\ y[i].op \in StartOps \ {"reset"} /\ y[i].op \notin BuildOps
             /\ y[i].op = "clear" => \A j \in 1 .. i - 1 : y[j].op \in QuietOps,
           DOMAIN mem.cells \subseteq Cells, mem' = mem,
           work'[a] = ForEach("destroy", DOMAIN mem.cells) \o y
    PROVE  SafeFor(a)'
<1>1. PICK D : D = DOMAIN mem.cells
    OBVIOUS
<1>2. PICK x : x = ForEach("destroy", D)
    OBVIOUS
<1>3. /\ x \in Seq(GoodTasks) /\ \A i \in 1 .. Len(x) : x[i].op = "destroy"
      /\ \A k \in D : \E i \in 1 .. Len(x) : x[i].k = k
    BY <1>1, <1>2, ForEachIs
<1>4. PICK v : v = x \o y
    OBVIOUS
<1>5. /\ v \in Seq(GoodTasks) /\ Len(v) = Len(x) + Len(y)
      /\ \A i \in 1 .. Len(x) : v[i] = x[i]
      /\ \A i \in Len(x) + 1 .. Len(x) + Len(y) :
           i - Len(x) \in 1 .. Len(y) /\ v[i] = y[i - Len(x)]
    BY <1>3, <1>4, ConcatSeq
<1>6. work'[a] = v /\ Len(x) \in Nat /\ Len(y) \in Nat
    BY <1>1, <1>2, <1>3, <1>4
<1>7. ASSUME NEW i \in 1 .. Len(v)
      PROVE  \/ i \in 1 .. Len(x) /\ v[i] = x[i] /\ v[i].op = "destroy"
             \/ i \in Len(x) + 1 .. Len(x) + Len(y) /\ i - Len(x) \in 1 .. Len(y)
                  /\ v[i] = y[i - Len(x)]
    <2>1. CASE i <= Len(x)
        <3>1. i \in 1 .. Len(x)
            BY <1>5, <1>6, <2>1
        <3> QED BY <1>3, <1>5, <3>1
    <2>2. CASE i > Len(x)
        <3>1. i \in Len(x) + 1 .. Len(x) + Len(y)
            BY <1>5, <1>6, <2>2
        <3> QED BY <1>5, <3>1
    <2> QED BY <1>6, <2>1, <2>2
<1>8. "destroy" \in StartOps \ {"reset"} /\ "destroy" \notin BuildOps /\ "destroy" # "clear"
      /\ "destroy" \in QuietOps /\ "destroy" \in DestroyOps
    BY DEF StartOps, BuildOps, QuietOps, DestroyOps
<1>9. \A i \in 1 .. Len(v) : v[i].op \in StartOps \ {"reset"} /\ v[i].op \notin BuildOps
    BY <1>7, <1>8
<1>10. ResetSafe(work[a])' /\ PauseSafe(work[a])'
    BY <1>6, <1>9 DEF ResetSafe, PauseSafe
<1>11. ASSUME NEW i \in 1 .. Len(v), v[i].op = "clear"
       PROVE  /\ \A j \in 1 .. i - 1 : v[j].op \in QuietOps
              /\ \A k \in D : \E j \in 1 .. i - 1 : v[j].op \in DestroyOps /\ v[j].k = k
    <2>1. /\ i \in Len(x) + 1 .. Len(x) + Len(y) /\ i - Len(x) \in 1 .. Len(y)
          /\ y[i - Len(x)].op = "clear"
        BY <1>7, <1>8, <1>11
    <2>2. \A j \in 1 .. (i - Len(x)) - 1 : y[j].op \in QuietOps
        BY <2>1
    <2>3. ASSUME NEW j \in 1 .. i - 1
          PROVE  v[j].op \in QuietOps
        <3>1. j \in 1 .. Len(v)
            BY <1>5, <1>6, <2>1
        <3>2. CASE v[j].op = "destroy"
            BY <1>8, <3>2
        <3>3. CASE j \in Len(x) + 1 .. Len(x) + Len(y) /\ v[j] = y[j - Len(x)]
            <4>1. j - Len(x) \in 1 .. (i - Len(x)) - 1
                BY <1>6, <2>1, <3>3
            <4> QED BY <2>2, <3>3, <4>1
        <3> QED BY <1>7, <3>1, <3>2, <3>3
    <2>4. ASSUME NEW k \in D
          PROVE  \E j \in 1 .. i - 1 : v[j].op \in DestroyOps /\ v[j].k = k
        <3>1. PICK j \in 1 .. Len(x) : x[j].k = k
            BY <1>3
        <3>2. j \in 1 .. i - 1
            BY <1>6, <2>1, <3>1
        <3>3. v[j].op \in DestroyOps /\ v[j].k = k
            BY <1>3, <1>5, <1>8, <3>1
        <3> QED BY <3>2, <3>3
    <2> QED BY <2>3, <2>4
<1>12. ClearSafe(work[a])'
    <2>1. DOMAIN mem'.cells = D
        BY <1>1
    <2>2. ASSUME NEW i \in 1 .. Len(work'[a]), work'[a][i].op = "clear"
          PROVE  /\ \A j \in 1 .. i - 1 : work'[a][j].op \in QuietOps
                 /\ \A k \in DOMAIN mem'.cells :
                      \E j \in 1 .. i - 1 : work'[a][j].op \in DestroyOps /\ work'[a][j].k = k
        <3>1. i \in 1 .. Len(v) /\ v[i].op = "clear"
            BY <1>6, <2>2
        <3>2. /\ \A j \in 1 .. i - 1 : v[j].op \in QuietOps
              /\ \A k \in D : \E j \in 1 .. i - 1 : v[j].op \in DestroyOps /\ v[j].k = k
            BY <1>11, <3>1
        <3> QED BY <1>6, <2>1, <3>2, Zenon
    <2> QED BY <2>2 DEF ClearSafe
<1>13. HeadSafe(Head(work[a]))'
    <2>1. v # <<>>
        BY <1>4, <1>5, <1>6
    <2>2. Head(v) = v[1] /\ 1 \in 1 .. Len(v)
        BY <1>5, <1>6, <2>1, PoppedSeq
    <2>3. Head(v).op \in StartOps
        BY <1>9, <2>2
    <2> QED BY <1>6, <2>3, StartSafe
<1> QED BY <1>10, <1>12, <1>13 DEF SafeFor

LEMMA BeginTeardown ==
    ASSUME IInv, NEW y \in Seq(GoodTasks), Shape(y), y # <<>>,
           \A i \in 1 .. Len(y) :
             /\ y[i].op \in StartOps \ {"reset"} /\ y[i].op \notin BuildOps
             /\ y[i].op = "clear" => \A j \in 1 .. i - 1 : y[j].op \in QuietOps,
           Begin(ForEach("destroy", DOMAIN mem.cells) \o y), LeftOK'
    PROVE  IInv'
<1>1. PICK D : D = DOMAIN mem.cells
    OBVIOUS
<1>2. D \subseteq Cells
    BY <1>1, Knows DEF Actors, StateOK, IsState
<1>3. Len(y) \in Nat /\ Len(y) >= 1
    BY PoppedSeq
<1>4. y[1].op \in StartOps
    BY <1>3
<1>5. PICK v : v = ForEach("destroy", D) \o y
    OBVIOUS
<1>6. /\ v \in Seq(GoodTasks) /\ Shape(v)
      /\ \A i \in 1 .. Len(v) :
           v[i].op = "destroy" \/ \E j \in 1 .. Len(y) : v[i] = y[j]
    BY <1>2, <1>4, <1>5, FollowedIs
<1>7. Len(v) >= 1 /\ v # <<>>
    <2>1. ForEach("destroy", D) \in Seq(GoodTasks)
        BY <1>2, ForEachIs
    <2>2. Len(v) = Len(ForEach("destroy", D)) + Len(y)
        BY <1>5, <2>1, ConcatSeq
    <2>3. Len(ForEach("destroy", D)) \in Nat
        BY <2>1
    <2> QED BY <1>3, <1>6, <2>2, <2>3
<1>8. v[1].op \in StartOps
    <2>1. 1 \in 1 .. Len(v)
        BY <1>6, <1>7
    <2> QED BY <1>6, <2>1 DEF StartOps
<1>9. ASSUME work'["op"] = v, mem' = mem
      PROVE  SafeFor("op")'
    BY <1>1, <1>2, <1>5, <1>9, TeardownSafe DEF Actors
<1>10. Begin(v)
    BY <1>1, <1>5
<1> QED BY <1>6, <1>7, <1>8, <1>9, <1>10, BeginKeeps

(* The tasks of a teardown and of a redeploy, after the cells' own.            *)
LEMMA TeardownRest ==
    LET y == <<Task("pause", None), Task("sweep", None), Task("drop_group", None)>> IN
    /\ y \in Seq(GoodTasks) /\ Shape(y) /\ y # <<>>
    /\ \A i \in 1 .. Len(y) :
         /\ y[i].op \in StartOps \ {"reset"} /\ y[i].op \notin BuildOps
         /\ y[i].op = "clear" => \A j \in 1 .. i - 1 : y[j].op \in QuietOps
<1>1. PICK g1, g2, g3 : g1 = Task("pause", None) /\ g2 = Task("sweep", None) /\ g3 = Task("drop_group", None)
    OBVIOUS
<1>2. /\ g1 \in GoodTasks /\ g2 \in GoodTasks /\ g3 \in GoodTasks
      /\ g1.op = "pause" /\ g2.op = "sweep" /\ g3.op = "drop_group"
    BY <1>1, NoneTask
<1>3. PICK y : y = <<g1, g2, g3>>
    OBVIOUS
<1>4. y \in Seq(GoodTasks) /\ y # <<>> /\ Len(y) = 3 /\ y[1] = g1 /\ y[2] = g2 /\ y[3] = g3
    BY <1>2, <1>3
<1>5. \A i \in 1 .. Len(y) : i = 1 \/ i = 2 \/ i = 3
    BY <1>4
<1>6. \A i \in 1 .. Len(y) : y[i].op \in {"pause", "sweep", "drop_group"}
    BY <1>2, <1>4, <1>5
<1>7. \A i \in 1 .. Len(y) :
        /\ y[i].op \in StartOps \ {"reset"} /\ y[i].op \notin BuildOps
        /\ y[i].op \notin GcOps \cup PowerOps \cup {"reconcile"} /\ y[i].op # "stale"
        /\ y[i].op # "clear"
    BY <1>6 DEF StartOps, BuildOps, GcOps, PowerOps
<1>8. Shape(y)
    BY <1>4, <1>7 DEF Shape
<1> QED BY <1>1, <1>3, <1>4, <1>7, <1>8

LEMMA RedeployRest ==
    LET y == <<Task("pause", None), Task("sweep", None), Task("drop_group", None)>>
             \o <<Task("unpause", None), Task("sweep", None), Task("clear", None),
                  Task("reconcile", None)>> IN
    /\ y \in Seq(GoodTasks) /\ Shape(y) /\ y # <<>>
    /\ \A i \in 1 .. Len(y) :
         /\ y[i].op \in StartOps \ {"reset"} /\ y[i].op \notin BuildOps
         /\ y[i].op = "clear" => \A j \in 1 .. i - 1 : y[j].op \in QuietOps
<1>1. PICK g1, g2, g3, g4, g6, g7 :
        /\ g1 = Task("pause", None) /\ g2 = Task("sweep", None) /\ g3 = Task("drop_group", None)
        /\ g4 = Task("unpause", None) /\ g6 = Task("clear", None) /\ g7 = Task("reconcile", None)
    OBVIOUS
<1>2. /\ g1 \in GoodTasks /\ g2 \in GoodTasks /\ g3 \in GoodTasks
      /\ g4 \in GoodTasks /\ g6 \in GoodTasks /\ g7 \in GoodTasks
      /\ g1.op = "pause" /\ g2.op = "sweep" /\ g3.op = "drop_group"
      /\ g4.op = "unpause" /\ g6.op = "clear" /\ g7.op = "reconcile"
    BY <1>1, NoneTask
<1>3. PICK y : y = <<g1, g2, g3>> \o <<g4, g2, g6, g7>>
    OBVIOUS
<1>4. /\ y \in Seq(GoodTasks) /\ y # <<>> /\ Len(y) = 7 /\ y[1] = g1 /\ y[2] = g2 /\ y[3] = g3
      /\ y[4] = g4 /\ y[5] = g2 /\ y[6] = g6 /\ y[7] = g7
    <2>1. PICK p, q : p = <<g1, g2, g3>> /\ q = <<g4, g2, g6, g7>>
        OBVIOUS
    <2>2. /\ p \in Seq(GoodTasks) /\ Len(p) = 3 /\ p[1] = g1 /\ p[2] = g2 /\ p[3] = g3
          /\ q \in Seq(GoodTasks) /\ Len(q) = 4 /\ q[1] = g4 /\ q[2] = g2 /\ q[3] = g6 /\ q[4] = g7
        BY <1>2, <2>1
    <2>3. /\ y \in Seq(GoodTasks) /\ Len(y) = Len(p) + Len(q)
          /\ \A i \in 1 .. Len(p) : y[i] = p[i]
          /\ \A i \in 1 .. Len(q) : y[Len(p) + i] = q[i]
        BY <1>3, <2>1, <2>2, ConcatSeq
    <2>4. Len(y) = 7 /\ y[1] = g1 /\ y[2] = g2 /\ y[3] = g3
        BY <2>2, <2>3
    <2>5. y[3 + 1] = g4 /\ y[3 + 2] = g2 /\ y[3 + 3] = g6 /\ y[3 + 4] = g7
        BY <2>2, <2>3
    <2>6. y # <<>>
        BY <2>4
    <2>7. 3 + 1 = 4 /\ 3 + 2 = 5 /\ 3 + 3 = 6 /\ 3 + 4 = 7
        OBVIOUS
    <2> QED BY <2>3, <2>4, <2>5, <2>6, <2>7
<1>5. \A i \in 1 .. Len(y) : i = 1 \/ i = 2 \/ i = 3 \/ i = 4 \/ i = 5 \/ i = 6 \/ i = 7
    BY <1>4
<1>6. \A i \in 1 .. Len(y) :
        /\ y[i].op \in {"pause", "sweep", "drop_group", "unpause", "clear", "reconcile"}
        /\ y[i].op = "clear" => i = 6
        /\ y[i].op = "reconcile" => i = 7
    BY <1>2, <1>4, <1>5
<1>7. \A i \in 1 .. Len(y) :
        /\ y[i].op \in StartOps \ {"reset"} /\ y[i].op \notin BuildOps
        /\ y[i].op \notin GcOps \cup PowerOps /\ y[i].op # "stale"
    BY <1>6 DEF StartOps, BuildOps, GcOps, PowerOps
<1>8. \A j \in 1 .. 6 - 1 : y[j].op \in QuietOps
    <2>1. \A j \in 1 .. 6 - 1 : j = 1 \/ j = 2 \/ j = 3 \/ j = 4 \/ j = 5
        OBVIOUS
    <2>2. {"pause", "sweep", "drop_group", "unpause"} \subseteq QuietOps
        BY DEF QuietOps, SweepOps
    <2> QED BY <1>2, <1>4, <2>1, <2>2
<1>9. \A i \in 1 .. Len(y) : y[i].op = "clear" => \A j \in 1 .. i - 1 : y[j].op \in QuietOps
    BY <1>6, <1>8
<1>10. Shape(y)
    BY <1>4, <1>6, <1>7 DEF Shape
<1> QED BY <1>1, <1>3, <1>4, <1>7, <1>9, <1>10

LEMMA RedeployBegins ==
    ASSUME IInv, Begin(TeardownTasks \o <<Task("unpause", None), Task("sweep", None),
                                           Task("clear", None), Task("reconcile", None)>>)
    PROVE  \E y :
             /\ y \in Seq(GoodTasks) /\ Shape(y) /\ y # <<>>
             /\ \A i \in 1 .. Len(y) :
                  /\ y[i].op \in StartOps \ {"reset"} /\ y[i].op \notin BuildOps
                  /\ y[i].op = "clear" => \A j \in 1 .. i - 1 : y[j].op \in QuietOps
             /\ Begin(ForEach("destroy", DOMAIN mem.cells) \o y)
<1>1. PICK x : x = ForEach("destroy", DOMAIN mem.cells)
    OBVIOUS
<1>2. PICK g1, g2, g3, g4, g6, g7 :
        /\ g1 = Task("pause", None) /\ g2 = Task("sweep", None) /\ g3 = Task("drop_group", None)
        /\ g4 = Task("unpause", None) /\ g6 = Task("clear", None) /\ g7 = Task("reconcile", None)
    OBVIOUS
<1>3. x \in Seq(GoodTasks)
    <2>1. DOMAIN mem.cells \subseteq Cells
        BY Knows DEF Actors, StateOK, IsState
    <2> QED BY <1>1, <2>1, ForEachIs
<1>4. /\ g1 \in GoodTasks /\ g2 \in GoodTasks /\ g3 \in GoodTasks
      /\ g4 \in GoodTasks /\ g6 \in GoodTasks /\ g7 \in GoodTasks
    BY <1>2, NoneTask
<1>5. PICK p, q, y : p = <<g1, g2, g3>> /\ q = <<g4, g2, g6, g7>> /\ y = p \o q
    OBVIOUS
<1>6. (x \o p) \o q = x \o y
    <2>1. p \in Seq(GoodTasks) /\ q \in Seq(GoodTasks)
        BY <1>4, <1>5
    <2> QED BY <1>3, <1>5, <2>1, ConcatAssociative
<1>7. Begin(ForEach("destroy", DOMAIN mem.cells) \o y)
    BY <1>1, <1>2, <1>5, <1>6 DEF TeardownTasks
<1>8. /\ y \in Seq(GoodTasks) /\ Shape(y) /\ y # <<>>
      /\ \A i \in 1 .. Len(y) :
           /\ y[i].op \in StartOps \ {"reset"} /\ y[i].op \notin BuildOps
           /\ y[i].op = "clear" => \A j \in 1 .. i - 1 : y[j].op \in QuietOps
    <2>1. y = <<Task("pause", None), Task("sweep", None), Task("drop_group", None)>>
              \o <<Task("unpause", None), Task("sweep", None), Task("clear", None),
                   Task("reconcile", None)>>
        BY <1>2, <1>5, Zenon
    <2> QED BY <2>1, RedeployRest, Zenon
<1> QED BY <1>7, <1>8

LEMMA OperatorKeeps ==
    ASSUME IInv, Operator
    PROVE  IInv'
<1>1. LeftOK'
    BY Knows, DisturbLeft DEF Actors, Operator
<1>2. CASE Begin(<<Task("unpause", None)>>)
    BY <1>1, <1>2, BeginOne
<1>3. CASE Begin(<<Task("gc", None)>>)
    BY <1>1, <1>3, BeginOne
<1>4. CASE Begin(TeardownTasks)
    <2>1. PICK y : y = <<Task("pause", None), Task("sweep", None), Task("drop_group", None)>>
        OBVIOUS
    <2>2. Begin(ForEach("destroy", DOMAIN mem.cells) \o y)
        BY <1>4, <2>1 DEF TeardownTasks
    <2>3. /\ y \in Seq(GoodTasks) /\ Shape(y) /\ y # <<>>
          /\ \A i \in 1 .. Len(y) :
               /\ y[i].op \in StartOps \ {"reset"} /\ y[i].op \notin BuildOps
               /\ y[i].op = "clear" => \A j \in 1 .. i - 1 : y[j].op \in QuietOps
        BY <2>1, TeardownRest, Zenon
    <2> QED BY <1>1, <2>2, <2>3, BeginTeardown
<1>5. CASE Begin(TeardownTasks \o <<Task("unpause", None), Task("sweep", None),
                                    Task("clear", None), Task("reconcile", None)>>)
    <2>1. PICK y :
            /\ y \in Seq(GoodTasks) /\ Shape(y) /\ y # <<>>
            /\ \A i \in 1 .. Len(y) :
                 /\ y[i].op \in StartOps \ {"reset"} /\ y[i].op \notin BuildOps
                 /\ y[i].op = "clear" => \A j \in 1 .. i - 1 : y[j].op \in QuietOps
            /\ Begin(ForEach("destroy", DOMAIN mem.cells) \o y)
        BY <1>5, RedeployBegins
    <2> QED BY <1>1, <2>1, BeginTeardown
<1>6. ASSUME NEW k \in matrix, Begin(ReprovisionTasks(k))
      PROVE  IInv'
    <2>1. k \in Cells
        BY Knows, FleetAssumption DEF Actors, OthersOK
    <2>2. PICK v : v = ReprovisionTasks(k)
        OBVIOUS
    <2>3. v \in Seq(GoodTasks) /\ v # <<>> /\ v[1].op \in StartOps /\ Shape(v)
        <3>1. v \in Seq(GoodTasks) /\ v # <<>> /\ v[1].op = "unpause" /\ Shape(v)
            BY <2>1, <2>2, ReprovisionIs
        <3> QED BY <3>1 DEF StartOps
    <2>4. work'["op"] = v => SafeFor("op")'
        BY <2>1, <2>2, ReprovisionSafe DEF Actors
    <2> QED BY <1>1, <1>6, <2>2, <2>3, <2>4, BeginKeeps
<1> QED BY <1>2, <1>3, <1>4, <1>5, <1>6 DEF Operator

LEMMA ReconcileTickKeeps ==
    ASSUME IInv, ReconcileTick
    PROVE  IInv'
<1>1. LeftOK'
    BY Knows, Kept DEF Actors, ReconcileTick
<1> QED BY <1>1, BeginOne DEF ReconcileTick

(* The chaos loop begins to toggle the power of an instance.                  *)
LEMMA TickPower ==
    ASSUME IInv, NEW op \in {"check", "status"}, NEW k \in Cells, NEW n \in AllNames,
           work' = [work EXCEPT !["chaos"] = <<[Task(op, k) EXCEPT !.todo = {n}]>>],
           UNCHANGED <<state, mgmt, incus, reports, matrix>>, LeftOK', raced' = raced
    PROVE  IInv'
<1>1. PICK g : g = [Task(op, k) EXCEPT !.todo = {n}]
    OBVIOUS
<1>2. g \in GoodTasks /\ g.op = op
    <2>1. op \in CellOps /\ op \notin {"poll", "up", "launch", "sweep_next", "sweep_cluster"}
        BY DEF CellOps, PowerOps
    <2>2. {n} \subseteq Things
        BY DEF Things
    <2> QED BY <1>1, <2>1, <2>2 DEF GoodTasks, Task
<1>3. PICK v : v = <<g>>
    OBVIOUS
<1>4. v \in Seq(GoodTasks) /\ Len(v) = 1 /\ v[1] = g /\ Head(v) = g
    BY <1>2, <1>3
<1>5. Shape(v)
    <2>1. \A i \in 1 .. Len(v) : i = 1
        BY <1>4
    <2> QED BY <1>2, <1>4, <2>1 DEF Shape
<1>6. "chaos" \in Actors /\ "op" \in Actors \ {"chaos"} /\ WorkOK /\ "chaos" # "op"
    BY Knows DEF Actors
<1>7. WorkOK' /\ work'["chaos"] = v /\ work'["op"] = work["op"]
    BY <1>1, <1>3, <1>4, <1>5, <1>6, WorkSet
<1>8. IncusOK' /\ OthersOK' /\ Alive' = Alive
    BY <1>6, Knows, Kept
<1>9. StateOK' /\ SameCells
    BY SameState
<1>10. ~raced => Safe'
    BY <1>2, <1>4, <1>7, <1>8, <1>9, PowerSafe DEF PowerOps
<1> QED BY <1>7, <1>8, <1>9, <1>10, Parts DEF PartsOK

LEMMA ChaosVmTickKeeps ==
    ASSUME IInv, ChaosVmTick
    PROVE  IInv'
<1>1. PICK k \in Cells :
        /\ IsRunning(k)
        /\ \/ \E n \in mem.cells[k].off :
                /\ work' = [work EXCEPT !["chaos"] =
                              <<[Task("check", k) EXCEPT !.todo = {n}]>>]
                /\ UNCHANGED <<left, raced>>
           \/ /\ left.ticks > 0 /\ left' = [left EXCEPT !.ticks = @ - 1]
              /\ work' = [work EXCEPT !["chaos"] = ReprovisionTasks(k)]
              /\ raced' = (raced \/ work["op"] # <<>>)
           \/ /\ left.ticks > 0 /\ left' = [left EXCEPT !.ticks = @ - 1]
              /\ \E n \in Names(k) :
                   work' = [work EXCEPT !["chaos"] =
                              <<[Task("status", k) EXCEPT !.todo = {n}]>>]
              /\ UNCHANGED raced
    BY DEF ChaosVmTick
<1>2. UNCHANGED <<state, mgmt, incus, reports, matrix, cached>> /\ work["chaos"] = <<>>
    BY DEF ChaosVmTick
<1>3. "chaos" \in Actors /\ "op" \in Actors \ {"chaos"} /\ WorkOK /\ "chaos" # "op" /\ LeftOK /\ StateOK
    BY Knows DEF Actors
<1>4. left.ticks > 0 /\ left' = [left EXCEPT !.ticks = @ - 1] => LeftOK'
    BY <1>3 DEF LeftOK
<1>5. ASSUME NEW n \in mem.cells[k].off, UNCHANGED <<left, raced>>,
             work' = [work EXCEPT !["chaos"] = <<[Task("check", k) EXCEPT !.todo = {n}]>>]
      PROVE  IInv'
    <2>1. n \in AllNames
        BY <1>1, <1>3, <1>5, MemLaunches DEF IsRunning, Stages
    <2>2. LeftOK'
        BY <1>3, <1>5, Kept
    <2> QED BY <1>2, <1>5, <2>1, <2>2, TickPower
<1>6. ASSUME NEW n \in Names(k), LeftOK', raced' = raced,
             work' = [work EXCEPT !["chaos"] = <<[Task("status", k) EXCEPT !.todo = {n}]>>]
      PROVE  IInv'
    <2>1. n \in AllNames
        BY NamesApart
    <2> QED BY <1>2, <1>6, <2>1, TickPower
<1>7. ASSUME LeftOK', work' = [work EXCEPT !["chaos"] = ReprovisionTasks(k)],
             raced' = (raced \/ work["op"] # <<>>)
      PROVE  IInv'
    <2>1. PICK v : v = ReprovisionTasks(k)
        OBVIOUS
    <2>2. v \in Seq(GoodTasks) /\ v # <<>> /\ Shape(v)
        BY <2>1, ReprovisionIs
    <2>3. WorkOK' /\ work'["chaos"] = v /\ work'["op"] = work["op"]
        BY <1>3, <1>7, <2>1, <2>2, WorkSet
    <2>4. StateOK' /\ IncusOK' /\ OthersOK' /\ Alive' = Alive /\ UNCHANGED state
        BY <1>2, <1>3, Knows, Kept
    <2>5. ASSUME ~raced'
          PROVE  Safe'
        <3>1. ~raced /\ work'["op"] = <<>>
            BY <1>7, <2>3, <2>5
        <3>2. AliveTracked' /\ CapKept'
            BY <1>3, <2>4, <3>1, Knows, SameStateSafe
        <3>3. SafeFor("op")'
            BY <1>3, <2>3, <3>1, IdleSafe DEF Idle
        <3>4. SafeFor("chaos")'
            BY <1>3, <2>1, <2>3, ReprovisionSafe
        <3> QED BY <3>1, <3>2, <3>3, <3>4 DEF Safe, Actors
    <2> QED BY <1>7, <2>3, <2>4, <2>5, Parts DEF PartsOK
<1> QED BY <1>1, <1>4, <1>5, <1>6, <1>7

-----------------------------------------------------------------------------
(* The daemons, the clock, the web UI, and a crash. *)

LEMMA FrameKeeps ==
    ASSUME IInv, UNCHANGED <<state, incus, work, raced>>, OthersOK', LeftOK'
    PROVE  IInv'
<1>1. /\ StateOK' /\ IncusOK' /\ Alive' = Alive /\ WorkOK' /\ SameCells
      /\ raced' = raced /\ work' = work /\ StateOK
    BY Knows, Kept, SameState DEF Actors
<1>2. ~raced => Safe'
    BY <1>1, Knows, FrameSafe DEF Actors
<1> QED BY <1>1, <1>2, Parts DEF PartsOK

LEMMA HeartbeatKeeps ==
    ASSUME IInv, NEW n \in AllNames, Heartbeat(n)
    PROVE  IInv'
<1>1. UNCHANGED <<state, mgmt, incus, process, late, work, left>>
    BY DEF Heartbeat
<1>2. vms[n].launch \in Launches
    BY Knows DEF Actors, IncusOK, Heartbeat
<1>3. ReportsOK'
    BY <1>1, <1>2, Knows DEF Actors, ReportsOK, Heartbeat
<1>4. MgmtOK' /\ LeftOK' /\ matrix' = matrix /\ raced' = raced
    BY <1>1, Knows, Kept DEF Actors, process
<1>5. OthersOK'
    BY <1>3, <1>4, Knows DEF Actors, OthersOK
<1> QED BY <1>1, <1>4, <1>5, FrameKeeps

LEMMA TimeoutKeeps ==
    ASSUME IInv, NEW k \in Cells, HopelessTimeout(k) \/ EarlyTimeout(k)
    PROVE  IInv'
<1>1. DeployTimeout(k) /\ LeftOK'
    BY Knows, Kept, DisturbLeft DEF Actors, HopelessTimeout, EarlyTimeout
<1>2. UNCHANGED <<state, mgmt, incus, process, beats, work>>
    BY <1>1 DEF DeployTimeout
<1>3. mem.cells[k].launch \in Launches
    BY <1>1, Knows, MemLaunches DEF Actors, DeployTimeout, Launching
<1>4. ReportsOK'
    BY <1>1, <1>2, <1>3, Knows DEF Actors, ReportsOK, DeployTimeout
<1>5. MgmtOK' /\ matrix' = matrix /\ raced' = raced
    BY <1>2, Knows, Kept DEF Actors, process
<1>6. OthersOK'
    BY <1>4, <1>5, Knows DEF Actors, OthersOK
<1> QED BY <1>1, <1>2, <1>5, <1>6, FrameKeeps

LEMMA WebDeleteKeeps ==
    ASSUME IInv, WebDelete
    PROVE  IInv'
<1>1. LeftOK' /\ MgmtOK'
    BY Knows, DisturbLeft, RemovedCluster DEF Actors, WebDelete
<1>2. UNCHANGED <<state, incus, reports, process, work>>
    BY DEF WebDelete
<1>3. OthersOK' /\ raced' = raced
    BY <1>1, <1>2, Knows DEF Actors, OthersOK, ReportsOK, reports, process
<1> QED BY <1>1, <1>2, <1>3, FrameKeeps

(* What comes back from the disk names every VM, and perhaps dropped cells.    *)
LEMMA CrashKeeps ==
    ASSUME IInv, Crash
    PROVE  IInv'
<1>1. /\ mem' = disk /\ disk' = disk /\ work' = [a \in Actors |-> <<>>] /\ raced' = raced
      /\ matrix' \in Matrices /\ UNCHANGED <<mgmt, incus, reports>>
    BY DEF Crash
<1>2. LeftOK' /\ IncusOK' /\ MgmtOK' /\ Alive' = Alive /\ StateOK
    BY <1>1, Knows, Kept, DisturbLeft DEF Actors, Crash
<1>3. OthersOK'
    BY <1>1, <1>2, Knows DEF Actors, OthersOK, ReportsOK, reports
<1>4. StateOK'
    BY <1>1, <1>2 DEF StateOK, Mirror
<1>5. WorkOK'
    <2>1. \A a \in Actors : work'[a] = <<>>
        BY <1>1
    <2>2. work' \in [Actors -> Seq(GoodTasks)]
        BY <1>1
    <2>3. \A a \in Actors : Shape(work'[a])
        BY <2>1 DEF Shape
    <2>4. work'["op"] = <<>>
        BY <2>1 DEF Actors
    <2> QED BY <2>2, <2>3, <2>4 DEF WorkOK
<1>6. ASSUME ~raced
      PROVE  Safe'
    <2>1. AliveTracked /\ CapKept
        BY <1>6, Knows DEF Actors
    <2>2. AliveTracked'
        <3>1. \A k \in DOMAIN mem.cells : k \in DOMAIN mem'.cells /\ mem'.cells[k] = mem.cells[k]
            BY <1>1, <1>2 DEF StateOK, Mirror
        <3> QED BY <1>2, <2>1, <3>1, TrackedKept
    <2>3. CapKept'
        BY <1>1, <2>1 DEF CapKept, DiskLaunching
    <2>4. \A a \in Actors : SafeFor(a)'
        <3>1. \A a \in Actors : Idle(a)'
            BY <1>1 DEF Idle
        <3> QED BY <1>5, <3>1, IdleSafe
    <2>5. work'["op"] = <<>>
        BY <1>1 DEF Actors
    <2> QED BY <2>2, <2>3, <2>4, <2>5 DEF Safe
<1> QED BY <1>1, <1>2, <1>3, <1>4, <1>5, <1>6, Parts DEF PartsOK

-----------------------------------------------------------------------------
(* The invariant. *)

LEMMA InitHolds ==
    ASSUME Init
    PROVE  IInv
<1>1. PICK e : e = [k \in {} |-> Pending]
    OBVIOUS
<1>2. DOMAIN e = {} /\ mem = [cells |-> e, paused |-> FALSE] /\ disk = mem
    BY <1>1 DEF Init
<1>3. DOMAIN mem = {"cells", "paused"} /\ mem.paused = FALSE /\ DOMAIN mem.cells = {}
    BY <1>2
<1>4. StateOK
    BY <1>2, <1>3 DEF StateOK, IsState, Mirror
<1>5. DOMAIN vms = {} /\ leaked = {} /\ DOMAIN clusters = {}
    BY DEF Init
<1>6. IncusOK /\ Alive = {}
    BY <1>5 DEF IncusOK, Alive
<1>7. LeftOK /\ matrix \in Matrices
    BY FleetAssumption DEF Init, LeftOK
<1>8. OthersOK
    BY <1>5, <1>7 DEF Init, OthersOK, MgmtOK, ReportsOK
<1>9. \A a \in Actors : work[a] = <<>>
    BY DEF Init
<1>10. WorkOK
    <2>1. work \in [Actors -> Seq(GoodTasks)]
        BY DEF Init
    <2>2. \A a \in Actors : Shape(work[a])
        BY <1>9 DEF Shape
    <2>3. work["op"] = <<>>
        BY <1>9 DEF Actors
    <2> QED BY <2>1, <2>2, <2>3 DEF WorkOK
<1>11. AliveTracked
    BY <1>6 DEF AliveTracked
<1>12. CapKept
    <2>1. DiskLaunching = {}
        BY <1>2, <1>3 DEF DiskLaunching
    <2>2. Cardinality(DiskLaunching) <= Cap
        BY <2>1, FS_EmptySet, FleetAssumption
    <2> QED BY <2>2 DEF CapKept, DiskLaunching
<1>13. \A a \in Actors : SafeFor(a)
    BY <1>9 DEF SafeFor, ResetSafe, ClearSafe, PauseSafe
<1>14. Safe
    BY <1>9, <1>11, <1>12, <1>13 DEF Safe, Actors
<1> QED BY <1>4, <1>6, <1>7, <1>8, <1>10, <1>14, Parts DEF PartsOK

LEMMA NextKeeps ==
    ASSUME IInv, [Next]_vars
    PROVE  IInv'
<1>1. CASE \E a \in Actors : Step(a)
    BY <1>1, StepKeeps
<1>2. CASE ChaosVmTick \/ ChaosPower
    BY <1>2, ChaosVmTickKeeps, StatusKeeps, StillRunningKeeps, SetPowerKeeps, RecordPowerKeeps
       DEF ChaosPower
<1>3. CASE ReconcileTick \/ Operator
    BY <1>3, ReconcileTickKeeps, OperatorKeeps
<1>4. CASE \E n \in AllNames : Heartbeat(n)
    BY <1>4, HeartbeatKeeps
<1>5. CASE \E k \in Cells : HopelessTimeout(k) \/ EarlyTimeout(k)
    BY <1>5, TimeoutKeeps
<1>6. CASE WebDelete \/ Crash
    BY <1>6, WebDeleteKeeps, CrashKeeps
<1>7. CASE UNCHANGED vars
    <2>1. UNCHANGED <<state, incus, work, raced, mgmt, reports, matrix, left>>
        BY <1>7 DEF vars, state, incus, mgmt, reports
    <2>2. OthersOK' /\ LeftOK'
        BY <2>1, Knows, Kept DEF Actors
    <2> QED BY <2>1, <2>2, FrameKeeps
<1> QED BY <1>1, <1>2, <1>3, <1>4, <1>5, <1>6, <1>7 DEF Next

-----------------------------------------------------------------------------
(* What holds even after a chaos reprovision has overlapped an operation. *)

PastOps == {"clean", "cloud_init"}

(* A step of actor a leaves the tasks behind its head and adds none that       *)
(* pauses; it builds only if it was building, or reconciles unpaused.         *)
Moved(a) ==
    /\ work[a] # <<>>
    /\ \A b \in Actors \ {a} : work'[b] = work[b]
    /\ \A i \in 1 .. Len(work'[a]) :
         \/ \E j \in 2 .. Len(work[a]) : work'[a][i] = work[a][j]
         \/ /\ work'[a][i].op # "pause"
            /\ work'[a][i].op \in BuildOps =>
                 Head(work[a]).op \in BuildOps \/ (Head(work[a]).op = "reconcile" /\ ~mem.paused)
    /\ Past(a)' => Past(a) \/ ~LaunchQueueFull
    /\ Head(work[a]).op = "unpause" => ~mem'.paused
    /\ mem'.paused => mem.paused \/ Head(work[a]).op = "pause"

LEMMA StartNotPast == StartOps \cap PastOps = {} /\ PowerOps \cap PastOps = {}
BY DEF StartOps, PastOps, PowerOps

LEMMA MovedPop ==
    ASSUME IInv, NEW a \in Actors, work[a] # <<>>, Pop(a),
           Head(work[a]).op = "unpause" => ~mem'.paused,
           mem'.paused => mem.paused \/ Head(work[a]).op = "pause"
    PROVE  Moved(a)
<1> DEFINE w == work[a]
           v == work'[a]
<1>1. w \in Seq(GoodTasks) /\ Shape(w) /\ WorkOK
    BY Knows DEF WorkOK
<1>2. v = Tail(w) /\ \A b \in Actors \ {a} : work'[b] = work[b]
    BY <1>1, WorkPopped
<1>3. /\ Len(v) = Len(w) - 1 /\ Len(w) \in Nat /\ Len(w) >= 1
      /\ \A i \in 1 .. Len(v) : v[i] = w[i + 1]
      /\ v # <<>> => Head(v) = w[2] /\ Len(w) >= 2
    BY <1>1, <1>2, PoppedSeq
<1>4. ASSUME NEW i \in 1 .. Len(v)
      PROVE  \E j \in 2 .. Len(w) : v[i] = w[j]
    <2>1. i + 1 \in 2 .. Len(w) /\ v[i] = w[i + 1]
        BY <1>3
    <2> QED BY <2>1
<1>5. ~Past(a)'
    <2>1. v # <<>> => Head(v).op \in StartOps
        BY <1>1, <1>3 DEF Shape
    <2> QED BY <2>1, StartNotPast DEF Past, PastOps
<1> QED BY <1>2, <1>4, <1>5 DEF Moved

LEMMA MovedThen ==
    ASSUME IInv, NEW a \in Actors, work[a] # <<>>, NEW u, Then(a, u),
           u.op \in BuildOps => Head(work[a]).op \in BuildOps,
           u.op \in PastOps => Head(work[a]).op \in PastOps \/ ~LaunchQueueFull,
           u.op # "pause", Head(work[a]).op # "unpause", mem'.paused = mem.paused
    PROVE  Moved(a)
<1> DEFINE w == work[a]
           v == work'[a]
           G == GoodTasks \cup {u}
<1>1. w \in Seq(GoodTasks) /\ WorkOK
    BY Knows DEF WorkOK
<1>2. work' = [work EXCEPT ![a] = <<u>> \o Tail(w)]
    BY <1>1, DoIs DEF Then
<1>3. v = <<u>> \o Tail(w) /\ \A b \in Actors \ {a} : work'[b] = work[b]
    BY <1>1, <1>2 DEF WorkOK
<1>4. w \in Seq(G) /\ u \in G
    BY <1>1
<1>5. /\ Len(v) = Len(w) /\ v # <<>> /\ Head(v) = u /\ v[1] = u
      /\ \A i \in 2 .. Len(w) : v[i] = w[i]
    <2> HIDE DEF G
    <2> QED BY <1>3, <1>4, ReplacedSeq
<1>6. ASSUME NEW i \in 1 .. Len(v)
      PROVE  \/ \E j \in 2 .. Len(w) : v[i] = w[j]
             \/ v[i] = u
    <2>1. CASE i = 1
        BY <1>5, <2>1
    <2>2. CASE i # 1
        <3>1. i \in 2 .. Len(w)
            BY <1>5, <2>2
        <3> QED BY <1>5, <3>1
    <2> QED BY <2>1, <2>2
<1>7. Past(a)' => Past(a) \/ ~LaunchQueueFull
    BY <1>5 DEF Past, PastOps
<1> QED BY <1>3, <1>6, <1>7 DEF Moved

LEMMA MovedAll ==
    ASSUME IInv, NEW a \in Actors, work[a] # <<>>, NEW v \in Seq(GoodTasks),
           work' = [work EXCEPT ![a] = v], mem' = mem,
           \A i \in 1 .. Len(v) :
             /\ v[i].op \in StartOps \ {"pause"}
             /\ v[i].op \in BuildOps => Head(work[a]).op = "reconcile" /\ ~mem.paused,
           Head(work[a]).op # "unpause"
    PROVE  Moved(a)
<1>1. work'[a] = v /\ \A b \in Actors \ {a} : work'[b] = work[b]
    BY Knows DEF WorkOK
<1>2. ~Past(a)'
    <2>1. v # <<>> => Head(v).op \in StartOps
        BY PoppedSeq
    <2> QED BY <1>1, <2>1, StartNotPast DEF Past, PastOps
<1> QED BY <1>1, <1>2 DEF Moved

(* The steps that replace the head by one task, or drop it.                   *)
LEMMA DriveMoves ==
    ASSUME IInv, NEW a \in Actors, Drive(a)
    PROVE  Moved(a)
<1>0. PICK t : t = Head(work[a])
    OBVIOUS
<1>1. work[a] # <<>> /\ t.op = "drive" /\ t \in GoodTasks
    BY <1>0, Knows, AtHead DEF Drive
<1>2. mem' = mem
    BY DEF Drive, state
<1>3. PICK f : f = Find(t.k)
    OBVIOUS
<1>4. CASE Pop(a)
    BY <1>0, <1>1, <1>2, <1>4, MovedPop
<1>5. ASSUME NEW u, Then(a, u), u.op \in {"drive", "list_stray", "put_config", "clean", "poll"},
             u.op = "clean" => ~LaunchQueueFull
      PROVE  Moved(a)
    BY <1>0, <1>1, <1>2, <1>5, MovedThen DEF BuildOps, PastOps
<1>6. ASSUME NEW op \in {"list_stray", "put_config", "clean", "poll"}, NEW S,
             op = "clean" => ~LaunchQueueFull,
             Then(a, [t EXCEPT !.op = op, !.cid = f.cid, !.launch = f.launch, !.todo = S])
      PROVE  Moved(a)
    <2>1. PICK u : u = [t EXCEPT !.op = op, !.cid = f.cid, !.launch = f.launch, !.todo = S]
        OBVIOUS
    <2>2. u.op = op
        BY <1>1, <2>1 DEF GoodTasks
    <2> QED BY <1>5, <1>6, <2>1, <2>2
<1>7. CASE Then(a, [t EXCEPT !.n = @ - 1])
    <2>1. PICK u : u = [t EXCEPT !.n = @ - 1]
        OBVIOUS
    <2>2. u.op = "drive"
        BY <1>1, <2>1 DEF GoodTasks
    <2> QED BY <1>5, <1>7, <2>1, <2>2
<1> QED BY <1>0, <1>3, <1>4, <1>6, <1>7 DEF Drive

LEMMA AgainMoves ==
    ASSUME IInv, NEW a \in Actors, work[a] # <<>>, Head(work[a]).op \in BuildOps,
           Again(a, Head(work[a])), mem'.paused = mem.paused
    PROVE  Moved(a)
<1>0. PICK t : t = Head(work[a])
    OBVIOUS
<1>1. PICK u : u = [DriveTask(t.k) EXCEPT !.n = t.n - 1]
    OBVIOUS
<1>2. u.op = "drive"
    BY <1>1 DEF DriveTask, Task
<1>3. Then(a, u)
    BY <1>0, <1>1 DEF Again
<1> QED BY <1>2, <1>3, MovedThen DEF BuildOps, PastOps

(* The steps of drive_cell go on with drive_cell or end.                      *)
LEMMA BuildMoves ==
    ASSUME IInv, NEW a \in Actors,
           \/ ListStray(a) \/ WipeVm(a) \/ WipeCluster(a) \/ CreateCluster(a)
           \/ PutConfig(a) \/ Clean(a) \/ LaunchVm(a) \/ Poll(a)
    PROVE  Moved(a)
<1>0. PICK t : t = Head(work[a])
    OBVIOUS
<1>1. /\ work[a] # <<>> /\ t \in GoodTasks
      /\ t.op \in {"list_stray", "wipe_vm", "wipe_cluster", "create_cluster",
                   "put_config", "clean", "launch", "poll"}
    BY <1>0, Knows, AtHead DEF ListStray, WipeVm, WipeCluster, CreateCluster, PutConfig,
       Clean, LaunchVm, Poll
<1>2. mem' = mem
    BY DEF ListStray, WipeVm, WipeCluster, CreateCluster, PutConfig, Clean, LaunchVm, Poll, state
<1>3. CASE Pop(a)
    BY <1>0, <1>1, <1>2, <1>3, MovedPop
<1>4. ASSUME NEW u, Then(a, u), u.op \in BuildOps, u.op \in PastOps => t.op \in PastOps
      PROVE  Moved(a)
    BY <1>0, <1>1, <1>2, <1>4, MovedThen DEF BuildOps, PastOps
<1>5. \A op, c, l, S :
        /\ [t EXCEPT !.op = op].op = op
        /\ [t EXCEPT !.op = op, !.cid = c].op = op
        /\ [t EXCEPT !.op = op, !.todo = S].op = op
        /\ [t EXCEPT !.todo = S, !.op = op].op = op
        /\ [t EXCEPT !.todo = S].op = t.op
    BY <1>1 DEF GoodTasks
<1>6. CASE ListStray(a)
    <2>1. CASE Then(a, [t EXCEPT !.op = "create_cluster"])
        BY <1>4, <1>5, <2>1 DEF BuildOps, PastOps
    <2>2. ASSUME NEW c, Then(a, [t EXCEPT !.op = "wipe_vm", !.cid = c])
          PROVE  Moved(a)
        <3>1. PICK u : u = [t EXCEPT !.op = "wipe_vm", !.cid = c]
            OBVIOUS
        <3>2. u.op = "wipe_vm"
            BY <1>5, <3>1
        <3> QED BY <1>4, <2>2, <3>1, <3>2 DEF BuildOps, PastOps
    <2> QED BY <1>0, <1>6, <2>1, <2>2 DEF ListStray
<1>7. CASE WipeVm(a)
    <2>1. Then(a, [t EXCEPT !.op = "wipe_cluster"])
        BY <1>0, <1>7 DEF WipeVm
    <2> QED BY <1>4, <1>5, <2>1 DEF BuildOps, PastOps
<1>8. CASE WipeCluster(a)
    <2>1. Then(a, [t EXCEPT !.op = "create_cluster"])
        BY <1>0, <1>8 DEF WipeCluster
    <2> QED BY <1>4, <1>5, <2>1 DEF BuildOps, PastOps
<1>9. CASE CreateCluster(a)
    <2>1. PICK c : c = CHOOSE x \in Cids : x \notin UsedCids
        OBVIOUS
    <2>2. Pop(a) \/ Then(a, [t EXCEPT !.op = "created", !.cid = c])
        BY <1>0, <1>9, <2>1 DEF CreateCluster
    <2>3. PICK u : u = [t EXCEPT !.op = "created", !.cid = c]
        OBVIOUS
    <2>4. u.op = "created"
        BY <1>5, <2>3
    <2> QED BY <1>3, <1>4, <2>2, <2>3, <2>4 DEF BuildOps, PastOps
<1>10. CASE PutConfig(a)
    <2>1. Pop(a) \/ Then(a, [t EXCEPT !.op = "pushed"])
        BY <1>0, <1>10 DEF PutConfig
    <2> QED BY <1>3, <1>4, <1>5, <2>1 DEF BuildOps, PastOps
<1>11. CASE Clean(a)
    <2>1. PICK n \in t.todo :
            Then(a, [t EXCEPT !.todo = @ \ {n},
                              !.op = IF t.todo = {n} THEN "cloud_init" ELSE "clean"])
        BY <1>0, <1>11 DEF Clean
    <2>2. PICK u : u = [t EXCEPT !.todo = @ \ {n},
                                 !.op = IF t.todo = {n} THEN "cloud_init" ELSE "clean"]
        OBVIOUS
    <2>3. u.op \in {"cloud_init", "clean"}
        BY <1>1, <2>2 DEF GoodTasks
    <2>4. t.op = "clean"
        BY <1>0, <1>11, AtHead DEF Clean
    <2> QED BY <1>4, <2>1, <2>2, <2>3, <2>4 DEF BuildOps, PastOps
<1>12. CASE LaunchVm(a)
    <2>1. t.op = "launch"
        BY <1>0, <1>12, AtHead DEF LaunchVm
    <2>2. PICK n \in t.todo : Pop(a) \/ Then(a, [t EXCEPT !.todo = @ \ {n}])
        BY <1>0, <1>12 DEF LaunchVm
    <2>3. [t EXCEPT !.todo = @ \ {n}].op = "launch"
        BY <1>1, <2>1 DEF GoodTasks
    <2> QED BY <1>3, <1>4, <2>2, <2>3 DEF BuildOps, PastOps
<1>13. CASE Poll(a)
    <2>1. \/ Pop(a) \/ Then(a, [t EXCEPT !.op = "up"])
          \/ Then(a, [t EXCEPT !.op = "timed_out", !.todo = Names(t.k)])
        BY <1>0, <1>13 DEF Poll
    <2>2. CASE Then(a, [t EXCEPT !.op = "timed_out", !.todo = Names(t.k)])
        <3>1. PICK u : u = [t EXCEPT !.op = "timed_out", !.todo = Names(t.k)]
            OBVIOUS
        <3>2. u.op = "timed_out"
            BY <1>5, <3>1
        <3> QED BY <1>4, <2>2, <3>1, <3>2 DEF BuildOps, PastOps
    <2> QED BY <1>3, <1>4, <1>5, <2>1, <2>2 DEF BuildOps, PastOps
<1> QED BY <1>6, <1>7, <1>8, <1>9, <1>10, <1>11, <1>12, <1>13


LEMMA PersistPaused ==
    ASSUME IInv, NEW k, NEW s, Persist(k, s)
    PROVE  mem'.paused = mem.paused /\ mem'.cells = Upsert(mem.cells, k, s) /\ disk' = mem'
<1>1. IsState(mem)
    BY Knows DEF Actors, StateOK
<1> QED BY <1>1 DEF Persist, IsState

(* The steps of drive_cell that persist a stage.                              *)
LEMMA PersistMoves ==
    ASSUME IInv, NEW a \in Actors,
           Created(a) \/ Pushed(a) \/ CloudInit(a) \/ CameUp(a) \/ TimedOut(a)
    PROVE  Moved(a)
<1>0. PICK t : t = Head(work[a])
    OBVIOUS
<1>1. /\ work[a] # <<>> /\ t \in GoodTasks
      /\ t.op \in {"created", "pushed", "cloud_init", "up", "timed_out"} /\ t.op \in BuildOps
    BY <1>0, Knows, AtHead DEF Created, Pushed, CloudInit, CameUp, TimedOut, BuildOps
<1>2. ASSUME NEW u, Then(a, u), u.op \in BuildOps \ PastOps, mem'.paused = mem.paused
      PROVE  Moved(a)
    BY <1>0, <1>1, <1>2, MovedThen DEF BuildOps
<1>3. ASSUME Pop(a), mem'.paused = mem.paused
      PROVE  Moved(a)
    BY <1>0, <1>1, <1>3, MovedPop
<1>4. CASE Created(a)
    <2>1. Persist(t.k, Stage("cluster_created", t.cid, None, {})) /\ Again(a, t)
        BY <1>0, <1>4 DEF Created
    <2> QED BY <1>0, <1>1, <2>1, PersistPaused, AgainMoves
<1>5. CASE Pushed(a)
    <2>1. Persist(t.k, Stage("config_pushed", t.cid, None, {})) /\ Again(a, t)
        BY <1>0, <1>5 DEF Pushed
    <2> QED BY <1>0, <1>1, <2>1, PersistPaused, AgainMoves
<1>6. CASE CloudInit(a)
    <2>1. PICK l : l = CHOOSE x \in Launches : x \notin UsedLaunches
        OBVIOUS
    <2>2. \/ /\ Persist(t.k, Stage("launching", t.cid, l, {}))
             /\ Then(a, [t EXCEPT !.op = "launch", !.launch = l, !.todo = Names(t.k)])
          \/ Pop(a) /\ UNCHANGED state
        BY <1>0, <1>6, <2>1 DEF CloudInit
    <2>3. PICK u : u = [t EXCEPT !.op = "launch", !.launch = l, !.todo = Names(t.k)]
        OBVIOUS
    <2>4. u.op \in BuildOps \ PastOps
        BY <1>1, <2>3 DEF GoodTasks, BuildOps, PastOps
    <2>5. mem'.paused = mem.paused
        BY <2>2, PersistPaused DEF state
    <2> QED BY <1>2, <1>3, <2>2, <2>3, <2>4, <2>5
<1>7. CASE CameUp(a)
    <2>1. Persist(t.k, Stage("running", t.cid, t.launch, t.todo)) /\ Pop(a)
        BY <1>0, <1>7 DEF CameUp
    <2> QED BY <1>3, <2>1, PersistPaused
<1>8. CASE TimedOut(a)
    <2>1. CASE Persist(t.k, Stage("config_pushed", t.cid, None, {})) /\ Again(a, t)
        BY <1>0, <1>1, <2>1, PersistPaused, AgainMoves
    <2>2. ASSUME NEW n, Then(a, [t EXCEPT !.todo = @ \ {n}]), UNCHANGED state
          PROVE  Moved(a)
        <3>1. PICK u : u = [t EXCEPT !.todo = @ \ {n}]
            OBVIOUS
        <3>2. t.op = "timed_out" /\ u.op = t.op
            BY <1>0, <1>1, <1>8, <3>1, AtHead DEF GoodTasks, TimedOut
        <3>3. u.op \in BuildOps \ PastOps
            BY <3>2 DEF BuildOps, PastOps
        <3> QED BY <1>2, <2>2, <3>1, <3>3 DEF state
    <2> QED BY <1>0, <1>8, <2>1, <2>2 DEF TimedOut
<1> QED BY <1>1, <1>4, <1>5, <1>6, <1>7, <1>8

(* The others build nothing and pause by "pause" alone.                       *)
LEMMA OtherMoves ==
    ASSUME IInv, NEW a \in Actors,
           \/ Destroy(a) \/ DestroyVm(a) \/ DestroyCluster(a) \/ Gc(a) \/ GcList(a)
           \/ GcSweep(a) \/ Sweep(a) \/ SweepVm(a) \/ SweepCluster(a) \/ DropGroup(a)
    PROVE  Moved(a)
<1>0. PICK t : t = Head(work[a])
    OBVIOUS
<1>1. /\ work[a] # <<>> /\ t \in GoodTasks
      /\ t.op \in {"destroy", "drop", "destroy_vm", "drop_vm", "destroy_cluster", "gc",
                   "gc_list_vms", "gc_list_clusters", "gc_sweep", "sweep", "sweep_next",
                   "sweep_cluster", "drop_group"}
    BY <1>0, Knows, AtHead DEF Destroy, DestroyVm, DestroyCluster, Gc, GcList, GcSweep, Sweep,
       SweepVm, SweepCluster, DropGroup
<1>2. mem' = mem
    BY DEF Destroy, DestroyVm, DestroyCluster, Gc, GcList, GcSweep, Sweep, SweepVm,
       SweepCluster, DropGroup, state
<1>3. CASE Pop(a)
    BY <1>0, <1>1, <1>2, <1>3, MovedPop
<1>4. ASSUME NEW u, Then(a, u),
             u.op \in {"destroy_vm", "drop_vm", "drop_cell", "destroy_cluster", "forget",
                       "gc_list_vms", "gc_list_clusters", "gc_sweep", "sweep_next",
                       "sweep_cluster"}
      PROVE  Moved(a)
    <2>1. u.op \notin BuildOps /\ u.op \notin PastOps /\ u.op # "pause" /\ t.op # "unpause"
        BY <1>1, <1>4 DEF BuildOps, PastOps
    <2> QED BY <1>0, <1>1, <1>2, <1>4, <2>1, MovedThen
<1>5. CASE Destroy(a)
    <2>1. PICK c, S : c = Find(t.k).cid /\ S = Instances(t.k, Find(t.k))
        OBVIOUS
    <2>2. PICK u : u = [t EXCEPT !.cid = c, !.todo = S, !.op = AfterVms(t.op, S)]
        OBVIOUS
    <2>3. Pop(a) \/ Then(a, u)
        BY <1>0, <1>5, <2>1, <2>2 DEF Destroy
    <2>4. u.op \in {"destroy_vm", "drop_vm", "drop_cell", "destroy_cluster"}
        BY <1>1, <2>2 DEF GoodTasks, AfterVms
    <2> QED BY <1>3, <1>4, <2>3, <2>4
<1>6. CASE DestroyVm(a)
    <2>1. PICK n : Then(a, [t EXCEPT !.todo = @ \ {n}, !.op = AfterVms(t.op, t.todo \ {n})])
        BY <1>0, <1>6 DEF DestroyVm
    <2>2. PICK u : u = [t EXCEPT !.todo = @ \ {n}, !.op = AfterVms(t.op, t.todo \ {n})]
        OBVIOUS
    <2>3. u.op \in {"destroy_vm", "drop_vm", "drop_cell", "destroy_cluster"}
        BY <1>1, <2>2 DEF GoodTasks, AfterVms
    <2> QED BY <1>4, <2>1, <2>2, <2>3
<1>7. CASE DestroyCluster(a)
    <2>1. PICK u : u = [t EXCEPT !.op = "forget"]
        OBVIOUS
    <2>2. Then(a, u) /\ u.op = "forget"
        BY <1>0, <1>1, <1>7, <2>1 DEF DestroyCluster, GoodTasks
    <2> QED BY <1>4, <2>2
<1>8. CASE Gc(a)
    <2>1. PICK u : u = [t EXCEPT !.op = "gc_list_vms", !.keep = Tracked(mem)]
        OBVIOUS
    <2>2. (Pop(a) \/ Then(a, u)) /\ u.op = "gc_list_vms"
        BY <1>0, <1>1, <1>8, <2>1 DEF Gc, GoodTasks
    <2> QED BY <1>3, <1>4, <2>2
<1>9. CASE GcList(a)
    <2>1. PICK u1, u2 :
            /\ u1 = [t EXCEPT !.op = "gc_list_clusters", !.todo = DOMAIN vms \ t.keep]
            /\ u2 = [t EXCEPT !.op = "gc_sweep", !.keep = DOMAIN clusters,
                              !.todo = @ \cup (DOMAIN clusters \ t.keep)]
        OBVIOUS
    <2>2. Pop(a) \/ Then(a, u1) \/ Then(a, u2)
        BY <1>0, <1>9, <2>1 DEF GcList
    <2>3. u1.op = "gc_list_clusters" /\ u2.op = "gc_sweep"
        BY <1>1, <2>1 DEF GoodTasks
    <2> QED BY <1>3, <1>4, <2>2, <2>3
<1>10. CASE GcSweep(a)
    <2>1. t.op = "gc_sweep"
        BY <1>0, <1>10, AtHead DEF GcSweep
    <2>2. PICK x : Then(a, [t EXCEPT !.todo = @ \ {x}])
        BY <1>0, <1>10 DEF GcSweep
    <2>3. PICK u : u = [t EXCEPT !.todo = @ \ {x}]
        OBVIOUS
    <2>4. u.op = "gc_sweep"
        BY <1>1, <2>1, <2>3 DEF GoodTasks
    <2> QED BY <1>4, <2>2, <2>3, <2>4
<1>11. CASE Sweep(a)
    <2>1. PICK u : u = [t EXCEPT !.op = "sweep_next",
                                 !.todo = {<<c, clusters[c]>> : c \in DOMAIN clusters}]
        OBVIOUS
    <2>2. (Pop(a) \/ Then(a, u)) /\ u.op = "sweep_next"
        BY <1>0, <1>1, <1>11, <2>1 DEF Sweep, GoodTasks
    <2> QED BY <1>3, <1>4, <2>2
<1>12. CASE SweepVm(a)
    <2>1. PICK row : row = CHOOSE x \in t.todo : TRUE
        OBVIOUS
    <2>2. PICK u : u = [t EXCEPT !.op = "sweep_cluster", !.cid = row[1], !.todo = @ \ {row}]
        OBVIOUS
    <2>3. Pop(a) \/ Then(a, u)
        BY <1>0, <1>12, <2>1, <2>2 DEF SweepVm
    <2>4. u.op = "sweep_cluster"
        BY <1>1, <2>2 DEF GoodTasks
    <2> QED BY <1>3, <1>4, <2>3, <2>4
<1>13. CASE SweepCluster(a)
    <2>1. PICK u : u = [t EXCEPT !.op = "sweep_next"]
        OBVIOUS
    <2>2. Then(a, u) /\ u.op = "sweep_next"
        BY <1>0, <1>1, <1>13, <2>1 DEF SweepCluster, GoodTasks
    <2> QED BY <1>4, <2>2
<1>14. CASE DropGroup(a)
    BY <1>3, <1>14 DEF DropGroup
<1> QED BY <1>5, <1>6, <1>7, <1>8, <1>9, <1>10, <1>11, <1>12, <1>13, <1>14

LEMMA StateMoves ==
    ASSUME IInv, NEW a \in Actors, Forget(a) \/ SetState(a)
    PROVE  Moved(a)
<1>1. work[a] # <<>> /\ Pop(a)
    BY AtHead DEF Forget, SetState
<1>2. DOMAIN mem = {"cells", "paused"}
    BY Knows DEF StateOK, IsState
<1>3. CASE Forget(a)
    <2>1. mem'.paused = mem.paused /\ Head(work[a]).op # "unpause"
        BY <1>2, <1>3, AtHead DEF Forget
    <2> QED BY <1>1, <2>1, MovedPop
<1>4. CASE SetState(a)
    <2>1. /\ Head(work[a]).op = "unpause" => ~mem'.paused
          /\ mem'.paused => mem.paused \/ Head(work[a]).op = "pause"
        <3>1. CASE At(a, "pause") /\ SetPaused(TRUE)
            BY <3>1, AtHead
        <3>2. CASE At(a, "unpause") /\ SetPaused(FALSE)
            BY <1>2, <3>2, AtHead DEF SetPaused
        <3>3. CASE At(a, "reset") /\ Persist(Head(work[a]).k, Pending)
            BY <3>3, AtHead, PersistPaused
        <3>4. CASE At(a, "clear") /\ mem' = [mem EXCEPT !.cells = Drop(@, DOMAIN @)]
            BY <1>2, <3>4, AtHead
        <3>5. CASE At(a, "save") /\ UNCHANGED mem
            BY <3>5, AtHead
        <3> QED BY <1>4, <3>1, <3>2, <3>3, <3>4, <3>5 DEF SetState
    <2> QED BY <1>1, <2>1, MovedPop
<1> QED BY <1>3, <1>4

LEMMA PlanMoves ==
    ASSUME IInv, NEW a \in Actors, Reconcile(a) \/ Stale(a) \/ GcReverse(a)
    PROVE  Moved(a)
<1>1. work[a] # <<>> /\ Head(work[a]).op \in {"reconcile", "stale", "gc_sweep"}
    BY AtHead DEF Reconcile, Stale, GcReverse
<1>2. mem' = mem
    BY DEF Reconcile, Stale, GcReverse, state
<1>3. CASE Reconcile(a)
    <2>1. Head(work[a]).op = "reconcile"
        BY <1>3, AtHead DEF Reconcile
    <2>2. CASE mem.paused /\ Pop(a)
        BY <1>1, <1>2, <2>1, <2>2, MovedPop
    <2>3. CASE /\ ~mem.paused
               /\ Do(a, ForEach("drive", matrix) \o <<Task("stale", None), Task("gc", None)>>)
        <3>1. PICK v \in Seq(GoodTasks) :
                /\ Shape(v) /\ work' = [work EXCEPT ![a] = v]
                /\ \A i \in 1 .. Len(v) : v[i].op \in {"drive", "stale", "gc"}
            BY <1>1, <2>1, <2>3, ReconcileTasks
        <3>2. \A i \in 1 .. Len(v) : v[i].op \in StartOps \ {"pause"}
            BY <3>1 DEF StartOps
        <3> QED BY <1>1, <1>2, <2>1, <2>3, <3>1, <3>2, MovedAll
    <2> QED BY <1>3, <2>2, <2>3 DEF Reconcile
<1>4. CASE Stale(a)
    <2>1. PICK v \in Seq(GoodTasks) :
            /\ Shape(v) /\ work' = [work EXCEPT ![a] = v]
            /\ \A i \in 1 .. Len(v) : v[i].op \in {"destroy", "gc"}
        BY <1>4, StaleTasks
    <2>2. \A i \in 1 .. Len(v) : v[i].op \in StartOps \ {"pause"} /\ v[i].op \notin BuildOps
        BY <2>1 DEF StartOps, BuildOps
    <2> QED BY <1>1, <1>2, <2>1, <2>2, MovedAll
<1>5. CASE GcReverse(a)
    <2>1. PICK v \in Seq(GoodTasks) :
            /\ Shape(v) /\ work' = [work EXCEPT ![a] = v]
            /\ \A i \in 1 .. Len(v) : v[i].op \in {"drop", "save"}
        BY <1>5, GcReverseTasks
    <2>2. \A i \in 1 .. Len(v) : v[i].op \in StartOps \ {"pause"} /\ v[i].op \notin BuildOps
        BY <2>1 DEF StartOps, BuildOps
    <2> QED BY <1>1, <1>2, <2>1, <2>2, MovedAll
<1> QED BY <1>3, <1>4, <1>5

LEMMA StepMoves ==
    ASSUME IInv, NEW a \in Actors, Step(a)
    PROVE  Moved(a)
BY DriveMoves, BuildMoves, PersistMoves, OtherMoves, StateMoves, PlanMoves DEF Step

(* Nothing is built under a pause by the tasks of a locked operation.          *)
LEMMA MovedPauses ==
    ASSUME IInv, RaceInv, NEW a \in Actors, Moved(a)
    PROVE  /\ PauseSafe(work["op"])'
           /\ \A i \in 1 .. Len(work'["chaos"]) : work'["chaos"][i].op # "pause"
<1>1. CASE a = "op"
    <2> DEFINE w == work["op"]
               v == work'["op"]
    <2>1. w \in Seq(GoodTasks) /\ Shape(w) /\ w # <<>> /\ PauseSafe(w)
        BY <1>1, Knows DEF WorkOK, Moved, RaceInv
    <2>2. Len(w) \in Nat /\ Len(w) >= 1 /\ Head(w) = w[1]
        BY <2>1, PoppedSeq
    <2>3. \A i \in 1 .. Len(v) :
             \/ \E j \in 2 .. Len(w) : v[i] = w[j]
             \/ /\ v[i].op # "pause"
                /\ v[i].op \in BuildOps =>
                     w[1].op \in BuildOps \/ (w[1].op = "reconcile" /\ ~mem.paused)
        BY <1>1, <2>2 DEF Moved
    <2>4. /\ w[1].op = "unpause" => ~mem'.paused
          /\ mem'.paused => mem.paused \/ w[1].op = "pause"
        BY <1>1, <2>2 DEF Moved
    <2>5. work'["chaos"] = work["chaos"]
        BY <1>1 DEF Moved, Actors
    <2>6. ASSUME NEW i \in 1 .. Len(v), v[i].op \in BuildOps
          PROVE  ~mem'.paused /\ \A j \in 1 .. Len(v) : v[j].op # "pause"
        <3>1. CASE w[1].op = "reconcile" /\ ~mem.paused /\ Len(w) = 1
            <4>1. \A j \in 1 .. Len(v) : v[j].op # "pause"
                BY <2>3, <3>1
            <4> QED BY <2>4, <3>1, <4>1
        <3>2. CASE \E j \in 1 .. Len(w) : w[j].op \in BuildOps
            <4>1. (~mem.paused \/ w[1].op = "unpause") /\ \A j \in 1 .. Len(w) : w[j].op # "pause"
                BY <2>1, <3>2 DEF PauseSafe
            <4>2. w[1].op # "pause"
                BY <2>2, <4>1
            <4>3. \A j \in 1 .. Len(v) : v[j].op # "pause"
                BY <2>2, <2>3, <4>1
            <4> QED BY <2>4, <4>1, <4>2, <4>3
        <3>3. w[1].op = "reconcile" => Len(w) = 1
            <4> HIDE DEF w
            <4>1. 1 \in 1 .. Len(w)
                BY <2>2
            <4> QED BY <2>1, <4>1 DEF Shape
        <3>4. \/ \E j \in 2 .. Len(w) : w[j].op \in BuildOps
              \/ w[1].op \in BuildOps \/ (w[1].op = "reconcile" /\ ~mem.paused)
            BY <2>3, <2>6
        <3>5. \/ \E j \in 1 .. Len(w) : w[j].op \in BuildOps
              \/ w[1].op = "reconcile" /\ ~mem.paused /\ Len(w) = 1
            BY <2>2, <3>3, <3>4
        <3> QED BY <3>1, <3>2, <3>5
    <2>7. PauseSafe(work["op"])'
        BY <2>6 DEF PauseSafe
    <2> QED BY <2>5, <2>7 DEF RaceInv
<1>2. CASE a = "chaos"
    <2> DEFINE w == work["chaos"]
               v == work'["chaos"]
    <2>1. w \in Seq(GoodTasks) /\ w # <<>> /\ \A j \in 1 .. Len(w) : w[j].op # "pause"
        BY <1>2, Knows DEF WorkOK, Moved, RaceInv
    <2>2. Len(w) \in Nat /\ Len(w) >= 1 /\ Head(w) = w[1]
        BY <2>1, PoppedSeq
    <2>3. \A i \in 1 .. Len(v) : (\E j \in 2 .. Len(w) : v[i] = w[j]) \/ v[i].op # "pause"
        BY <1>2 DEF Moved
    <2>4. \A i \in 1 .. Len(v) : v[i].op # "pause"
        BY <2>1, <2>2, <2>3
    <2>5. mem'.paused => mem.paused
        <3>1. Head(w).op # "pause"
            BY <2>1, <2>2
        <3> QED BY <1>2, <3>1 DEF Moved
    <2>6. work'["op"] = work["op"] /\ PauseSafe(work["op"])
        BY <1>2 DEF Moved, Actors, RaceInv
    <2>7. PauseSafe(work["op"])'
        BY <2>5, <2>6 DEF PauseSafe
    <2> QED BY <2>4, <2>7
<1> QED BY <1>1, <1>2 DEF Actors

Budget ==
    Cap > 0 =>
      /\ Cardinality(DiskLaunching) <= Cap + 1
      /\ \A a \in Actors : Past(a) => Cardinality(Launching) <= Cap
      /\ (\A a \in Actors : Past(a)) => Cardinality(Launching) < Cap

LEMMA RaceParts ==
    /\ RaceInv => Budget
    /\ RaceInv' <=> /\ PauseSafe(work["op"])' /\ Budget'
                    /\ \A i \in 1 .. Len(work'["chaos"]) : work'["chaos"][i].op # "pause"
BY DEF RaceInv, Budget

LEMMA CardinalitiesKept ==
    ASSUME StateOK, StateOK', Launching' \subseteq Launching, DiskLaunching' \subseteq DiskLaunching
    PROVE  /\ Cardinality(Launching') <= Cardinality(Launching)
           /\ Cardinality(DiskLaunching') <= Cardinality(DiskLaunching)
           /\ Cardinality(Launching) \in Nat /\ Cardinality(Launching') \in Nat
           /\ Cardinality(DiskLaunching) \in Nat /\ Cardinality(DiskLaunching') \in Nat
<1>1. IsFiniteSet(Launching) /\ IsFiniteSet(DiskLaunching)
    BY LaunchingFinite
<1>2. IsFiniteSet(Launching') /\ IsFiniteSet(DiskLaunching')
    BY <1>1, FS_Subset
<1> QED BY <1>1, <1>2, FS_Subset, FS_CardinalityType

(* No cell enters Launching.                                                  *)
LEMMA BudgetMoved ==
    ASSUME StateOK, StateOK', Budget,
           Launching' \subseteq Launching, DiskLaunching' \subseteq DiskLaunching,
           NEW a \in Actors, Past(a)' => Past(a) \/ ~LaunchQueueFull,
           \A b \in Actors \ {a} : Past(b)' => Past(b)
    PROVE  Budget'
<1> SUFFICES ASSUME Cap > 0
             PROVE  /\ Cardinality(DiskLaunching') <= Cap + 1
                    /\ \A b \in Actors : Past(b)' => Cardinality(Launching') <= Cap
                    /\ (\A b \in Actors : Past(b)') => Cardinality(Launching') < Cap
    BY DEF Budget
<1>1. /\ Cardinality(Launching') <= Cardinality(Launching)
      /\ Cardinality(DiskLaunching') <= Cardinality(DiskLaunching)
      /\ Cardinality(Launching) \in Nat /\ Cardinality(Launching') \in Nat
      /\ Cardinality(DiskLaunching) \in Nat /\ Cardinality(DiskLaunching') \in Nat
    BY CardinalitiesKept
<1>2. Cap \in Nat
    BY FleetAssumption
<1>3. ~LaunchQueueFull => Cardinality(Launching) < Cap
    BY <1>1, <1>2 DEF LaunchQueueFull
<1>4. Cardinality(DiskLaunching') <= Cap + 1
    BY <1>1, <1>2 DEF Budget
<1>5. ASSUME NEW b \in Actors, Past(b)'
      PROVE  Cardinality(Launching') <= Cap
    <2>1. Past(b) \/ ~LaunchQueueFull
        BY <1>5
    <2>2. Cardinality(Launching) <= Cap
        BY <1>1, <1>2, <1>3, <2>1 DEF Budget
    <2> QED BY <1>1, <1>2, <2>2
<1>6. ASSUME \A b \in Actors : Past(b)'
      PROVE  Cardinality(Launching') < Cap
    <2>1. (\A b \in Actors : Past(b)) \/ ~LaunchQueueFull
        BY <1>6
    <2>2. Cardinality(Launching) < Cap
        BY <1>3, <2>1 DEF Budget
    <2> QED BY <1>1, <1>2, <2>2
<1> QED BY <1>4, <1>5, <1>6

(* One cell enters Launching, by the room its actor had found.                *)
LEMMA BudgetUsed ==
    ASSUME StateOK, StateOK', Budget, NEW k, disk' = mem', Launching' \subseteq Launching \cup {k},
           NEW a \in Actors, Past(a), ~Past(a)', \A b \in Actors \ {a} : Past(b)' => Past(b)
    PROVE  Budget'
<1> SUFFICES ASSUME Cap > 0
             PROVE  /\ Cardinality(DiskLaunching') <= Cap + 1
                    /\ \A b \in Actors : Past(b)' => Cardinality(Launching') <= Cap
                    /\ (\A b \in Actors : Past(b)') => Cardinality(Launching') < Cap
    BY DEF Budget
<1>1. IsFiniteSet(Launching) /\ Cardinality(Launching) \in Nat /\ Cap \in Nat
    BY LaunchingFinite, FleetAssumption
<1>2. Cardinality(Launching') <= Cardinality(Launching) + 1 /\ Cardinality(Launching') \in Nat
    <2>1. IsFiniteSet(Launching \cup {k}) /\ Cardinality(Launching \cup {k}) =
            IF k \in Launching THEN Cardinality(Launching) ELSE Cardinality(Launching) + 1
        BY <1>1, FS_AddElement
    <2>2. /\ IsFiniteSet(Launching') /\ Cardinality(Launching') <= Cardinality(Launching \cup {k})
        BY <2>1, FS_Subset
    <2>3. Cardinality(Launching') \in Nat
        BY <2>2, FS_CardinalityType
    <2> QED BY <1>1, <2>1, <2>2, <2>3
<1>3. DiskLaunching' = Launching'
    BY DEF DiskLaunching, Launching
<1>4. Cardinality(Launching) <= Cap
    BY DEF Budget
<1>5. Cardinality(DiskLaunching') <= Cap + 1
    BY <1>1, <1>2, <1>3, <1>4
<1>6. ASSUME NEW b \in Actors, Past(b)'
      PROVE  Cardinality(Launching') <= Cap
    <2>1. b # a /\ Past(b)
        BY <1>6
    <2>2. \A x \in Actors : Past(x)
        BY <2>1 DEF Actors
    <2>3. Cardinality(Launching) < Cap
        BY <2>2 DEF Budget
    <2> QED BY <1>1, <1>2, <2>3
<1> QED BY <1>5, <1>6

(* Persisting any other stage, dropping cells and saving launch nothing.       *)
LEMMA UpsertLaunches ==
    ASSUME IInv, NEW k, NEW s, Persist(k, s)
    PROVE  /\ Launching' \subseteq Launching \cup {k} /\ DiskLaunching' = Launching'
           /\ s.st # "launching" => Launching' \subseteq Launching
<1>1. mem'.cells = Upsert(mem.cells, k, s) /\ disk' = mem'
    BY PersistPaused
<1>2. /\ DOMAIN mem'.cells = DOMAIN mem.cells \cup {k} /\ mem'.cells[k] = s
      /\ \A x \in DOMAIN mem.cells : x # k => mem'.cells[x] = mem.cells[x]
    BY <1>1 DEF Upsert
<1> QED BY <1>1, <1>2 DEF Launching, DiskLaunching

LEMMA StepLaunches ==
    ASSUME IInv, NEW a \in Actors, Step(a)
    PROVE  \/ Launching' \subseteq Launching /\ DiskLaunching' \subseteq DiskLaunching
           \/ /\ Past(a) /\ ~Past(a)' /\ disk' = mem'
              /\ \E k : Launching' \subseteq Launching \cup {k}
<1>0. Launching \subseteq DiskLaunching /\ DOMAIN mem = {"cells", "paused"}
    BY Knows, LaunchingFinite DEF StateOK, IsState
<1>1. CASE UNCHANGED state
    BY <1>1 DEF state, Launching, DiskLaunching
<1>2. ASSUME NEW k, NEW s, Persist(k, s), s.st # "launching"
      PROVE  Launching' \subseteq Launching /\ DiskLaunching' \subseteq DiskLaunching
    BY <1>0, <1>2, UpsertLaunches
<1>3. CASE Created(a) \/ Pushed(a) \/ CameUp(a) \/ TimedOut(a)
    <2>1. \A c, l, S : /\ Stage("cluster_created", c, l, S).st # "launching"
                       /\ Stage("config_pushed", c, l, S).st # "launching"
                       /\ Stage("running", c, l, S).st # "launching"
        BY DEF Stage
    <2>2. UNCHANGED state \/ \E k, s : Persist(k, s) /\ s.st # "launching"
        BY <1>3, <2>1 DEF Created, Pushed, CameUp, TimedOut
    <2> QED BY <1>1, <1>2, <2>2
<1>4. CASE CloudInit(a)
    <2>0. PICK t : t = Head(work[a])
        OBVIOUS
    <2>1. work[a] # <<>> /\ t.op = "cloud_init" /\ t \in GoodTasks
        BY <1>4, <2>0, Knows, AtHead DEF CloudInit
    <2>2. PICK l : l = CHOOSE x \in Launches : x \notin UsedLaunches
        OBVIOUS
    <2>3. CASE /\ Persist(t.k, Stage("launching", t.cid, l, {}))
               /\ Then(a, [t EXCEPT !.op = "launch", !.launch = l, !.todo = Names(t.k)])
        <3>1. PICK u : u = [t EXCEPT !.op = "launch", !.launch = l, !.todo = Names(t.k)]
            OBVIOUS
        <3>2. u.op = "launch"
            BY <2>1, <3>1 DEF GoodTasks
        <3>3. work' = [work EXCEPT ![a] = <<u>> \o Tail(work[a])]
            BY <2>3, <3>1, Knows, DoIs DEF Then
        <3>4. work'[a] = <<u>> \o Tail(work[a]) /\ work[a] \in Seq(GoodTasks \cup {u})
            BY <3>3, Knows DEF WorkOK
        <3>5. PICK G : G = GoodTasks \cup {u}
            OBVIOUS
        <3>6. Head(work'[a]) = u
            <4>1. work[a] \in Seq(G) /\ u \in G
                BY <3>4, <3>5
            <4> QED BY <2>1, <3>4, <4>1, ReplacedSeq
        <3>7. Past(a) /\ ~Past(a)'
            BY <2>0, <2>1, <3>2, <3>6 DEF Past
        <3>8. Launching' \subseteq Launching \cup {t.k} /\ disk' = mem'
            BY <2>3, UpsertLaunches, PersistPaused
        <3> QED BY <3>7, <3>8
    <2> QED BY <1>1, <1>4, <2>0, <2>2, <2>3 DEF CloudInit
<1>5. CASE Forget(a)
    <2>1. PICK S : mem' = [mem EXCEPT !.cells = Drop(@, S)] /\ disk' \in {disk, mem'}
        BY <1>5 DEF Forget
    <2>2. mem'.cells = Drop(mem.cells, S)
        BY <1>0, <2>1
    <2>3. DOMAIN mem'.cells \subseteq DOMAIN mem.cells
          /\ \A k \in DOMAIN mem'.cells : mem'.cells[k] = mem.cells[k]
        BY <2>2 DEF Drop
    <2> QED BY <1>0, <2>1, <2>3 DEF Launching, DiskLaunching
<1>6. CASE SetState(a)
    <2>1. CASE SetPaused(TRUE) \/ SetPaused(FALSE)
        <3>1. mem'.cells = mem.cells /\ disk' = mem'
            BY <1>0, <2>1 DEF SetPaused
        <3> QED BY <1>0, <3>1 DEF Launching, DiskLaunching
    <2>2. CASE Persist(Head(work[a]).k, Pending)
        <3>1. Pending.st # "launching"
            BY DEF Pending, Stage
        <3> QED BY <1>2, <2>2, <3>1
    <2>3. CASE mem' = [mem EXCEPT !.cells = Drop(@, DOMAIN @)] /\ disk' = mem'
        <3>1. mem'.cells = Drop(mem.cells, DOMAIN mem.cells)
            BY <1>0, <2>3
        <3>2. DOMAIN mem'.cells = {}
            BY <3>1 DEF Drop
        <3> QED BY <2>3, <3>2 DEF Launching, DiskLaunching
    <2>4. CASE disk' = mem /\ UNCHANGED mem
        BY <1>0, <2>4 DEF Launching, DiskLaunching
    <2> QED BY <1>6, <2>1, <2>2, <2>3, <2>4 DEF SetState
<1>7. CASE \/ Drive(a) \/ ListStray(a) \/ WipeVm(a) \/ WipeCluster(a) \/ CreateCluster(a)
           \/ PutConfig(a) \/ Clean(a) \/ LaunchVm(a) \/ Poll(a)
    BY <1>1, <1>7 DEF Drive, ListStray, WipeVm, WipeCluster, CreateCluster, PutConfig, Clean,
       LaunchVm, Poll
<1>8. CASE \/ Reconcile(a) \/ Stale(a) \/ Destroy(a) \/ DestroyVm(a) \/ DestroyCluster(a)
           \/ Gc(a) \/ GcList(a) \/ GcSweep(a) \/ GcReverse(a)
           \/ Sweep(a) \/ SweepVm(a) \/ SweepCluster(a) \/ DropGroup(a)
    BY <1>1, <1>8 DEF Reconcile, Stale, Destroy, DestroyVm, DestroyCluster, Gc, GcList,
       GcSweep, GcReverse, Sweep, SweepVm, SweepCluster, DropGroup
<1> QED BY <1>3, <1>4, <1>5, <1>6, <1>7, <1>8 DEF Step

LEMMA StepRaces ==
    ASSUME IInv, IInv', RaceInv, NEW a \in Actors, Step(a)
    PROVE  RaceInv'
<1>1. Moved(a)
    BY StepMoves
<1>2. StateOK /\ StateOK' /\ Budget
    BY Parts, RaceParts DEF PartsOK
<1>3. \A b \in Actors \ {a} : Past(b)' => Past(b)
    BY <1>1 DEF Moved, Past
<1>4. Past(a)' => Past(a) \/ ~LaunchQueueFull
    BY <1>1 DEF Moved
<1>5. Budget'
    <2>1. CASE Launching' \subseteq Launching /\ DiskLaunching' \subseteq DiskLaunching
        BY <1>2, <1>3, <1>4, <2>1, BudgetMoved
    <2>2. ASSUME Past(a), ~Past(a)', disk' = mem', NEW k, Launching' \subseteq Launching \cup {k}
          PROVE  Budget'
        BY <1>2, <1>3, <2>2, BudgetUsed
    <2> QED BY <2>1, <2>2, StepLaunches
<1> QED BY <1>1, <1>5, MovedPauses, RaceParts

LEMMA ReprovisionNoPause ==
    ASSUME NEW k \in Cells
    PROVE  LET v == ReprovisionTasks(k) IN
           /\ v \in Seq(GoodTasks) /\ v # <<>> /\ v[1].op = "unpause"
           /\ \A i \in 1 .. Len(v) : v[i].op # "pause"
<1>1. PICK v : v = ReprovisionTasks(k)
    OBVIOUS
<1>2. /\ v \in Seq(GoodTasks) /\ Len(v) = 4 /\ v # <<>>
      /\ v[1].op = "unpause" /\ v[2].op = "destroy" /\ v[3].op = "reset" /\ v[4].op = "drive"
    BY <1>1, ReprovisionIs
<1>3. \A i \in 1 .. Len(v) : i = 1 \/ i = 2 \/ i = 3 \/ i = 4
    BY <1>2
<1>4. \A i \in 1 .. Len(v) : v[i].op # "pause"
    BY <1>2, <1>3
<1> QED BY <1>1, <1>2, <1>4

(* What an operation begins with.                                             *)
LEMMA OperationTasks ==
    ASSUME IInv, ReconcileTick \/ Operator
    PROVE  \E v \in Seq(GoodTasks) :
             /\ Begin(v) /\ v # <<>> /\ v[1].op \in StartOps
             /\ \/ \A i \in 1 .. Len(v) : v[i].op \notin BuildOps
                \/ v[1].op = "unpause" /\ \A i \in 1 .. Len(v) : v[i].op # "pause"
<1>1. ASSUME NEW op \in {"reconcile", "gc", "unpause"}, Begin(<<Task(op, None)>>)
      PROVE  \E v \in Seq(GoodTasks) :
               /\ Begin(v) /\ v # <<>> /\ v[1].op \in StartOps
               /\ \A i \in 1 .. Len(v) : v[i].op \notin BuildOps
    <2>1. PICK g : g = Task(op, None)
        OBVIOUS
    <2>2. g \in GoodTasks /\ g.op = op /\ op \in StartOps /\ op \notin BuildOps /\ op # "stale"
        BY <2>1, NoneTask DEF StartOps, BuildOps
    <2>3. PICK v : v = <<g>>
        OBVIOUS
    <2>4. v \in Seq(GoodTasks) /\ v # <<>> /\ v[1] = g /\ \A j \in 1 .. Len(v) : v[j] = g
        BY <2>2, <2>3, OneTask
    <2> QED BY <1>1, <2>1, <2>2, <2>3, <2>4
<1>2. ASSUME NEW y \in Seq(GoodTasks), Shape(y), y # <<>>,
             \A i \in 1 .. Len(y) : y[i].op \in StartOps /\ y[i].op \notin BuildOps,
             Begin(ForEach("destroy", DOMAIN mem.cells) \o y)
      PROVE  \E v \in Seq(GoodTasks) :
               /\ Begin(v) /\ v # <<>> /\ v[1].op \in StartOps
               /\ \A i \in 1 .. Len(v) : v[i].op \notin BuildOps
    <2>1. PICK D : D = DOMAIN mem.cells
        OBVIOUS
    <2>2. D \subseteq Cells
        BY <2>1, Knows DEF Actors, StateOK, IsState
    <2>3. Len(y) \in Nat /\ Len(y) >= 1 /\ y[1].op \in StartOps
        BY <1>2, PoppedSeq
    <2>4. PICK x : x = ForEach("destroy", D)
        OBVIOUS
    <2>5. x \in Seq(GoodTasks)
        BY <2>2, <2>4, ForEachIs
    <2>6. PICK v : v = x \o y
        OBVIOUS
    <2>7. /\ v \in Seq(GoodTasks)
          /\ \A i \in 1 .. Len(v) :
               v[i].op = "destroy" \/ \E j \in 1 .. Len(y) : v[i] = y[j]
        <3>1. v = ForEach("destroy", D) \o y
            BY <2>4, <2>6
        <3> QED BY <1>2, <2>2, <2>3, <3>1, FollowedIs
    <2>8. v # <<>> /\ 1 \in 1 .. Len(v)
        <3>1. Len(v) = Len(x) + Len(y) /\ Len(x) \in Nat
            BY <2>5, <2>6, ConcatSeq
        <3>2. Len(v) \in Nat /\ Len(v) >= 1
            BY <2>3, <3>1
        <3> QED BY <2>7, <3>2
    <2>9. \A i \in 1 .. Len(v) : v[i].op \in StartOps /\ v[i].op \notin BuildOps
        BY <1>2, <2>7 DEF StartOps, BuildOps
    <2>10. Begin(v)
        BY <1>2, <2>1, <2>4, <2>6
    <2> QED BY <2>7, <2>8, <2>9, <2>10
<1>3. CASE Begin(TeardownTasks)
    <2>1. PICK y : y = <<Task("pause", None), Task("sweep", None), Task("drop_group", None)>>
        OBVIOUS
    <2>2. Begin(ForEach("destroy", DOMAIN mem.cells) \o y)
        BY <1>3, <2>1 DEF TeardownTasks
    <2>3. /\ y \in Seq(GoodTasks) /\ Shape(y) /\ y # <<>>
          /\ \A i \in 1 .. Len(y) : y[i].op \in StartOps \ {"reset"} /\ y[i].op \notin BuildOps
        BY <2>1, TeardownRest, Zenon
    <2> QED BY <1>2, <2>2, <2>3
<1>4. CASE Begin(TeardownTasks \o <<Task("unpause", None), Task("sweep", None),
                                    Task("clear", None), Task("reconcile", None)>>)
    <2>1. PICK y : /\ y \in Seq(GoodTasks) /\ Shape(y) /\ y # <<>>
                   /\ \A i \in 1 .. Len(y) :
                        y[i].op \in StartOps \ {"reset"} /\ y[i].op \notin BuildOps
                   /\ Begin(ForEach("destroy", DOMAIN mem.cells) \o y)
        BY <1>4, RedeployBegins
    <2> QED BY <1>2, <2>1
<1>5. ASSUME NEW k \in matrix, Begin(ReprovisionTasks(k))
      PROVE  \E v \in Seq(GoodTasks) :
               /\ Begin(v) /\ v # <<>> /\ v[1].op \in StartOps
               /\ v[1].op = "unpause" /\ \A i \in 1 .. Len(v) : v[i].op # "pause"
    <2>1. k \in Cells
        BY Knows, FleetAssumption DEF Actors, OthersOK
    <2>2. PICK v : v = ReprovisionTasks(k)
        OBVIOUS
    <2>3. /\ v \in Seq(GoodTasks) /\ v # <<>> /\ v[1].op = "unpause"
          /\ \A i \in 1 .. Len(v) : v[i].op # "pause"
        BY <2>1, <2>2, ReprovisionNoPause
    <2>4. v[1].op \in StartOps
        BY <2>3 DEF StartOps
    <2> QED BY <1>5, <2>2, <2>3, <2>4
<1> QED BY <1>1, <1>3, <1>4, <1>5 DEF ReconcileTick, Operator

(* The tasks of neither actor change: the frame of a step outside.            *)
LEMMA FrameRaces ==
    ASSUME IInv, IInv', RaceInv, UNCHANGED work, mem'.paused = mem.paused,
           Launching' \subseteq Launching, DiskLaunching' \subseteq DiskLaunching
    PROVE  RaceInv'
<1>1. StateOK /\ StateOK' /\ Budget
    BY Parts, RaceParts DEF PartsOK
<1>2. \A b \in Actors : Past(b)' => Past(b)
    BY DEF Past
<1>3. Budget'
    BY <1>1, <1>2, BudgetMoved DEF Actors
<1>4. PauseSafe(work["op"])' /\ \A i \in 1 .. Len(work'["chaos"]) : work'["chaos"][i].op # "pause"
    BY DEF RaceInv, PauseSafe
<1> QED BY <1>3, <1>4, RaceParts

LEMMA BeginRaces ==
    ASSUME IInv, IInv', RaceInv, ReconcileTick \/ Operator
    PROVE  RaceInv'
<1>1. PICK v \in Seq(GoodTasks) :
        /\ Begin(v) /\ v # <<>> /\ v[1].op \in StartOps
        /\ \/ \A i \in 1 .. Len(v) : v[i].op \notin BuildOps
           \/ v[1].op = "unpause" /\ \A i \in 1 .. Len(v) : v[i].op # "pause"
    BY OperationTasks
<1>2. /\ work'["op"] = v /\ work'["chaos"] = work["chaos"] /\ UNCHANGED state
    BY <1>1, Knows DEF Begin, WorkOK, Actors
<1>3. PauseSafe(work["op"])'
    BY <1>1, <1>2 DEF PauseSafe
<1>4. StateOK /\ StateOK' /\ Budget
    BY Parts, RaceParts DEF PartsOK
<1>5. ~Past("op")' /\ (Past("chaos")' => Past("chaos"))
    <2>1. Head(v) = v[1]
        BY <1>1, PoppedSeq
    <2> QED BY <1>1, <1>2, <2>1, StartNotPast DEF Past, PastOps
<1>6. Launching' = Launching /\ DiskLaunching' = DiskLaunching
    BY <1>2 DEF state, Launching, DiskLaunching
<1>7. Budget'
    BY <1>4, <1>5, <1>6, BudgetMoved DEF Actors
<1> QED BY <1>2, <1>3, <1>7, RaceParts DEF RaceInv

(* A tick of the chaos loop, and what it does to the power of an instance.     *)
LEMMA ChaosRaces ==
    ASSUME IInv, IInv', RaceInv, NEW v \in Seq(GoodTasks),
           work' = [work EXCEPT !["chaos"] = v], v # <<>> => Head(v).op \in StartOps \cup PowerOps,
           \A i \in 1 .. Len(v) : v[i].op # "pause", mem'.paused = mem.paused,
           Launching' \subseteq Launching, DiskLaunching' \subseteq DiskLaunching
    PROVE  RaceInv'
<1>1. work'["op"] = work["op"] /\ work'["chaos"] = v
    BY Knows DEF WorkOK, Actors
<1>2. StateOK /\ StateOK' /\ Budget
    BY Parts, RaceParts DEF PartsOK
<1>3. ~Past("chaos")' /\ (Past("op")' => Past("op"))
    BY <1>1, StartNotPast DEF Past, PastOps
<1>4. Budget'
    BY <1>2, <1>3, BudgetMoved DEF Actors
<1>5. PauseSafe(work["op"])'
    BY <1>1 DEF RaceInv, PauseSafe
<1> QED BY <1>1, <1>4, <1>5, RaceParts

LEMMA TickRaces ==
    ASSUME IInv, IInv', RaceInv, ChaosVmTick
    PROVE  RaceInv'
<1>1. UNCHANGED state /\ Launching' = Launching /\ DiskLaunching' = DiskLaunching
      /\ mem'.paused = mem.paused
    BY DEF ChaosVmTick, state, Launching, DiskLaunching
<1>2. PICK k \in Cells :
        \/ \E n : work' = [work EXCEPT !["chaos"] = <<[Task("check", k) EXCEPT !.todo = {n}]>>]
        \/ work' = [work EXCEPT !["chaos"] = ReprovisionTasks(k)]
        \/ \E n : work' = [work EXCEPT !["chaos"] = <<[Task("status", k) EXCEPT !.todo = {n}]>>]
    BY DEF ChaosVmTick
<1>3. ASSUME NEW op \in {"check", "status"}, NEW n,
             work' = [work EXCEPT !["chaos"] = <<[Task(op, k) EXCEPT !.todo = {n}]>>]
      PROVE  RaceInv'
    <2>1. PICK u : u = [Task(op, k) EXCEPT !.todo = {n}]
        OBVIOUS
    <2>2. u.op = op
        BY <2>1 DEF Task
    <2>3. PICK v : v = <<u>>
        OBVIOUS
    <2>4. work' = [work EXCEPT !["chaos"] = v] /\ work'["chaos"] = v
        BY <1>3, <2>1, <2>3, Knows DEF WorkOK, Actors
    <2>5. v \in Seq(GoodTasks)
        BY <2>4, Parts DEF PartsOK, WorkOK, Actors
    <2>6. Head(v).op \in PowerOps /\ \A i \in 1 .. Len(v) : v[i].op # "pause"
        BY <2>2, <2>3 DEF PowerOps
    <2> QED BY <1>1, <2>4, <2>5, <2>6, ChaosRaces
<1>4. CASE work' = [work EXCEPT !["chaos"] = ReprovisionTasks(k)]
    <2>1. PICK v : v = ReprovisionTasks(k)
        OBVIOUS
    <2>2. /\ v \in Seq(GoodTasks) /\ v # <<>> /\ v[1].op = "unpause"
          /\ \A i \in 1 .. Len(v) : v[i].op # "pause"
        BY <2>1, ReprovisionNoPause
    <2>3. Head(v).op \in StartOps
        BY <2>2, PoppedSeq DEF StartOps
    <2> QED BY <1>1, <1>4, <2>1, <2>2, <2>3, ChaosRaces
<1> QED BY <1>2, <1>3, <1>4

LEMMA PowerRaces ==
    ASSUME IInv, IInv', RaceInv, ChaosPower
    PROVE  RaceInv'
<1>1. /\ mem'.paused = mem.paused
      /\ Launching' \subseteq Launching /\ DiskLaunching' \subseteq DiskLaunching
    <2>1. DOMAIN mem = {"cells", "paused"} /\ Launching \subseteq DiskLaunching /\ StateOK
        BY Knows, LaunchingFinite DEF StateOK, IsState, Actors
    <2>2. CASE Status \/ StillRunning \/ SetPower
        BY <2>2 DEF Status, StillRunning, SetPower, state, Launching, DiskLaunching
    <2>3. CASE RecordPower
        <3>1. SameCells /\ disk' = mem'
            BY <2>3, RecordSame
        <3> QED BY <2>1, <3>1 DEF SameCells, Launching, DiskLaunching
    <2> QED BY <2>2, <2>3 DEF ChaosPower
<1>2. PICK t : t = Head(work["chaos"])
    OBVIOUS
<1>3. work["chaos"] # <<>> /\ t.op \in PowerOps /\ t \in GoodTasks
    BY <1>2, Knows, AtHead DEF ChaosPower, Status, StillRunning, SetPower, RecordPower,
       PowerOps, Actors
<1>4. Tail(work["chaos"]) = <<>>
    BY <1>2, <1>3, LastTask DEF Actors
<1>5. WorkOK /\ WorkOK'
    BY Parts DEF PartsOK
<1>6. CASE Pop("chaos")
    <2>1. work' = [work EXCEPT !["chaos"] = <<>> \o <<>>]
        BY <1>4, <1>5, <1>6, DoIs DEF Pop, Actors
    <2>2. PICK v : v = <<>>
        OBVIOUS
    <2>3. work' = [work EXCEPT !["chaos"] = v] /\ v \in Seq(GoodTasks) /\ Len(v) = 0
        BY <2>1, <2>2
    <2>4. \A i \in 1 .. Len(v) : v[i].op # "pause"
        BY <2>3
    <2> QED BY <1>1, <2>2, <2>3, <2>4, ChaosRaces
<1>7. ASSUME NEW u, Then("chaos", u), u.op \in PowerOps
      PROVE  RaceInv'
    <2>1. PICK v : v = <<u>>
        OBVIOUS
    <2>2. work' = [work EXCEPT !["chaos"] = v]
        <3>1. work' = [work EXCEPT !["chaos"] = <<u>> \o <<>>]
            BY <1>4, <1>5, <1>7, DoIs DEF Then, Actors
        <3> QED BY <2>1, <3>1
    <2>3. work'["chaos"] = v /\ v \in Seq(GoodTasks)
        BY <1>5, <2>2 DEF WorkOK, Actors
    <2>4. Head(v).op \in PowerOps /\ \A i \in 1 .. Len(v) : v[i].op # "pause"
        BY <1>7, <2>1 DEF PowerOps
    <2> QED BY <1>1, <2>2, <2>3, <2>4, ChaosRaces
<1>8. CASE Pop("chaos") \/ \E u : Then("chaos", u) /\ u.op \in PowerOps
    BY <1>6, <1>7, <1>8
<1>9. CASE Status
    <2>1. PICK u1, u0 : /\ u1 = [t EXCEPT !.op = "check", !.n = 1]
                        /\ u0 = [t EXCEPT !.op = "check", !.n = 0]
        OBVIOUS
    <2>2. Pop("chaos") \/ Then("chaos", u1) \/ Then("chaos", u0)
        BY <1>2, <1>9, <2>1 DEF Status
    <2>3. u1.op = "check" /\ u0.op = "check"
        BY <1>3, <2>1 DEF GoodTasks
    <2> QED BY <1>6, <1>7, <2>2, <2>3 DEF PowerOps
<1>10. CASE StillRunning
    <2>1. PICK u : u = [t EXCEPT !.op = "power"]
        OBVIOUS
    <2>2. Pop("chaos") \/ Then("chaos", u)
        BY <1>2, <1>10, <2>1 DEF StillRunning
    <2>3. u.op = "power"
        BY <1>3, <2>1 DEF GoodTasks
    <2> QED BY <1>6, <1>7, <2>2, <2>3 DEF PowerOps
<1>11. CASE SetPower
    <2>1. PICK u : u = [t EXCEPT !.op = "record"]
        OBVIOUS
    <2>2. Pop("chaos") \/ Then("chaos", u)
        BY <1>2, <1>11, <2>1 DEF SetPower
    <2>3. u.op = "record"
        BY <1>3, <2>1 DEF GoodTasks
    <2> QED BY <1>6, <1>7, <2>2, <2>3 DEF PowerOps
<1>12. CASE RecordPower
    BY <1>6, <1>12 DEF RecordPower
<1> QED BY <1>9, <1>10, <1>11, <1>12 DEF ChaosPower

LEMMA CrashRaces ==
    ASSUME IInv, IInv', RaceInv, Crash
    PROVE  RaceInv'
<1>1. mem' = disk /\ disk' = disk /\ work' = [a \in Actors |-> <<>>]
    BY DEF Crash
<1>2. DiskLaunching' = DiskLaunching
    BY <1>1 DEF DiskLaunching
<1>3. \A a \in Actors : ~Past(a)'
    BY <1>1 DEF Past
<1>4. Budget'
    BY <1>2, <1>3, RaceParts DEF Budget, Actors
<1>5. work'["op"] = <<>> /\ work'["chaos"] = <<>>
    BY <1>1 DEF Actors
<1>6. PauseSafe(work["op"])' /\ \A i \in 1 .. Len(work'["chaos"]) : work'["chaos"][i].op # "pause"
    BY <1>5 DEF PauseSafe
<1> QED BY <1>4, <1>6, RaceParts

LEMMA InitRaces ==
    ASSUME Init
    PROVE  RaceInv
<1>1. work = [a \in Actors |-> <<>>] /\ disk = mem /\ DOMAIN disk.cells = {}
    BY DEF Init
<1>2. work["op"] = <<>> /\ work["chaos"] = <<>>
    BY <1>1 DEF Actors
<1>3. DiskLaunching = {}
    BY <1>1 DEF DiskLaunching
<1>4. Cardinality(DiskLaunching) = 0 /\ Cap \in Nat
    BY <1>3, FS_EmptySet, FleetAssumption
<1>5. \A a \in Actors : ~Past(a)
    BY <1>1 DEF Past
<1>6. PauseSafe(work["op"]) /\ \A i \in 1 .. Len(work["chaos"]) : work["chaos"][i].op # "pause"
    BY <1>2 DEF PauseSafe
<1>7. Cap > 0 => /\ Cardinality(DiskLaunching) <= Cap + 1
                 /\ \A a \in Actors : Past(a) => Cardinality(Launching) <= Cap
                 /\ (\A a \in Actors : Past(a)) => Cardinality(Launching) < Cap
    BY <1>4, <1>5 DEF Actors
<1> QED BY <1>6, <1>7 DEF RaceInv

LEMMA NextRaces ==
    ASSUME IInv, IInv', RaceInv, [Next]_vars
    PROVE  RaceInv'
<1>1. ASSUME UNCHANGED <<state, work>>
      PROVE  RaceInv'
    <2>1. mem'.paused = mem.paused /\ Launching' = Launching /\ DiskLaunching' = DiskLaunching
        BY <1>1 DEF state, Launching, DiskLaunching
    <2> QED BY <1>1, <2>1, FrameRaces
<1>2. CASE \E n \in AllNames : Heartbeat(n)
    BY <1>1, <1>2 DEF Heartbeat
<1>3. CASE \E k \in Cells : HopelessTimeout(k) \/ EarlyTimeout(k)
    BY <1>1, <1>3 DEF HopelessTimeout, EarlyTimeout, DeployTimeout
<1>4. CASE WebDelete
    BY <1>1, <1>4 DEF WebDelete
<1>5. CASE UNCHANGED vars
    BY <1>1, <1>5 DEF vars, state
<1> QED BY <1>2, <1>3, <1>4, <1>5, StepRaces, TickRaces, PowerRaces, BeginRaces, CrashRaces
        DEF Next

-----------------------------------------------------------------------------
(* What is built, and when. *)

Built ==
    ~(DOMAIN vms' \subseteq DOMAIN vms /\ DOMAIN clusters' \subseteq DOMAIN clusters)

LEMMA DeleteBuildsNoVm ==
    ASSUME NEW S, NEW ok, DeleteVm(S, ok)
    PROVE  DOMAIN vms' \subseteq DOMAIN vms
BY DEF DeleteVm

LEMMA SameBuildsNothing ==
    /\ UNCHANGED mgmt => DOMAIN clusters' = DOMAIN clusters
    /\ UNCHANGED incus => DOMAIN vms' = DOMAIN vms
BY DEF mgmt, incus

(* A sweep, a destroy, a gc or an operator's step builds nothing.             *)
LEMMA OtherBuildsNothing ==
    ASSUME IInv, NEW a \in Actors,
           \/ Reconcile(a) \/ Stale(a) \/ Destroy(a) \/ DestroyVm(a) \/ DestroyCluster(a)
           \/ Forget(a) \/ Gc(a) \/ GcList(a) \/ GcSweep(a) \/ GcReverse(a)
           \/ Sweep(a) \/ SweepVm(a) \/ SweepCluster(a) \/ DropGroup(a) \/ SetState(a)
    PROVE  ~Built
<1>1. MgmtOK /\ LeftOK
    BY Knows
<1>2. CASE \/ Reconcile(a) \/ Stale(a) \/ Destroy(a) \/ Forget(a) \/ Gc(a) \/ GcList(a)
           \/ GcReverse(a) \/ Sweep(a) \/ SetState(a)
    <2>1. UNCHANGED <<mgmt, incus>>
        BY <1>2 DEF Reconcile, Stale, Destroy, Forget, Gc, GcList, GcReverse, Sweep, SetState
    <2> QED BY <2>1, SameBuildsNothing DEF Built
<1>3. CASE DestroyVm(a)
    BY <1>3, SameBuildsNothing, DeleteBuildsNoVm DEF DestroyVm, Built
<1>4. CASE DestroyCluster(a)
    BY <1>1, <1>4, SameBuildsNothing, DeletedCluster DEF DestroyCluster, Built
<1>5. CASE GcSweep(a)
    BY <1>1, <1>5, SameBuildsNothing, DeleteBuildsNoVm, DeletedCluster DEF GcSweep, Built
<1>6. CASE SweepVm(a)
    BY <1>6, SameBuildsNothing, DeleteBuildsNoVm DEF SweepVm, Built
<1>7. CASE SweepCluster(a)
    BY <1>1, <1>7, SameBuildsNothing, DeletedCluster DEF SweepCluster, Built
<1>8. CASE DropGroup(a)
    BY <1>8, SameBuildsNothing DEF DropGroup, Built
<1> QED BY <1>2, <1>3, <1>4, <1>5, <1>6, <1>7, <1>8

LEMMA OutsideBuildsNothing ==
    ASSUME IInv,
           \/ ChaosVmTick \/ ChaosPower \/ ReconcileTick \/ Operator
           \/ \E n \in AllNames : Heartbeat(n)
           \/ \E k \in Cells : HopelessTimeout(k) \/ EarlyTimeout(k)
           \/ WebDelete \/ Crash \/ UNCHANGED vars
    PROVE  ~Built
<1>1. CASE SetPower
    <2>1. UNCHANGED mgmt /\ DOMAIN vms' = DOMAIN vms
        BY <1>1 DEF SetPower
    <2> QED BY <2>1, SameBuildsNothing DEF Built
<1>2. CASE WebDelete
    <2>1. PICK c : RemoveCluster(c)
        BY <1>2 DEF WebDelete
    <2>2. MgmtOK /\ UNCHANGED incus
        BY <1>2, Knows DEF WebDelete, Actors
    <2> QED BY <2>1, <2>2, RemovedCluster, SameBuildsNothing DEF Built
<1>3. CASE ReconcileTick \/ Operator
    <2>1. PICK w : Begin(w)
        BY <1>3 DEF ReconcileTick, Operator
    <2> QED BY <2>1, SameBuildsNothing DEF Begin, Built
<1>4. CASE Status \/ StillRunning \/ RecordPower \/ ChaosVmTick \/ Crash
    BY <1>4, SameBuildsNothing DEF Status, StillRunning, RecordPower, ChaosVmTick, Crash, Built
<1>5. CASE \/ \E n \in AllNames : Heartbeat(n)
           \/ \E k \in Cells : HopelessTimeout(k) \/ EarlyTimeout(k)
    BY <1>5, SameBuildsNothing DEF Heartbeat, HopelessTimeout, EarlyTimeout, DeployTimeout, Built
<1>6. CASE UNCHANGED vars
    BY <1>6 DEF vars, Built
<1> QED BY <1>1, <1>2, <1>3, <1>4, <1>5, <1>6 DEF ChaosPower

(* What is built is built by a step of drive_cell, and none begins under a     *)
(* pause: the tasks of a cell end before the pause flag is set.               *)
LEMMA BuildsUnpaused ==
    ASSUME IInv, [Next]_vars, ~raced, Built
    PROVE  ~mem.paused
<1>1. PICK a \in Actors : Step(a)
    BY OutsideBuildsNothing DEF Next
<1>2. \/ Drive(a) \/ ListStray(a) \/ WipeVm(a) \/ WipeCluster(a) \/ CreateCluster(a)
      \/ Created(a) \/ PutConfig(a) \/ Pushed(a) \/ Clean(a) \/ CloudInit(a)
      \/ LaunchVm(a) \/ Poll(a) \/ CameUp(a) \/ TimedOut(a)
    BY <1>1, OtherBuildsNothing DEF Step
<1>3. \E op \in BuildOps : At(a, op)
    BY <1>2 DEF BuildOps, Drive, ListStray, WipeVm, WipeCluster, CreateCluster, Created,
       PutConfig, Pushed, Clean, CloudInit, LaunchVm, Poll, CameUp, TimedOut
<1> QED BY <1>3, AtHead, FirstTask

(* Overlapped or not, a step that builds builds the cell of its task.         *)
LEMMA StepBuildsItsCell ==
    ASSUME IInv, NEW a \in Actors, Step(a), Built
    PROVE  /\ \E op \in BuildOps : At(a, op)
           /\ \A n \in DOMAIN vms' \ DOMAIN vms : n[1] = Head(work[a]).k
           /\ \A c \in DOMAIN clusters' \ DOMAIN clusters : clusters'[c] = Head(work[a]).k
<1>0. PICK t : t = Head(work[a])
    OBVIOUS
<1>1. \/ Drive(a) \/ ListStray(a) \/ WipeVm(a) \/ WipeCluster(a) \/ CreateCluster(a)
      \/ Created(a) \/ PutConfig(a) \/ Pushed(a) \/ Clean(a) \/ CloudInit(a)
      \/ LaunchVm(a) \/ Poll(a) \/ CameUp(a) \/ TimedOut(a)
    BY OtherBuildsNothing DEF Step
<1>2. MgmtOK /\ LeftOK
    BY Knows
<1>3. CASE \/ Drive(a) \/ ListStray(a) \/ PutConfig(a) \/ Pushed(a) \/ CloudInit(a)
           \/ Poll(a) \/ CameUp(a)
    <2>1. UNCHANGED <<mgmt, incus>>
        BY <1>3 DEF Drive, ListStray, PutConfig, Pushed, CloudInit, Poll, CameUp
    <2> QED BY <2>1, SameBuildsNothing DEF Built
<1>4. CASE Created(a)
    <2>1. UNCHANGED <<incus, clusters>>
        BY <1>4 DEF Created
    <2> QED BY <2>1, SameBuildsNothing DEF Built
<1>5. CASE WipeVm(a) \/ Clean(a) \/ TimedOut(a)
    <2>1. UNCHANGED mgmt /\ DOMAIN vms' \subseteq DOMAIN vms
        BY <1>5, SameBuildsNothing, DeleteBuildsNoVm DEF WipeVm, Clean, TimedOut
    <2> QED BY <2>1, SameBuildsNothing DEF Built
<1>6. CASE WipeCluster(a)
    <2>1. UNCHANGED incus /\ DOMAIN clusters' \subseteq DOMAIN clusters
        BY <1>2, <1>6, DeletedCluster DEF WipeCluster
    <2> QED BY <2>1, SameBuildsNothing DEF Built
<1>7. CASE CreateCluster(a)
    <2>1. UNCHANGED incus /\ At(a, "create_cluster")
        BY <1>7 DEF CreateCluster
    <2>2. UNCHANGED clusters \/ \E c : clusters' = Upsert(clusters, c, t.k)
        BY <1>0, <1>7 DEF CreateCluster
    <2>3. \A c \in DOMAIN clusters' \ DOMAIN clusters : clusters'[c] = t.k
        BY <2>2 DEF Upsert
    <2> QED BY <1>0, <2>1, <2>3, SameBuildsNothing DEF BuildOps
<1>8. CASE LaunchVm(a)
    <2>1. UNCHANGED mgmt /\ At(a, "launch")
        BY <1>8 DEF LaunchVm
    <2>2. t \in GoodTasks /\ t.op = "launch" /\ t.todo \subseteq Names(t.k)
        BY <1>0, <2>1, Knows, AtHead DEF GoodTasks
    <2>3. PICK n \in t.todo : UNCHANGED vms \/ \E r : vms' = Upsert(vms, n, r)
        BY <1>0, <1>8 DEF LaunchVm
    <2>4. \A m \in DOMAIN vms' \ DOMAIN vms : m = n
        BY <2>3 DEF Upsert
    <2>5. n[1] = t.k
        BY <2>2, <2>3 DEF Names
    <2> QED BY <1>0, <2>1, <2>4, <2>5, SameBuildsNothing DEF BuildOps
<1> QED BY <1>1, <1>3, <1>4, <1>5, <1>6, <1>7, <1>8

(* Under a pause only the chaos loop's own reprovision builds, overlapped.      *)
LEMMA BuildsOverlapping ==
    ASSUME IInv, RaceInv, [Next]_vars, Built, mem.paused
    PROVE  /\ \A n \in DOMAIN vms' \ DOMAIN vms : n[1] \in Overlapping
           /\ \A c \in DOMAIN clusters' \ DOMAIN clusters : clusters'[c] \in Overlapping
<1>1. raced
    BY BuildsUnpaused
<1>2. PICK a \in Actors : Step(a)
    BY OutsideBuildsNothing DEF Next
<1>3. /\ \E op \in BuildOps : At(a, op)
      /\ \A n \in DOMAIN vms' \ DOMAIN vms : n[1] = Head(work[a]).k
      /\ \A c \in DOMAIN clusters' \ DOMAIN clusters : clusters'[c] = Head(work[a]).k
    BY <1>2, StepBuildsItsCell
<1>4. work[a] # <<>> /\ Head(work[a]).op \in BuildOps
    BY <1>3, AtHead
<1>5. a # "op"
    <2> SUFFICES ASSUME a = "op" PROVE FALSE
        OBVIOUS
    <2>1. work[a] \in Seq(GoodTasks) /\ PauseSafe(work[a])
        BY Knows DEF WorkOK, RaceInv
    <2>2. Len(work[a]) \in Nat /\ 1 \in 1 .. Len(work[a]) /\ Head(work[a]) = work[a][1]
        BY <1>4, <2>1, PoppedSeq
    <2>3. work[a][1].op = "unpause"
        BY <1>4, <2>1, <2>2 DEF PauseSafe
    <2> QED BY <1>4, <2>2, <2>3 DEF BuildOps
<1>6. a = "chaos" /\ Head(work[a]).op \notin PowerOps
    BY <1>4, <1>5 DEF Actors, BuildOps, PowerOps
<1>7. Overlapping = {Head(work["chaos"]).k}
    BY <1>1, <1>4, <1>6 DEF Overlapping, Reprovisioning
<1> QED BY <1>3, <1>6, <1>7

-----------------------------------------------------------------------------
(* The theorems. *)

\* Whatever the operators, the two loops, the daemons, the failing services and
\* crashes do, at any number of cells and with any limits: the state file holds
\* what the process holds but for a dropped cell (state.rs, Inner::save), and as
\* long as no unlocked chaos reprovision overlaps a locked operation, every VM is
\* named by its cell, launches keep to their limit and each task finds what the
\* tasks before it have established.
THEOREM FleetInvariant == Spec => []IInv
BY InitHolds, NextKeeps, PTL DEF Spec

\* And overlapped or not: no task of a locked operation builds under a pause, the
\* chaos loop pauses nothing, and each actor that has counted the launching cells
\* is one cell away from using the room it has found (drive_cell's throttle).
THEOREM FleetOverlaps == Spec => []RaceInv
<1>1. IInv /\ RaceInv /\ [Next]_vars => RaceInv'
    BY NextKeeps, NextRaces
<1> QED BY <1>1, InitRaces, FleetInvariant, PTL DEF Spec

\* Every variable has its type: a stage names ids that were handed out, a group
\* holds clusters that exist, a task is one that reconcile.rs can be at.
THEOREM FleetTypes == Spec => []TypeOK
<1>1. IInv => TypeOK
    BY DEF IInv, Typed
<1> QED BY <1>1, FleetInvariant, PTL

\* No VM is orphaned (enter_launching persists the predicted names before it
\* creates a VM, destroy_cell and on_launch_timeout delete before they forget):
\* the state file names it, or a delete of it failed.
THEOREM FleetNoOrphan == Spec => []NoOrphanVm
<1>1. ASSUME IInv, ~raced
      PROVE  DOMAIN vms \subseteq Tracked(disk) \cup leaked
    <2>1. AliveTracked /\ Mirror
        BY <1>1 DEF IInv, Safe
    <2>2. ASSUME NEW n \in Alive
          PROVE  n \in Tracked(disk)
        <3>1. PICK k \in DOMAIN mem.cells : n \in Instances(k, mem.cells[k])
            BY <2>1 DEF AliveTracked
        <3>2. k \in DOMAIN disk.cells /\ n \in Instances(k, disk.cells[k])
            BY <2>1, <3>1 DEF Mirror
        <3> QED BY <3>2 DEF Tracked
    <2> QED BY <2>2 DEF Alive
<1>2. IInv => NoOrphanVm
    BY <1>1 DEF NoOrphanVm
<1> QED BY <1>2, FleetInvariant, PTL

\* The state file never holds more launching cells than max_concurrent_launches,
\* crashes included, until a chaos reprovision overlaps a locked operation; from
\* then on it never holds more than one above it (launch_queue_full, counted in
\* one step and used in later ones, by two actors of which one takes no lock).
THEOREM FleetBudget == Spec => []LaunchBudget
<1>1. ASSUME IInv, RaceInv
      PROVE  LaunchBudget
    <2>1. CASE ~raced
        <3>1. CapKept /\ StateOK
            BY <1>1, <2>1, Parts DEF Safe, PartsOK
        <3>2. Cardinality(DiskLaunching) \in Nat /\ Cap \in Nat
            BY <3>1, LaunchingFinite, FleetAssumption
        <3> QED BY <2>1, <3>1, <3>2 DEF CapKept, LaunchBudget
    <2>2. CASE raced
        BY <1>1, <2>2, FleetAssumption DEF RaceInv, LaunchBudget
    <2> QED BY <2>1, <2>2
<1> QED BY <1>1, FleetInvariant, FleetOverlaps, PTL

\* A torn-down fleet stays down but for one cell (teardown, reconcile_inner's
\* look at the pause flag): while the runner is paused no locked operation
\* creates a cluster or a VM, and what the chaos loop creates belongs to the one
\* cell it was reprovisioning, without the lock, when the teardown overlapped it.
THEOREM FleetPaused == Spec => NoBuildWhilePaused
<1> DEFINE A == mem.paused /\ mem'.paused =>
                  /\ \A n \in DOMAIN vms' \ DOMAIN vms : n[1] \in Overlapping
                  /\ \A c \in DOMAIN clusters' \ DOMAIN clusters : clusters'[c] \in Overlapping
<1>1. ASSUME IInv, RaceInv, [Next]_vars
      PROVE  A
    BY <1>1, BuildsOverlapping DEF Built
<1>2. NoBuildWhilePaused <=> [][A]_vars
    BY DEF NoBuildWhilePaused
<1> HIDE DEF A
<1> QED BY <1>1, <1>2, FleetInvariant, FleetOverlaps, PTL DEF Spec
=============================================================================
