--------------------------- MODULE RolloutsProofs ---------------------------
(***************************************************************************)
(* Safety of staged rollouts for every fleet: any clusters, rollouts,      *)
(* groups, versions, number of stages and of concurrent admin requests.    *)
(***************************************************************************)
EXTENDS Rollouts, WellFoundedInduction, TLAPS

(* active_rollout_for_cluster takes a row of its query: among rollouts,     *)
(* which are finitely many, there is a newest one.                          *)
LEMMA NewestIsOne ==
    ASSUME NEW R, R \subseteq Rollouts, R # {}
    PROVE  Newest(R) \in R /\ \A q \in R : q <= Newest(R)
<1>1. PICK top \in Rollouts : \A q \in Rollouts : q <= top
  BY RolloutsAssumption
<1> DEFINE Below == {k \in Nat : \E r \in R : k = top - r}
<1>0. \A r \in R : r \in Nat /\ r <= top /\ top - r \in Below
  <2>1. top \in Nat /\ R \subseteq Nat
    BY RolloutsAssumption
  <2> TAKE r \in R
  <2>2. r \in Nat /\ r <= top /\ top - r \in Nat
    BY <2>1, <1>1
  <2> QED BY <2>2
<1>2. Below \subseteq Nat /\ Below # {}
  BY <1>0
<1>3. PICK x \in Below : \A y \in Below : ~(<<y, x>> \in OpToRel(<, Nat))
  BY <1>2, WFMin, NatLessThanWellFounded
<1>4. \A y \in Below : x <= y
  <2> TAKE y \in Below
  <2>1. x \in Nat /\ y \in Nat
    BY <1>2
  <2>2. ~(y < x)
    BY <2>1, <1>3 DEF OpToRel
  <2> QED BY <2>1, <2>2
<1>5. PICK r \in R : x = top - r
  OBVIOUS
<1>6. \A q \in R : q <= r
  <2> TAKE q \in R
  <2>1. x <= top - q
    BY <1>0, <1>4
  <2> QED BY <2>1, <1>5, <1>1, RolloutsAssumption
<1> QED BY <1>5, <1>6 DEF Newest

(* What a step may do to the stages: a stage that was started stays started, *)
(* and the started ones are a prefix.                                        *)
Keeps == \A r \in Rollouts, i \in Stages : stage[r][i] # "pending" => stage'[r][i] # "pending"

StagesKept ==
    /\ stage' \in [Rollouts -> [Stages -> StageStatus]]
    /\ Keeps
    /\ StagesInOrder'

LEMMA UnchangedKeeps ==
    ASSUME IInv, UNCHANGED stage
    PROVE  StagesKept
BY DEF IInv, TypeOK, StagesKept, Keeps, StagesInOrder

(* SetStages maps started stages to started ones and leaves the others. *)
LEMMA SetStagesKeeps ==
    ASSUME IInv, NEW r \in Rollouts,
           NEW from \in SUBSET (StageStatus \ {"pending"}),
           NEW to \in StageStatus \ {"pending"},
           stage' = [stage EXCEPT ![r] = SetStages(r, from, to)]
    PROVE  StagesKept
<1> DEFINE new == SetStages(r, from, to)
<1>1. new \in [Stages -> StageStatus]
  BY DEF SetStages, IInv, TypeOK, StageStatus
<1>2. \A i \in Stages : new[i] = "pending" <=> stage[r][i] = "pending"
  BY DEF SetStages
<1>3. stage' \in [Rollouts -> [Stages -> StageStatus]]
  BY <1>1 DEF IInv, TypeOK
<1>4. \A q \in Rollouts, i \in Stages : stage'[q][i] = "pending" <=> stage[q][i] = "pending"
  BY <1>2 DEF IInv, TypeOK
<1> QED BY <1>3, <1>4 DEF StagesKept, Keeps, StagesInOrder, IInv

(* Starting stage i, when every stage below it has been started. *)
LEMMA StartKeeps ==
    ASSUME IInv, NEW r \in Rollouts, NEW i \in Stages,
           \A j \in Stages : j < i => stage[r][j] # "pending",
           NEW new \in [Stages -> StageStatus],
           new[i] # "pending",
           \A j \in Stages : j # i => (new[j] = "pending" <=> stage[r][j] = "pending"),
           stage' = [stage EXCEPT ![r] = new]
    PROVE  StagesKept
<1>1. stage' \in [Rollouts -> [Stages -> StageStatus]]
  BY DEF IInv, TypeOK
<1>2. \A q \in Rollouts, j \in Stages :
        (q # r \/ j # i) => (stage'[q][j] = "pending" <=> stage[q][j] = "pending")
  BY DEF IInv, TypeOK
<1>3. stage'[r][i] # "pending"
  BY DEF IInv, TypeOK
<1>4. Keeps
  BY <1>2, <1>3 DEF Keeps
<1>5. StagesInOrder'
  <2> SUFFICES ASSUME NEW q \in Rollouts, NEW j \in Stages, NEW k \in Stages,
                      j < k, stage'[q][k] # "pending"
               PROVE  stage'[q][j] # "pending"
    BY DEF StagesInOrder
  <2>1. CASE q = r /\ k = i
    BY <2>1, <1>4 DEF Keeps
  <2>2. CASE q # r \/ k # i
    BY <2>2, <1>2, <1>4 DEF Keeps, StagesInOrder, IInv
  <2> QED BY <2>1, <2>2
<1> QED BY <1>1, <1>4, <1>5 DEF StagesKept

LEMMA StagesAreNat == 0 \in Stages /\ Stages \subseteq Nat /\ LastStage \in Nat
BY RolloutsAssumption DEF Stages

LEMMA StartCommitStages ==
    ASSUME IInv, NEW a \in Admins, StartCommit(a)
    PROVE  StagesKept
<1> DEFINE r == req[a].r
<1>1. r \in Rollouts
  BY DEF IInv, ReadsStarted, StartCommit
<1>2. CASE Exists(r)
  <2> DEFINE new == [stage[r] EXCEPT ![0] = "rolling"]
  <2>1. stage' = [stage EXCEPT ![r] = new]
    BY <1>2 DEF StartCommit, Start
  <2>2. /\ new \in [Stages -> StageStatus]
        /\ new[0] # "pending"
        /\ \A j \in Stages : j # 0 => (new[j] = "pending" <=> stage[r][j] = "pending")
    BY <1>1, StagesAreNat DEF IInv, TypeOK, StageStatus
  <2> HIDE DEF new, r
  <2>3. \A j \in Stages : j < 0 => stage[r][j] # "pending"
    <3>1. \A j \in Stages : ~(j < 0)
      BY RolloutsAssumption DEF Stages
    <3> QED BY <3>1
  <2> QED BY <1>1, <2>1, <2>2, <2>3, StagesAreNat, StartKeeps
<1>3. CASE ~Exists(r)
  BY <1>3, UnchangedKeeps DEF StartCommit
<1> QED BY <1>2, <1>3

LEMMA AdvanceCommitStages ==
    ASSUME IInv, NEW a \in Admins, AdvanceCommit(a)
    PROVE  StagesKept
<1> DEFINE r == req[a].r
           i == req[a].stage
<1>1. r \in Rollouts /\ i \in Stages /\ stage[r][i] # "pending"
  BY DEF IInv, ReadsStarted, AdvanceCommit
<1>2. \A j \in Stages : j < i => stage[r][j] # "pending"
  BY <1>1 DEF IInv, StagesInOrder
<1>3. CASE ~Exists(r)
  BY <1>3, UnchangedKeeps DEF AdvanceCommit
<1>4. CASE Exists(r) /\ i < LastStage
  <2> DEFINE new == [stage[r] EXCEPT ![i] = "completed", ![i + 1] = "rolling"]
  <2>1. stage' = [stage EXCEPT ![r] = new]
    BY <1>4 DEF AdvanceCommit, Start
  <2>2. i + 1 \in Stages /\ i + 1 # i
    BY <1>1, <1>4, StagesAreNat DEF Stages
  <2>3. /\ new \in [Stages -> StageStatus]
        /\ new[i + 1] # "pending"
        /\ \A j \in Stages : j # i + 1 => (new[j] = "pending" <=> stage[r][j] = "pending")
    BY <1>1, <2>2 DEF IInv, TypeOK, StageStatus
  <2>4. \A j \in Stages : j < i + 1 => stage[r][j] # "pending"
    <3> TAKE j \in Stages
    <3>1. i \in Nat /\ j \in Nat
      BY <1>1, StagesAreNat
    <3>2. j < i + 1 => j < i \/ j = i
      BY <3>1
    <3> HIDE DEF r, i
    <3> QED BY <1>1, <1>2, <3>2
  <2> HIDE DEF new, r, i
  <2> QED BY <1>1, <2>1, <2>2, <2>3, <2>4, StartKeeps
<1>5. CASE Exists(r) /\ ~(i < LastStage)
  <2> DEFINE new == [stage[r] EXCEPT ![i] = "completed"]
  <2>1. stage' = [stage EXCEPT ![r] = new]
    BY <1>1, <1>5 DEF AdvanceCommit, IInv, TypeOK
  <2>2. /\ new \in [Stages -> StageStatus]
        /\ new[i] # "pending"
        /\ \A j \in Stages : j # i => (new[j] = "pending" <=> stage[r][j] = "pending")
    BY <1>1 DEF IInv, TypeOK, StageStatus
  <2> HIDE DEF new, r, i
  <2> QED BY <1>1, <1>2, <2>1, <2>2, StartKeeps
<1> QED BY <1>3, <1>4, <1>5

LEMMA RollbackStages ==
    ASSUME IInv, NEW a \in Admins, RollbackCommit(a)
    PROVE  StagesKept
<1>1. req[a].r \in Rollouts
  BY DEF IInv, ReadsStarted, RollbackCommit
<1>2. CASE Exists(req[a].r)
  <2> DEFINE from == {"rolling", "paused", "completed"}
  <2>1. stage' = [stage EXCEPT ![req[a].r] = SetStages(req[a].r, from, "rolled_back")]
    BY <1>2 DEF RollbackCommit
  <2>2. from \in SUBSET (StageStatus \ {"pending"}) /\ "rolled_back" \in StageStatus \ {"pending"}
    BY DEF StageStatus
  <2> HIDE DEF from
  <2> QED BY <1>1, <2>1, <2>2, SetStagesKeeps
<1>3. CASE ~Exists(req[a].r)
  BY <1>3, UnchangedKeeps DEF RollbackCommit
<1> QED BY <1>2, <1>3

LEMMA OneStepStages ==
    ASSUME IInv, NEW r \in Rollouts,
           \/ \E ui \in BOOLEAN : Pause(r, ui) \/ Resume(r, ui)
           \/ Complete(r)
    PROVE  StagesKept
<1>1. ASSUME NEW ui \in BOOLEAN, Pause(r, ui) PROVE StagesKept
  <2>1. {"rolling"} \in SUBSET (StageStatus \ {"pending"}) /\ "paused" \in StageStatus \ {"pending"}
    BY DEF StageStatus
  <2> QED BY <1>1, <2>1, SetStagesKeeps DEF Pause
<1>2. ASSUME NEW ui \in BOOLEAN, Resume(r, ui) PROVE StagesKept
  <2>1. {"paused"} \in SUBSET (StageStatus \ {"pending"}) /\ "rolling" \in StageStatus \ {"pending"}
    BY DEF StageStatus
  <2> QED BY <1>2, <2>1, SetStagesKeeps DEF Resume
<1>3. ASSUME Complete(r) PROVE StagesKept
  <2> DEFINE new == SetStages(r, StageStatus, "completed")
  <2>1. \A i \in Stages : stage[r][i] \in StageStatus
    BY DEF IInv, TypeOK
  <2>2. new = [i \in Stages |-> "completed"]
    BY <2>1 DEF SetStages
  <2>3. stage' = [stage EXCEPT ![r] = [i \in Stages |-> "completed"]]
    BY <1>3, <2>2 DEF Complete
  <2>4. stage' \in [Rollouts -> [Stages -> StageStatus]]
    BY <2>3 DEF IInv, TypeOK, StageStatus
  <2>5. \A q \in Rollouts, i \in Stages :
          stage'[q][i] = IF q = r THEN "completed" ELSE stage[q][i]
    BY <2>3 DEF IInv, TypeOK
  <2> QED BY <2>4, <2>5 DEF StagesKept, Keeps, StagesInOrder, IInv
<1> QED BY <1>1, <1>2, <1>3

LEMMA TickPauseStages ==
    ASSUME IInv, TickPause
    PROVE  StagesKept
<1>1. PICK r \in Rollouts, i \in Stages : tick = <<r, i>>
  BY DEF IInv, TypeOK, TickPause
<1>2. CASE Exists(r) /\ stage[r][i] = "rolling"
  <2> DEFINE new == [stage[r] EXCEPT ![i] = "paused"]
  <2>1. stage' = [stage EXCEPT ![r] = new]
    BY <1>1, <1>2 DEF TickPause, IInv, TypeOK
  <2>2. /\ new \in [Stages -> StageStatus]
        /\ new[i] # "pending"
        /\ \A j \in Stages : j # i => (new[j] = "pending" <=> stage[r][j] = "pending")
    BY DEF IInv, TypeOK, StageStatus
  <2>3. \A j \in Stages : j < i => stage[r][j] # "pending"
    BY <1>2 DEF IInv, StagesInOrder
  <2> HIDE DEF new
  <2> QED BY <2>1, <2>2, <2>3, StartKeeps
<1>3. CASE ~(Exists(r) /\ stage[r][i] = "rolling")
  BY <1>1, <1>3, UnchangedKeeps DEF TickPause
<1> QED BY <1>2, <1>3

LEMMA StagesStep ==
    ASSUME IInv, Next
    PROVE  StagesKept
<1>1. ASSUME NEW a \in Admins, StartCommit(a) PROVE StagesKept
  BY <1>1, StartCommitStages
<1>2. ASSUME NEW a \in Admins, AdvanceCommit(a) PROVE StagesKept
  BY <1>2, AdvanceCommitStages
<1>3. ASSUME NEW a \in Admins, RollbackCommit(a) PROVE StagesKept
  BY <1>3, RollbackStages
<1>4. ASSUME NEW r \in Rollouts, \/ \E ui \in BOOLEAN : Pause(r, ui) \/ Resume(r, ui)
                                 \/ Complete(r)
      PROVE  StagesKept
  BY <1>4, OneStepStages
<1>5. ASSUME NEW a \in Admins, NEW r \in Rollouts,
             \/ StartHttpRead(a, r) \/ StartUiRead(a, r) \/ RollbackRead(a, r)
             \/ \E i \in Stages : AdvanceRead(a, r, i)
      PROVE  StagesKept
  BY <1>5, UnchangedKeeps
     DEF StartHttpRead, StartUiRead, RollbackRead, AdvanceRead, Begin, server
<1>6. ASSUME \/ \E r \in Rollouts : Delete(r)
             \/ \E c \in Clusters, v \in Pins : SetPin(c, v)
      PROVE  StagesKept
  BY <1>6, UnchangedKeeps DEF Delete, SetPin
<1>7. ASSUME TickStep PROVE StagesKept
  BY <1>7, UnchangedKeeps, TickPauseStages DEF TickStep, TickEvaluate, server
<1>8. ASSUME RampStep PROVE StagesKept
  BY <1>8, UnchangedKeeps DEF RampStep, RampReaches
<1>9. ASSUME NEW c \in Clusters, DaemonStep(c) PROVE StagesKept
  BY <1>9, UnchangedKeeps DEF DaemonStep, FetchResolve, FetchAnswer, FetchFails, RecordDelivery, Apply, server
<1>10. ASSUME AdminStep PROVE StagesKept
  BY <1>10, <1>1, <1>2, <1>3, <1>4, <1>5, <1>6 DEF AdminStep
<1> QED BY <1>7, <1>8, <1>9, <1>10 DEF Next

-----------------------------------------------------------------------------
(* Types. *)

LEMMA CohortOfClusters ==
    ASSUME NEW r \in Rollouts
    PROVE  Cohort(r) \subseteq Clusters
BY RolloutsAssumption DEF Cohort

LEMMA RequestTyped ==
    ASSUME NEW op \in {"startHttp", "startUi", "advance", "rollback"}, NEW r \in Rollouts,
           NEW i \in Stages \cup {None}, NEW b \in Version
    PROVE  [op |-> op, r |-> r, stage |-> i, base |-> b] \in Request
BY DEF Request

LEMMA IdleTyped == IdleRequest \in Request
BY DEF IdleRequest, Request, Version

LEMMA NoFetchTyped == NoFetch \in Fetch
BY DEF NoFetch, Fetch

LEMMA ActiveTyped ==
    ASSUME NEW c \in Clusters
    PROVE  /\ ActiveRollout(c) \in Rollouts \cup {None}
           /\ ActiveRollout(c) # None => Applies(ActiveRollout(c), c)
<1> DEFINE R == {r \in Rollouts : Applies(r, c)}
<1>1. R # {} => Newest(R) \in R
  BY NewestIsOne
<1>2. ActiveRollout(c) = IF R = {} THEN None ELSE Newest(R)
  BY DEF ActiveRollout
<1> HIDE DEF R
<1>3. CASE R = {}
  BY <1>2, <1>3
<1>4. CASE R # {}
  <2>1. ActiveRollout(c) \in R
    BY <1>1, <1>2, <1>4
  <2> QED BY <2>1 DEF R
<1> QED BY <1>3, <1>4

LEMMA ChosenTyped ==
    ASSUME NEW r \in Rollouts \cup {None}, NEW c \in Clusters, pin \in [Clusters -> Version]
    PROVE  Chosen(r, c) \in Versions
<1>1. Latest \in Versions /\ \A q \in Rollouts : Target[q] \in Versions
  BY RolloutsAssumption
<1>2. pin[c] # None => pin[c] \in Versions
  BY DEF Version
<1> QED BY <1>1, <1>2 DEF Chosen

LEMMA ReadTypes ==
    ASSUME IInv, NEW a \in Admins, NEW r \in Rollouts,
           \/ StartHttpRead(a, r) \/ StartUiRead(a, r) \/ RollbackRead(a, r)
           \/ \E i \in Stages : AdvanceRead(a, r, i)
    PROVE  TypeOK'
<1>1. PICK request \in Request : Begin(a, request)
  <2>0. None \in Version
    BY DEF Version
  <2>1. ASSUME StartHttpRead(a, r)
        PROVE  \E request \in Request : Begin(a, request)
    BY <2>0, <2>1, RequestTyped DEF StartHttpRead
  <2>2. ASSUME StartUiRead(a, r)
        PROVE  \E request \in Request : Begin(a, request)
    <3>1. PICK b \in Majority(r) :
            Begin(a, [op |-> "startUi", r |-> r, stage |-> None, base |-> b])
      BY <2>2 DEF StartUiRead
    <3>2. b \in Version
      BY CohortOfClusters DEF Majority, IInv, TypeOK, Version
    <3> QED BY <3>1, <3>2, RequestTyped
  <2>3. ASSUME RollbackRead(a, r)
        PROVE  \E request \in Request : Begin(a, request)
    <3>1. base[r] \in Version
      BY DEF IInv, TypeOK
    <3> QED BY <2>3, <3>1, RequestTyped DEF RollbackRead
  <2>4. ASSUME NEW i \in Stages, AdvanceRead(a, r, i)
        PROVE  \E request \in Request : Begin(a, request)
    BY <2>0, <2>4, RequestTyped DEF AdvanceRead
  <2> QED BY <2>1, <2>2, <2>3, <2>4
<1> QED BY <1>1 DEF Begin, server, daemon, IInv, TypeOK

LEMMA RampTyped ==
    ASSUME TypeOK, NEW r \in Rollouts, NEW i, NEW rm \in SUBSET Clusters,
           ramp' = [ramp EXCEPT ![r][i] = rm]
    PROVE  ramp' \in [Rollouts -> [Stages -> SUBSET Clusters]]
<1> DEFINE new == [ramp[r] EXCEPT ![i] = rm]
<1>1. new \in [Stages -> SUBSET Clusters]
  BY DEF TypeOK
<1>2. ramp' = [ramp EXCEPT ![r] = new]
  BY DEF TypeOK
<1> HIDE DEF new
<1> QED BY <1>1, <1>2 DEF TypeOK

LEMMA CommitTypes ==
    ASSUME IInv, StagesKept, NEW a \in Admins,
           StartCommit(a) \/ AdvanceCommit(a) \/ RollbackCommit(a)
    PROVE  TypeOK'
<1>0. stage' \in [Rollouts -> [Stages -> StageStatus]]
  BY DEF StagesKept
<1>1. req[a].r \in Rollouts /\ req[a].base \in Version
  BY DEF IInv, TypeOK, ReadsStarted, Request, StartCommit, AdvanceCommit, RollbackCommit
<1>2. req' \in [Admins -> Request]
  BY IdleTyped DEF End, StartCommit, AdvanceCommit, RollbackCommit, IInv, TypeOK
<1>3. FreshRamp(req[a].r) \in SUBSET Clusters
  BY DEF FreshRamp
<1>4. ASSUME StartCommit(a) PROVE TypeOK'
  <2>1. status' \in [Rollouts -> RolloutStatus]
    BY <1>1, <1>4 DEF StartCommit, IInv, TypeOK, RolloutStatus, StageStatus
  <2>2. ramp' \in [Rollouts -> [Stages -> SUBSET Clusters]]
    <3>1. CASE Exists(req[a].r)
      <4>1. ramp' = [ramp EXCEPT ![req[a].r][0] = FreshRamp(req[a].r)]
        BY <1>4, <3>1 DEF StartCommit, Start
      <4> QED BY <1>1, <1>3, <4>1, RampTyped DEF IInv
    <3>2. CASE ~Exists(req[a].r)
      BY <1>4, <3>2 DEF StartCommit, IInv, TypeOK
    <3> QED BY <3>1, <3>2
  <2>3. base' \in [Rollouts -> Version]
    BY <1>1, <1>4 DEF StartCommit, IInv, TypeOK
  <2> QED BY <1>0, <1>2, <1>4, <2>1, <2>2, <2>3 DEF StartCommit, daemon, IInv, TypeOK
<1>5. ASSUME AdvanceCommit(a) PROVE TypeOK'
  <2>1. status' \in [Rollouts -> RolloutStatus]
    BY <1>1, <1>5 DEF AdvanceCommit, IInv, TypeOK, RolloutStatus, StageStatus
  <2>2. ramp' \in [Rollouts -> [Stages -> SUBSET Clusters]]
    <3>1. CASE Exists(req[a].r) /\ req[a].stage < LastStage
      <4>1. ramp' = [ramp EXCEPT ![req[a].r][req[a].stage + 1] = FreshRamp(req[a].r)]
        BY <1>5, <3>1 DEF AdvanceCommit, Start
      <4> QED BY <1>1, <1>3, <4>1, RampTyped DEF IInv
    <3>2. CASE ~(Exists(req[a].r) /\ req[a].stage < LastStage)
      BY <1>5, <3>2 DEF AdvanceCommit, IInv, TypeOK
    <3> QED BY <3>1, <3>2
  <2> QED BY <1>0, <1>2, <1>5, <2>1, <2>2 DEF AdvanceCommit, daemon, IInv, TypeOK
<1>6. ASSUME RollbackCommit(a) PROVE TypeOK'
  <2>1. status' \in [Rollouts -> RolloutStatus]
    BY <1>1, <1>6 DEF RollbackCommit, IInv, TypeOK, RolloutStatus, StageStatus
  <2>2. pin' \in [Clusters -> Version]
    BY <1>1, <1>6 DEF RollbackCommit, IInv, TypeOK
  <2> QED BY <1>0, <1>2, <1>6, <2>1, <2>2 DEF RollbackCommit, daemon, IInv, TypeOK
<1> QED BY <1>4, <1>5, <1>6

LEMMA OneStepTypes ==
    ASSUME IInv, StagesKept, NEW r \in Rollouts,
           \/ \E ui \in BOOLEAN : Pause(r, ui) \/ Resume(r, ui)
           \/ Complete(r) \/ Delete(r)
    PROVE  TypeOK'
<1>0. stage' \in [Rollouts -> [Stages -> StageStatus]]
  BY DEF StagesKept
<1>1. status' \in [Rollouts -> RolloutStatus]
  BY DEF Pause, Resume, Complete, Delete, IInv, TypeOK, RolloutStatus, StageStatus
<1>2. ASSUME \E ui \in BOOLEAN : Pause(r, ui) \/ Resume(r, ui) PROVE TypeOK'
  BY <1>0, <1>1, <1>2 DEF Pause, Resume, daemon, IInv, TypeOK
<1>3. ASSUME Complete(r) PROVE TypeOK'
  <2>1. Target[r] \in Version
    BY RolloutsAssumption DEF Version
  <2>2. pin' \in [Clusters -> Version]
    BY <1>3, <2>1 DEF Complete, IInv, TypeOK
  <2> QED BY <1>0, <1>1, <1>3, <2>2 DEF Complete, daemon, IInv, TypeOK
<1>4. ASSUME Delete(r) PROVE TypeOK'
  BY <1>0, <1>1, <1>4 DEF Delete, daemon, IInv, TypeOK
<1> QED BY <1>2, <1>3, <1>4

LEMMA OtherTypes ==
    ASSUME IInv, StagesKept,
           \/ \E c \in Clusters, v \in Pins : SetPin(c, v)
           \/ TickStep \/ RampStep
    PROVE  TypeOK'
<1>0. stage' \in [Rollouts -> [Stages -> StageStatus]]
  BY DEF StagesKept
<1>1. ASSUME NEW c \in Clusters, NEW v \in Pins, SetPin(c, v) PROVE TypeOK'
  <2>1. v \in Version
    BY RolloutsAssumption DEF Version
  <2> QED BY <1>1, <2>1 DEF SetPin, daemon, IInv, TypeOK
<1>2. ASSUME NEW r \in Rollouts, NEW i \in Stages, TickEvaluate(r, i) PROVE TypeOK'
  <2>1. tick' \in (Rollouts \X Stages) \cup {None}
    BY <1>2 DEF TickEvaluate
  <2> QED BY <1>2, <2>1 DEF TickEvaluate, server, daemon, IInv, TypeOK
<1>3. ASSUME TickPause PROVE TypeOK'
  BY <1>0, <1>3 DEF TickPause, daemon, IInv, TypeOK
<1>4. ASSUME NEW r \in Rollouts, NEW i \in Stages, NEW c \in Clusters, RampReaches(r, i, c)
      PROVE  TypeOK'
  <2>1. ramp' \in [Rollouts -> [Stages -> SUBSET Clusters]]
    BY <1>4 DEF RampReaches, IInv, TypeOK
  <2> QED BY <1>4, <2>1 DEF RampReaches, daemon, IInv, TypeOK
<1> QED BY <1>1, <1>2, <1>3, <1>4 DEF TickStep, RampStep

LEMMA DaemonTypes ==
    ASSUME IInv, NEW c \in Clusters, DaemonStep(c)
    PROVE  TypeOK'
<1>1. ASSUME FetchResolve(c) PROVE TypeOK'
  <2>1. [busy |-> TRUE, r |-> ActiveRollout(c)] \in Fetch
    BY ActiveTyped DEF Fetch
  <2> QED BY <1>1, <2>1 DEF FetchResolve, server, IInv, TypeOK
<1>2. ASSUME FetchAnswer(c) \/ FetchFails(c) PROVE TypeOK'
  <2> DEFINE r == fetch[c].r
  <2>0. RecordDelivery(c)
    BY <1>2 DEF FetchAnswer, FetchFails
  <2>1. r \in Rollouts \cup {None}
    BY DEF IInv, TypeOK, Fetch
  <2>2. Chosen(r, c) \in Version
    BY <2>1, ChosenTyped DEF IInv, TypeOK, Version
  <2>3. delivered' \subseteq Rollouts \X Clusters
    BY <2>0, <2>1 DEF RecordDelivery, Recorded, IInv, TypeOK
  <2>4. tgt' \in [Clusters -> Version] /\ got' \in [Clusters -> Rollouts \cup {None}]
    BY <1>2, <2>1, <2>2 DEF FetchAnswer, FetchFails, IInv, TypeOK
  <2>5. fetch' \in [Clusters -> Fetch]
    BY <2>0, NoFetchTyped DEF RecordDelivery, IInv, TypeOK
  <2> QED BY <2>0, <2>3, <2>4, <2>5 DEF RecordDelivery, IInv, TypeOK
<1>3. ASSUME Apply(c) PROVE TypeOK'
  <2>1. tgt[c] \in Versions
    BY <1>3 DEF Apply, IInv, TypeOK, Version
  <2> QED BY <1>3, <2>1 DEF Apply, server, IInv, TypeOK
<1> QED BY <1>1, <1>2, <1>3 DEF DaemonStep

LEMMA TypesStep ==
    ASSUME IInv, StagesKept, Next
    PROVE  TypeOK'
BY ReadTypes, CommitTypes, OneStepTypes, OtherTypes, DaemonTypes DEF Next, AdminStep

-----------------------------------------------------------------------------
(* Exposure. *)

LEMMA ExposedKept ==
    ASSUME StagesKept, NEW r \in Rollouts, NEW c \in Clusters, Exposed(r, c)
    PROVE  Exposed(r, c)'
BY DEF StagesKept, Keeps, Exposed

(* A rollout applies to a cluster only if it has exposed it. *)
LEMMA ActiveExposed ==
    ASSUME IInv, NEW c \in Clusters, ActiveRollout(c) # None
    PROVE  Exposed(ActiveRollout(c), c)
<1> DEFINE r == ActiveRollout(c)
<1>1. r \in Rollouts /\ Applies(r, c)
  BY ActiveTyped
<1> HIDE DEF r
<1>2. Exposed(r, c)
  BY <1>1 DEF Applies, Exposed, IInv, StagedExposure
<1> QED BY <1>2 DEF r

LEMMA RequestsStep ==
    ASSUME IInv, StagesKept, Next, TypeOK', NEW a \in Admins
    PROVE  /\ req'[a].op # "idle" => req'[a].r \in Rollouts
           /\ req'[a].op = "advance" =>
                req'[a].stage \in Stages /\ stage'[req'[a].r][req'[a].stage] # "pending"
<1> DEFINE Goal == /\ req'[a].op # "idle" => req'[a].r \in Rollouts
                   /\ req'[a].op = "advance" =>
                        req'[a].stage \in Stages /\ stage'[req'[a].r][req'[a].stage] # "pending"
<1>1. ASSUME req'[a] = req[a] PROVE Goal
  BY <1>1 DEF IInv, ReadsStarted, StagesKept, Keeps
<1>2. ASSUME req'[a] = IdleRequest PROVE Goal
  BY <1>2 DEF IdleRequest
<1>3. ASSUME NEW b \in Admins, End(b) PROVE Goal
  BY <1>1, <1>2, <1>3 DEF End, IInv, TypeOK
<1>4. ASSUME NEW b \in Admins, NEW r \in Rollouts,
             StartHttpRead(b, r) \/ StartUiRead(b, r) \/ RollbackRead(b, r)
      PROVE  Goal
  <2>1. CASE a # b
    BY <1>1, <1>4, <2>1 DEF StartHttpRead, StartUiRead, RollbackRead, Begin, IInv, TypeOK
  <2>2. CASE a = b
    BY <1>4, <2>2 DEF StartHttpRead, StartUiRead, RollbackRead, Begin, IInv, TypeOK
  <2> QED BY <2>1, <2>2
<1>5. ASSUME NEW b \in Admins, NEW r \in Rollouts, NEW i \in Stages, AdvanceRead(b, r, i)
      PROVE  Goal
  <2>1. CASE a # b
    BY <1>1, <1>5, <2>1 DEF AdvanceRead, Begin, IInv, TypeOK
  <2>2. CASE a = b
    <3>1. stage'[r][i] # "pending"
      BY <1>5 DEF AdvanceRead, StagesKept, Keeps
    <3>2. req'[a].r = r /\ req'[a].stage = i
      BY <1>5, <2>2 DEF AdvanceRead, Begin, IInv, TypeOK
    <3> QED BY <3>1, <3>2
  <2> QED BY <2>1, <2>2
<1>6. ASSUME UNCHANGED req PROVE Goal
  BY <1>1, <1>6
<1> HIDE DEF Goal
<1>7. ASSUME AdminStep PROVE Goal
  BY <1>3, <1>4, <1>5, <1>6, <1>7
     DEF AdminStep, StartCommit, AdvanceCommit, RollbackCommit, Pause, Resume, Complete,
         Delete, SetPin
<1>8. ASSUME TickStep \/ RampStep \/ \E c \in Clusters : DaemonStep(c) PROVE Goal
  BY <1>6, <1>8 DEF TickStep, TickEvaluate, TickPause, RampStep, RampReaches,
                    DaemonStep, FetchResolve, FetchAnswer, FetchFails, RecordDelivery, Apply
<1>9. Goal
  BY <1>7, <1>8 DEF Next
<1> QED BY <1>9 DEF Goal

(* What a cluster was told, what is recorded and what is being fetched change *)
(* only by a fetch and, for the record, by a deletion.                        *)
LEMMA TellingStep ==
    ASSUME Next, ~\E c \in Clusters : FetchResolve(c) \/ FetchAnswer(c) \/ FetchFails(c)
    PROVE  got' = got /\ fetch' = fetch /\ delivered' \subseteq delivered
<1> DEFINE Goal == got' = got /\ fetch' = fetch /\ delivered' \subseteq delivered
<1>1. ASSUME NEW a \in Admins, NEW r \in Rollouts,
             \/ StartHttpRead(a, r) \/ StartUiRead(a, r) \/ RollbackRead(a, r)
             \/ \E i \in Stages : AdvanceRead(a, r, i)
      PROVE  Goal
  BY <1>1 DEF StartHttpRead, StartUiRead, RollbackRead, AdvanceRead, Begin, server, daemon
<1>2. ASSUME NEW a \in Admins, StartCommit(a) \/ AdvanceCommit(a) \/ RollbackCommit(a)
      PROVE  Goal
  BY <1>2 DEF StartCommit, AdvanceCommit, RollbackCommit, daemon
<1>3. ASSUME NEW r \in Rollouts,
             \/ \E ui \in BOOLEAN : Pause(r, ui) \/ Resume(r, ui)
             \/ Complete(r) \/ Delete(r)
      PROVE  Goal
  BY <1>3 DEF Pause, Resume, Complete, Delete, daemon
<1>4. ASSUME NEW c \in Clusters, NEW v \in Pins, SetPin(c, v) PROVE Goal
  BY <1>4 DEF SetPin, daemon
<1>5. ASSUME TickStep \/ RampStep PROVE Goal
  BY <1>5 DEF TickStep, TickEvaluate, TickPause, RampStep, RampReaches, server, daemon
<1>6. ASSUME NEW c \in Clusters, Apply(c) PROVE Goal
  BY <1>6 DEF Apply, server
<1> HIDE DEF Goal
<1>7. Goal
  BY <1>1, <1>2, <1>3, <1>4, <1>5, <1>6 DEF Next, AdminStep, DaemonStep
<1> QED BY <1>7 DEF Goal

LEMMA ExposureStep ==
    ASSUME IInv, StagesKept, Next, NEW c \in Clusters, NEW r \in Rollouts
    PROVE  /\ got'[c] = r \/ <<r, c>> \in delivered' => Exposed(r, c)'
           /\ fetch'[c].r = r => Exposed(r, c)'
<1>0. r # None
  BY RolloutsAssumption
<1>1. got[c] = r \/ <<r, c>> \in delivered \/ fetch[c].r = r => Exposed(r, c)
  BY <1>0 DEF IInv, StagedExposure, ReadsStarted
<1>2. got[c] = r \/ <<r, c>> \in delivered \/ fetch[c].r = r => Exposed(r, c)'
  BY <1>1, ExposedKept
<1>3. CASE ~\E d \in Clusters : FetchResolve(d) \/ FetchAnswer(d) \/ FetchFails(d)
  BY <1>2, <1>3, TellingStep
<1>4. ASSUME NEW d \in Clusters, FetchResolve(d)
      PROVE  /\ got'[c] = r \/ <<r, c>> \in delivered' => Exposed(r, c)'
             /\ fetch'[c].r = r => Exposed(r, c)'
  <2>1. got' = got /\ delivered' = delivered
    BY <1>4 DEF FetchResolve, server
  <2>2. c # d => fetch'[c] = fetch[c]
    BY <1>4 DEF FetchResolve, IInv, TypeOK
  <2>3. c = d => fetch'[c].r = ActiveRollout(c)
    BY <1>4 DEF FetchResolve, IInv, TypeOK
  <2>4. ActiveRollout(c) = r => Exposed(r, c)
    BY <1>0, ActiveExposed
  <2>5. ActiveRollout(c) = r => Exposed(r, c)'
    BY <2>4, ExposedKept
  <2> QED BY <1>2, <2>1, <2>2, <2>3, <2>5
<1>5. ASSUME NEW d \in Clusters, FetchAnswer(d) \/ FetchFails(d)
      PROVE  /\ got'[c] = r \/ <<r, c>> \in delivered' => Exposed(r, c)'
             /\ fetch'[c].r = r => Exposed(r, c)'
  <2>0. RecordDelivery(d)
    BY <1>5 DEF FetchAnswer, FetchFails
  <2>1. c # d => fetch'[c] = fetch[c] /\ got'[c] = got[c]
    BY <1>5, <2>0 DEF FetchAnswer, FetchFails, RecordDelivery, IInv, TypeOK
  <2>2. c = d => fetch'[c].r = None /\ got'[c] \in {got[c], fetch[c].r}
    BY <1>5, <2>0 DEF FetchAnswer, FetchFails, RecordDelivery, IInv, TypeOK, NoFetch
  <2>3. <<r, c>> \in delivered' => <<r, c>> \in delivered \/ (c = d /\ fetch[c].r = r)
    BY <2>0 DEF RecordDelivery, Recorded
  <2> QED BY <1>0, <1>2, <2>1, <2>2, <2>3
<1> QED BY <1>3, <1>4, <1>5

-----------------------------------------------------------------------------
(* The invariant. *)

LEMMA RolloutsInit ==
    ASSUME Init
    PROVE  IInv
<1>1. TypeOK
  <2>1. pin \in [Clusters -> Version]
    BY RolloutsAssumption DEF Init, Version
  <2>2. running \in [Clusters -> Versions]
    BY <2>1, ChosenTyped DEF Init
  <2>3. req \in [Admins -> Request] /\ fetch \in [Clusters -> Fetch]
    BY IdleTyped, NoFetchTyped DEF Init
  <2>4. /\ status \in [Rollouts -> RolloutStatus]
        /\ stage \in [Rollouts -> [Stages -> StageStatus]]
    BY DEF Init, RolloutStatus, StageStatus
  <2> QED BY <2>1, <2>2, <2>3, <2>4 DEF Init, TypeOK, Version
<1>2. StagesInOrder
  BY DEF Init, StagesInOrder
<1>3. StagedExposure
  BY RolloutsAssumption DEF Init, StagedExposure
<1>4. ReadsStarted
  BY DEF Init, ReadsStarted, IdleRequest, NoFetch
<1> QED BY <1>1, <1>2, <1>3, <1>4 DEF IInv

LEMMA RolloutsStep ==
    ASSUME IInv, [Next]_vars
    PROVE  IInv'
<1>1. CASE UNCHANGED vars
  BY <1>1 DEF vars, IInv, TypeOK, StagesInOrder, StagedExposure, ReadsStarted, Exposed
<1>2. CASE Next
  <2>1. StagesKept
    BY <1>2, StagesStep
  <2>2. TypeOK'
    BY <1>2, <2>1, TypesStep
  <2>3. StagedExposure'
    BY <1>2, <2>1, ExposureStep DEF StagedExposure
  <2>4. ReadsStarted'
    <3>1. ASSUME NEW c \in Clusters, fetch'[c].r # None
          PROVE  \E i \in Stages : c \in Group[fetch'[c].r][i] /\ stage'[fetch'[c].r][i] # "pending"
      <4>1. PICK r \in Rollouts : r = fetch'[c].r
        BY <2>2, <3>1 DEF TypeOK, Fetch
      <4>2. Exposed(r, c)'
        BY <1>2, <2>1, <4>1, ExposureStep
      <4> QED BY <4>1, <4>2 DEF Exposed
    <3>2. \A a \in Admins :
            /\ req'[a].op # "idle" => req'[a].r \in Rollouts
            /\ req'[a].op = "advance" =>
                 req'[a].stage \in Stages /\ stage'[req'[a].r][req'[a].stage] # "pending"
      BY <1>2, <2>1, <2>2, RequestsStep
    <3> QED BY <3>1, <3>2 DEF ReadsStarted, Exposed
  <2> QED BY <2>1, <2>2, <2>3, <2>4 DEF IInv, StagesKept
<1> QED BY <1>1, <1>2

(* The tables, the requests and fetches under way and the daemons keep the  *)
(* inductive invariant, for every fleet and any number of admin requests.   *)
THEOREM RolloutsInvariant == Spec => []IInv
<1>1. Init => IInv
  BY RolloutsInit
<1>2. IInv /\ [Next]_vars => IInv'
  BY RolloutsStep
<1> QED BY <1>1, <1>2, PTL DEF Spec

(* No stage of a rollout starts before the stages below it, although advance *)
(* commits what it read before its transaction (routes.rs).                  *)
THEOREM RolloutsInOrder == Spec => []StagesInOrder
<1>1. IInv => StagesInOrder
  BY DEF IInv
<1> QED BY <1>1, RolloutsInvariant, PTL

(* A cluster is told a rollout's version, or recorded as having been, only   *)
(* after a stage of its group was started (active_rollout_for_cluster).      *)
THEOREM RolloutsExposure == Spec => []StagedExposure
<1>1. IInv => StagedExposure
  BY DEF IInv
<1> QED BY <1>1, RolloutsInvariant, PTL

(* Every variable keeps its type; the rollout a fetch resolves exists. *)
THEOREM RolloutsTypes == Spec => []TypeOK
<1>1. IInv => TypeOK
  BY DEF IInv
<1> QED BY <1>1, RolloutsInvariant, PTL

(* While the insert of a delivery cannot fail: what answered a cluster and still *)
(* exists has its delivery recorded; a deleted rollout never comes back.         *)
AnsweredIsRecorded ==
    \A c \in Clusters, r \in Rollouts : got[c] = r /\ Exists(r) => <<r, c>> \in delivered

LEMMA RecordedStep ==
    ASSUME ~RecordMayFail, IInv, AnsweredIsRecorded, [Next]_vars
    PROVE  AnsweredIsRecorded'
<1> SUFFICES ASSUME NEW c \in Clusters, NEW r \in Rollouts, got'[c] = r, status'[r] # "deleted"
             PROVE  <<r, c>> \in delivered'
  BY DEF AnsweredIsRecorded, Exists
<1> USE DEF IInv, TypeOK
<1>1. ASSUME status[r] = "deleted" PROVE FALSE
  <2>1. CASE AdminStep
    <3>1. ASSUME NEW a \in Admins, StartCommit(a) \/ AdvanceCommit(a) \/ RollbackCommit(a) PROVE FALSE
      BY <1>1, <3>1 DEF StartCommit, AdvanceCommit, RollbackCommit, Exists
    <3>2. ASSUME NEW q \in Rollouts, NEW ui \in BOOLEAN, Pause(q, ui) \/ Resume(q, ui) PROVE FALSE
      BY <1>1, <3>2 DEF Pause, Resume, Exists
    <3>3. ASSUME NEW q \in Rollouts, Complete(q) \/ Delete(q) PROVE FALSE
      BY <1>1, <3>3 DEF Complete, Delete, Exists
    <3> QED BY <1>1, <2>1, <3>1, <3>2, <3>3 DEF AdminStep, StartHttpRead, StartUiRead,
            RollbackRead, AdvanceRead, Begin, server, SetPin
  <2> QED BY <1>1, <2>1 DEF Next, vars, TickStep, TickEvaluate, TickPause, RampStep, RampReaches,
          DaemonStep, FetchResolve, FetchAnswer, FetchFails, RecordDelivery, Apply, server
<1>2. ASSUME NEW d \in Clusters, FetchAnswer(d) PROVE <<r, c>> \in delivered'
  <2>1. delivered' = Recorded(fetch[d].r, d) /\ got' = [got EXCEPT ![d] = fetch[d].r]
    BY <1>2 DEF FetchAnswer, RecordDelivery
  <2>2. CASE c = d
    <3>1. fetch[d].r = r
      BY <2>1, <2>2
    <3> QED BY <1>1, <2>1, <2>2, <3>1 DEF Recorded, Exists
  <2>3. CASE c # d
    BY <1>1, <2>1, <2>3 DEF Recorded, AnsweredIsRecorded, Exists
  <2> QED BY <2>2, <2>3
<1>7. ASSUME NEW d \in Clusters, FetchFails(d) PROVE <<r, c>> \in delivered'
  <2>1. delivered' = Recorded(fetch[d].r, d) /\ got' = got
    BY <1>7 DEF FetchFails, RecordDelivery
  <2> QED BY <1>1, <2>1 DEF Recorded, AnsweredIsRecorded, Exists
<1>3. ASSUME NEW q \in Rollouts, Delete(q) PROVE <<r, c>> \in delivered'
  BY <1>1, <1>3 DEF Delete, daemon, AnsweredIsRecorded, Exists
<1>4. CASE UNCHANGED <<got, delivered>>
  BY <1>1, <1>4 DEF AnsweredIsRecorded, Exists
<1>5. AdminStep => UNCHANGED <<got, delivered>> \/ \E q \in Rollouts : Delete(q)
  BY DEF AdminStep, StartHttpRead, StartUiRead, RollbackRead, AdvanceRead, Begin, StartCommit,
     AdvanceCommit, RollbackCommit, Pause, Resume, Complete, SetPin, server, daemon
<1>6. [Next]_vars => \/ AdminStep \/ UNCHANGED <<got, delivered>>
                     \/ \E d \in Clusters : FetchAnswer(d) \/ FetchFails(d)
  BY DEF Next, vars, TickStep, TickEvaluate, TickPause, RampStep, RampReaches, DaemonStep,
     FetchResolve, Apply, server, daemon
<1> QED BY <1>2, <1>3, <1>4, <1>5, <1>6, <1>7

(* The newest of the rollouts that apply is one at least as new as any of them.  *)
LEMMA RecordedSticks ==
    ASSUME IInv, AnsweredIsRecorded
    PROVE  DeliveredSticks
<1> SUFFICES ASSUME NEW c \in Clusters, NEW r \in Rollouts, got[c] = r,
                    status[r] \in {"rolling", "paused"}
             PROVE  ActiveRollout(c) # None /\ ActiveRollout(c) >= r
  BY DEF DeliveredSticks
<1> DEFINE R == {q \in Rollouts : Applies(q, c)}
<1>1. <<r, c>> \in delivered
  BY DEF AnsweredIsRecorded, Exists
<1>2. r \in R
  BY <1>1 DEF Applies
<1>3. ActiveRollout(c) = Newest(R)
  BY <1>2 DEF ActiveRollout
<1> HIDE DEF R
<1>4. R \subseteq Rollouts
  BY DEF R
<1>5. Newest(R) \in R /\ r <= Newest(R)
  BY <1>2, <1>4, NewestIsOne
<1> QED BY <1>3, <1>4, <1>5, RolloutsAssumption

(* A delivered target sticks, for every fleet and however pauses, resumes,       *)
(* stale advances, rollbacks, restarts and deletions interleave, as long as the  *)
(* delivery record is written: a paused rollout never downgrades a cluster.      *)
THEOREM RolloutsStick == ~RecordMayFail => (Spec => []DeliveredSticks)
<1> SUFFICES ASSUME ~RecordMayFail PROVE Spec => []DeliveredSticks
  OBVIOUS
<1>1. Init => AnsweredIsRecorded
  <2>1. None \notin Rollouts
    BY RolloutsAssumption
  <2>2. Init => \A c \in Clusters : got[c] = None
    BY DEF Init
  <2> QED BY <2>1, <2>2 DEF AnsweredIsRecorded
<1>2. IInv /\ AnsweredIsRecorded /\ [Next]_vars => AnsweredIsRecorded'
  BY RecordedStep
<1>3. IInv /\ AnsweredIsRecorded => DeliveredSticks
  BY RecordedSticks
<1> QED BY <1>1, <1>2, <1>3, RolloutsInvariant, PTL DEF Spec
=============================================================================
