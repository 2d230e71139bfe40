------------------------------ MODULE Rollouts ------------------------------
(***************************************************************************)
(* Staged rollouts: the server's rollout tables and the admin operations   *)
(* on them (server/src/api/routes.rs for the HTTP API,                     *)
(* server/src/api_mcp/endpoints/rollouts.rs for the web UI and MCP), the   *)
(* auto-pause loop (server/src/rollout_health.rs), the resolution of the   *)
(* version a cluster is served, and the daemon that fetches and applies it *)
(* (daemon/src/self_update.rs).                                            *)
(*                                                                         *)
(* A handler that reads before it opens its transaction is two steps, the  *)
(* read and the commit; a transaction is one step.  A cluster stands for   *)
(* its one daemon.  All rollouts exist, pending, from the start: a pending *)
(* rollout has no effect on anything.                                      *)
(***************************************************************************)
EXTENDS Integers, FiniteSets

CONSTANTS
    Clusters,     \* clusters, one daemon each
    Rollouts,     \* rollout ids, in the order of created_at
    LastStage,    \* the highest stage_order of every rollout
    Group,        \* Group[r][i]: the clusters of the group of stage i
    Target,       \* Target[r]: rollouts.target_version
    Gated,        \* the <<r, i>> with a health_gate
    Ramped,       \* the rollouts whose stages have ramp_minutes
    Versions,     \* daemon versions, as numbers
    Semver,       \* the versions that compare; the others are channels
    Pins,         \* the values operators pin clusters to
    Latest,       \* the newest semver row of daemon_versions
    Admins,       \* concurrent admin requests
    RecordMayFail,  \* whether the insert of a delivery can fail
    None

Stages == 0 .. LastStage

ASSUME RolloutsAssumption ==
    /\ Rollouts \subseteq Nat
    /\ \E r \in Rollouts : \A q \in Rollouts : q <= r
    /\ LastStage \in Nat
    /\ Group \in [Rollouts -> [Stages -> SUBSET Clusters]]
    /\ Versions \subseteq Nat
    /\ Target \in [Rollouts -> Versions]
    /\ Semver \subseteq Versions
    /\ Pins \subseteq Versions \cup {None}
    /\ Latest \in Semver
    /\ RecordMayFail \in BOOLEAN
    /\ None \notin Nat \cup Clusters

VARIABLES
    status,     \* rollouts.status; "deleted" once the row is gone
    stage,      \* rollout_stages.status
    ramp,       \* ramp[r][i]: clusters whose bucket the ramp has reached
    base,       \* rollouts.baseline_version
    delivered,  \* rollout_deliveries
    pin,        \* clusters.pinned_version
    req,        \* what each admin request has read
    tick,       \* the stage the auto-pause loop found failing
    fetch,      \* /api/update in progress: the rollout it resolved
    tgt,        \* the daemon's target cell
    got,        \* the rollout that answered the daemon's last fetch
    running     \* the version the daemon runs

vars == <<status, stage, ramp, base, delivered, pin, req, tick, fetch, tgt,
          got, running>>
server == <<status, stage, ramp, base, delivered, pin>>
daemon == <<fetch, tgt, got, running>>

StageStatus == {"pending", "rolling", "paused", "completed", "rolled_back"}
RolloutStatus == StageStatus \cup {"deleted"}
Version == Versions \cup {None}
IdleRequest == [op |-> "idle", r |-> None, stage |-> None, base |-> None]
Request == [op: {"idle", "startHttp", "startUi", "advance", "rollback"},
            r: Rollouts \cup {None}, stage: Stages \cup {None}, base: Version]

\* A GET /api/update in progress, and the rollout it resolved.
Fetch == [busy: BOOLEAN, r: Rollouts \cup {None}]
NoFetch == [busy |-> FALSE, r |-> None]

TypeOK ==
    /\ status \in [Rollouts -> RolloutStatus]
    /\ stage \in [Rollouts -> [Stages -> StageStatus]]
    /\ ramp \in [Rollouts -> [Stages -> SUBSET Clusters]]
    /\ base \in [Rollouts -> Version]
    /\ delivered \subseteq Rollouts \X Clusters
    /\ pin \in [Clusters -> Version]
    /\ req \in [Admins -> Request]
    /\ tick \in (Rollouts \X Stages) \cup {None}
    /\ fetch \in [Clusters -> Fetch]
    /\ tgt \in [Clusters -> Version]
    /\ got \in [Clusters -> Rollouts \cup {None}]
    /\ running \in [Clusters -> Versions]

-----------------------------------------------------------------------------
(* What a cluster is served. *)

Exists(r) == status[r] # "deleted"

Cohort(r) == UNION {Group[r][i] : i \in Stages}

\* Mutants: any stage of a rolling rollout applies; a delivery sticks only
\* while the rollout rolls.
AppliesAnyStage(r, c) ==
    \/ status[r] = "rolling" /\ c \in Cohort(r)
    \/ status[r] \in {"rolling", "paused"} /\ <<r, c>> \in delivered

AppliesRollingOnly(r, c) ==
    /\ status[r] = "rolling"
    /\ \/ \E i \in Stages :
            stage[r][i] = "rolling" /\ c \in Group[r][i] /\ c \in ramp[r][i]
       \/ <<r, c>> \in delivered

\* A rollout applies while a stage of the cluster rolls and its ramp has
\* reached the cluster; once delivered, for as long as it rolls or is paused.
Applies(r, c) ==
    \/ /\ status[r] = "rolling"
       /\ \E i \in Stages :
            stage[r][i] = "rolling" /\ c \in Group[r][i] /\ c \in ramp[r][i]
    \/ status[r] \in {"rolling", "paused"} /\ <<r, c>> \in delivered

Newest(R) == CHOOSE r \in R : \A q \in R : q <= r

\* active_rollout_for_cluster: ORDER BY created_at DESC LIMIT 1.
ActiveRollout(c) ==
    LET R == {r \in Rollouts : Applies(r, c)} IN
    IF R = {} THEN None ELSE Newest(R)

\* Mutant: the pin is consulted before the rollout.
ChosenPinFirst(r, c) ==
    CASE pin[c] # None -> pin[c]
      [] pin[c] = None /\ r # None -> Target[r]
      [] OTHER -> Latest

\* get_update_target, once the rollout is resolved.
Chosen(r, c) ==
    CASE r # None -> Target[r]
      [] r = None /\ pin[c] # None -> pin[c]
      [] OTHER -> Latest

\* started_at = now(): a ramped stage begins with no cluster eligible.
Start(r, i, st, rm) ==
    /\ stage' = [stage EXCEPT ![r] = st]
    /\ ramp' = [ramp EXCEPT ![r][i] = rm]

FreshRamp(r) == IF r \in Ramped THEN {} ELSE Clusters

\* UPDATE rollout_stages SET status = to WHERE status IN from.
SetStages(r, from, to) ==
    [i \in Stages |-> IF stage[r][i] \in from THEN to ELSE stage[r][i]]

-----------------------------------------------------------------------------
(* Admin requests. *)

Begin(a, request) ==
    /\ req[a] = IdleRequest
    /\ req' = [req EXCEPT ![a] = request]
    /\ UNCHANGED <<server, daemon, tick>>

End(a) == req' = [req EXCEPT ![a] = IdleRequest]

\* POST /start reads the status and refuses unless it is pending.
StartHttpRead(a, r) ==
    /\ status[r] = "pending"
    /\ Begin(a, [op |-> "startHttp", r |-> r, stage |-> None, base |-> None])

\* The web UI's start has no such guard and captures the majority version of
\* the cohort (cohort_baseline).
Majority(r) ==
    LET Count(v) == Cardinality({c \in Cohort(r) : running[c] = v}) IN
    {v \in {running[c] : c \in Cohort(r)} :
        \A w \in Versions : Count(w) <= Count(v)}

StartUiRead(a, r) ==
    /\ Exists(r)
    /\ \E b \in Majority(r) :
         Begin(a, [op |-> "startUi", r |-> r, stage |-> None, base |-> b])

\* The transaction of both: stage 0 rolls; COALESCE keeps a set baseline.
StartCommit(a) ==
    LET r == req[a].r IN
    /\ req[a].op \in {"startHttp", "startUi"}
    /\ IF Exists(r)
       THEN /\ status' = [status EXCEPT ![r] = "rolling"]
            /\ Start(r, 0, [stage[r] EXCEPT ![0] = "rolling"], FreshRamp(r))
            /\ base' = [base EXCEPT ![r] = IF @ = None THEN req[a].base ELSE @]
       ELSE UNCHANGED <<status, stage, ramp, base>>
    /\ End(a)
    /\ UNCHANGED <<delivered, pin, daemon, tick>>

\* Mutant: the query does not filter on the stage's status.
AdvanceReadAny(a, r, i) ==
    /\ Exists(r)
    /\ Begin(a, [op |-> "advance", r |-> r, stage |-> i, base |-> None])

\* advance reads "the current rolling stage" (LIMIT 1, no order).
AdvanceRead(a, r, i) ==
    /\ Exists(r)
    /\ stage[r][i] = "rolling"
    /\ Begin(a, [op |-> "advance", r |-> r, stage |-> i, base |-> None])

\* Its transaction completes that stage and starts the next, or completes
\* the rollout when there is none.
AdvanceCommit(a) ==
    LET r == req[a].r
        i == req[a].stage
    IN
    /\ req[a].op = "advance"
    /\ IF ~Exists(r) THEN UNCHANGED <<status, stage, ramp>>
       ELSE IF i < LastStage
       THEN /\ Start(r, i + 1, [stage[r] EXCEPT ![i] = "completed",
                                                ![i + 1] = "rolling"], FreshRamp(r))
            /\ UNCHANGED status
       ELSE /\ stage' = [stage EXCEPT ![r][i] = "completed"]
            /\ status' = [status EXCEPT ![r] = "completed"]
            /\ UNCHANGED ramp
    /\ End(a)
    /\ UNCHANGED <<base, delivered, pin, daemon, tick>>

\* rollback reads the baseline, then marks what shipped and rewinds the pins
\* of every cluster of the cohort.
RollbackRead(a, r) ==
    /\ Exists(r)
    /\ Begin(a, [op |-> "rollback", r |-> r, stage |-> None, base |-> base[r]])

RollbackCommit(a) ==
    LET r == req[a].r IN
    /\ req[a].op = "rollback"
    /\ IF Exists(r)
       THEN /\ status' = [status EXCEPT ![r] = "rolled_back"]
            /\ stage' = [stage EXCEPT ![r] =
                  SetStages(r, {"rolling", "paused", "completed"}, "rolled_back")]
       ELSE UNCHANGED <<status, stage>>
    /\ pin' = [c \in Clusters |-> IF c \in Cohort(r) THEN req[a].base ELSE pin[c]]
    /\ End(a)
    /\ UNCHANGED <<ramp, base, delivered, daemon, tick>>

\* The remaining operations are one transaction each.  The HTTP pause and
\* resume answer 409 when no stage is affected; the web UI's do not look.
Pause(r, ui) ==
    /\ Exists(r)
    /\ ui \/ \E i \in Stages : stage[r][i] = "rolling"
    /\ stage' = [stage EXCEPT ![r] = SetStages(r, {"rolling"}, "paused")]
    /\ status' = [status EXCEPT ![r] = "paused"]
    /\ UNCHANGED <<ramp, base, delivered, pin, daemon, req, tick>>

Resume(r, ui) ==
    /\ Exists(r)
    /\ ui \/ \E i \in Stages : stage[r][i] = "paused"
    /\ stage' = [stage EXCEPT ![r] = SetStages(r, {"paused"}, "rolling")]
    /\ status' = [status EXCEPT ![r] = "rolling"]
    /\ UNCHANGED <<ramp, base, delivered, pin, daemon, req, tick>>

Complete(r) ==
    /\ Exists(r)
    /\ stage' = [stage EXCEPT ![r] = SetStages(r, StageStatus, "completed")]
    /\ status' = [status EXCEPT ![r] = "completed"]
    /\ pin' = [c \in Clusters |-> IF c \in Cohort(r) THEN Target[r] ELSE pin[c]]
    /\ UNCHANGED <<ramp, base, delivered, daemon, req, tick>>

\* Stages and deliveries go with the rollout (ON DELETE CASCADE).
Delete(r) ==
    /\ Exists(r)
    /\ status' = [status EXCEPT ![r] = "deleted"]
    /\ delivered' = {d \in delivered : d[1] # r}
    /\ UNCHANGED <<stage, ramp, base, pin, daemon, req, tick>>

\* cluster_set_pinned_version.
SetPin(c, v) ==
    /\ pin' = [pin EXCEPT ![c] = v]
    /\ UNCHANGED <<status, stage, ramp, base, delivered, daemon, req, tick>>

-----------------------------------------------------------------------------
(* The auto-pause loop and the ramp's clock. *)

\* evaluate_stage fails: only instances on the target are considered, and
\* without one the gate passes.  The outcome itself is the fleet's.
TickEvaluate(r, i) ==
    /\ tick = None
    /\ status[r] = "rolling" /\ stage[r][i] = "rolling"
    /\ <<r, i>> \in Gated
    /\ \E c \in Group[r][i] : running[c] = Target[r]
    /\ tick' = <<r, i>>
    /\ UNCHANGED <<server, daemon, req>>

\* UPDATE ... SET status = 'paused' WHERE id = $1 AND status = 'rolling'.
TickPause ==
    /\ tick # None
    /\ stage' = IF Exists(tick[1]) /\ stage[tick[1]][tick[2]] = "rolling"
                THEN [stage EXCEPT ![tick[1]][tick[2]] = "paused"]
                ELSE stage
    /\ tick' = None
    /\ UNCHANGED <<status, ramp, base, delivered, pin, daemon, req>>

\* Time passes: the ramp of a stage reaches the bucket of another cluster.
RampReaches(r, i, c) ==
    /\ stage[r][i] \in {"rolling", "paused"}
    /\ c \in Group[r][i] \ ramp[r][i]
    /\ ramp' = [ramp EXCEPT ![r][i] = @ \cup {c}]
    /\ UNCHANGED <<status, stage, base, delivered, pin, daemon, req, tick>>

-----------------------------------------------------------------------------
(* The daemon. *)

\* GET /api/update resolves the rollout of the cluster ...
FetchResolve(c) ==
    /\ ~fetch[c].busy
    /\ fetch' = [fetch EXCEPT ![c] = [busy |-> TRUE, r |-> ActiveRollout(c)]]
    /\ UNCHANGED <<server, tgt, got, running, req, tick>>

\* record_rollout_delivery: the row of a deleted rollout is refused.
Recorded(r, c) ==
    IF r \in {q \in Rollouts : Exists(q)}
    THEN delivered \cup {<<r, c>>}
    ELSE delivered

\* ... records the delivery, best-effort, ...
RecordDelivery(c) ==
    /\ fetch[c].busy
    /\ fetch' = [fetch EXCEPT ![c] = NoFetch]
    /\ \/ delivered' = Recorded(fetch[c].r, c)
       \/ RecordMayFail /\ UNCHANGED delivered
    /\ UNCHANGED <<status, stage, ramp, base, pin, running, req, tick>>

\* ... and answers with a version, ...
FetchAnswer(c) ==
    /\ RecordDelivery(c)
    /\ tgt' = [tgt EXCEPT ![c] = Chosen(fetch[c].r, c)]
    /\ got' = [got EXCEPT ![c] = fetch[c].r]

\* ... or with a 500: the pin, the newest version or the store path cannot be
\* read.  The delivery stays recorded.
FetchFails(c) ==
    /\ RecordDelivery(c)
    /\ UNCHANGED <<tgt, got>>

\* "The downgrade guard only makes sense between two semver versions."
MayMove(from, to) == ~(from \in Semver /\ to \in Semver /\ to < from)

\* check_and_apply, with a store path that can be realised.
Apply(c) ==
    /\ tgt[c] # None
    /\ tgt[c] # running[c]
    /\ MayMove(running[c], tgt[c])
    /\ running' = [running EXCEPT ![c] = tgt[c]]
    /\ UNCHANGED <<server, fetch, tgt, got, req, tick>>

-----------------------------------------------------------------------------
Init ==
    /\ status = [r \in Rollouts |-> "pending"]
    /\ stage = [r \in Rollouts |-> [i \in Stages |-> "pending"]]
    /\ ramp = [r \in Rollouts |-> [i \in Stages |-> {}]]
    /\ base = [r \in Rollouts |-> None]
    /\ delivered = {}
    /\ pin \in [Clusters -> Pins]
    /\ req = [a \in Admins |-> IdleRequest]
    /\ tick = None
    /\ fetch = [c \in Clusters |-> NoFetch]
    /\ tgt = [c \in Clusters |-> None]
    /\ got = [c \in Clusters |-> None]
    /\ running = [c \in Clusters |-> Chosen(None, c)]

AdminStep ==
    \/ \E a \in Admins :
         \/ \E r \in Rollouts :
              \/ StartHttpRead(a, r) \/ StartUiRead(a, r) \/ RollbackRead(a, r)
              \/ \E i \in Stages : AdvanceRead(a, r, i)
         \/ StartCommit(a) \/ AdvanceCommit(a) \/ RollbackCommit(a)
    \/ \E r \in Rollouts :
         \/ \E ui \in BOOLEAN : Pause(r, ui) \/ Resume(r, ui)
         \/ Complete(r) \/ Delete(r)
    \/ \E c \in Clusters, v \in Pins : SetPin(c, v)

TickStep ==
    \/ \E r \in Rollouts, i \in Stages : TickEvaluate(r, i)
    \/ TickPause

RampStep == \E r \in Rollouts, i \in Stages, c \in Clusters : RampReaches(r, i, c)

DaemonStep(c) == FetchResolve(c) \/ FetchAnswer(c) \/ FetchFails(c) \/ Apply(c)

Next == AdminStep \/ TickStep \/ RampStep \/ \E c \in Clusters : DaemonStep(c)

Spec == Init /\ [][Next]_vars

\* Daemons poll /api/update, which does not fail for ever, and apply what they
\* are told; ramps run by the clock.  Nothing obliges an admin or a gate to act.
Fairness ==
    /\ \A c \in Clusters :
         WF_vars(FetchResolve(c)) /\ SF_vars(FetchAnswer(c)) /\ WF_vars(Apply(c))
    /\ \A r \in Rollouts, i \in Stages, c \in Clusters : WF_vars(RampReaches(r, i, c))

LiveSpec == Spec /\ Fairness

-----------------------------------------------------------------------------
(* Properties. *)

\* Staged exposure: a cluster is told a rollout's version by that rollout only
\* if a stage of its group was started, even when the fetch overlaps a pause,
\* a rollback, a deletion or a stale advance.
Exposed(r, c) == \E i \in Stages : c \in Group[r][i] /\ stage[r][i] # "pending"

StagedExposure ==
    \A c \in Clusters, r \in Rollouts :
        (got[c] = r \/ <<r, c>> \in delivered) => Exposed(r, c)

\* Stages start in order, although two admins may advance from stale reads.
StagesInOrder ==
    \A r \in Rollouts, i, j \in Stages :
        i < j /\ stage[r][j] # "pending" => stage[r][i] # "pending"

\* What requests and fetches have read and not yet used: an advance holds a
\* stage that was started, a fetch a rollout that has exposed its cluster.
ReadsStarted ==
    /\ \A a \in Admins :
         /\ req[a].op # "idle" => req[a].r \in Rollouts
         /\ req[a].op = "advance" =>
              req[a].stage \in Stages /\ stage[req[a].r][req[a].stage] # "pending"
    /\ \A c \in Clusters : fetch[c].r # None => Exposed(fetch[c].r, c)

IInv == TypeOK /\ StagesInOrder /\ StagedExposure /\ ReadsStarted

\* A delivered target sticks: while a rollout rolls or is paused, a cluster
\* that it answered last keeps resolving to it, or to a newer one ("a pause
\* never downgrades a cluster that already updated").
DeliveredSticks ==
    \A c \in Clusters, r \in Rollouts :
        got[c] = r /\ status[r] \in {"rolling", "paused"} =>
            ActiveRollout(c) # None /\ ActiveRollout(c) >= r

\* A rolling stage whose ramp has passed a cluster's bucket.
Reaching(r, i, c) ==
    status[r] = "rolling" /\ stage[r][i] = "rolling" /\ c \in ramp[r][i]

\* A rolling stage reaches every cluster whose bucket its ramp has passed, with
\* pins, failing answers and other rollouts around: the daemon gets to the target
\* unless the stage stops rolling, an operator starts its ramp again, the
\* downgrade guard refuses the target, or a newer rollout is served (created_at
\* DESC LIMIT 1).  A newer one that has ended or was deleted gives way again.
RollingReaches ==
    \A r \in Rollouts, i \in Stages : \A c \in Group[r][i] :
        (Reaching(r, i, c) /\ ActiveRollout(c) = r)
            ~> (\/ running[c] = Target[r]
                \/ ~MayMove(running[c], Target[r])
                \/ ~Reaching(r, i, c)
                \/ ActiveRollout(c) > r)

\* "completion persists the pin onto the clusters" (active_rollout_for_cluster).
CompletionPersists ==
    [][\A r \in Rollouts :
          status[r] # "completed" /\ status'[r] = "completed" =>
             \A c \in Cohort(r) : pin'[c] = Target[r]]_vars

\* "The baseline is populated when the first stage flips from pending ->
\* rolling" (migrations/030_rollout_rollback.sql).
BaselineCaptured ==
    \A r \in Rollouts : stage[r][0] = "rolling" => base[r] # None

\* "daemons that took the bad version downgrade on the next tick"
\* (admin_rollback_rollout): a daemon on the target leaves it once its pin is
\* rewound to the baseline, unless the pin or the rollout changes again.
RollbackDowngrades ==
    \A r \in Rollouts : \A c \in Cohort(r) :
        LET Rewound == /\ status[r] = "rolled_back"
                       /\ base[r] \notin {None, Target[r]}
                       /\ pin[c] = base[r]
        IN  (Rewound /\ running[c] = Target[r]) ~> (running[c] # Target[r] \/ ~Rewound)

\* "Stages are auto-paused when their gate fails during rollout"
\* (rollout_health.rs): while the gate holds a stage paused in a rolling
\* rollout, the next stage does not start.
GateHolds ==
    [][\A r \in Rollouts, i \in Stages :
          /\ i + 1 \in Stages
          /\ status[r] = "rolling" /\ stage[r][i] = "paused"
          /\ stage[r][i + 1] = "pending"
          => stage'[r][i + 1] # "rolling"]_vars
=============================================================================
