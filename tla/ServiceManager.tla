--------------------------- MODULE ServiceManager ---------------------------
(***************************************************************************)
(* The daemon's service manager, src/mac-mgmt-agent/src/service_mgmt.rs,   *)
(* and the handlers of the daemon's select! loop that drive it,            *)
(* src/daemon/src/daemon.rs.                                               *)
(*                                                                         *)
(* The loop is one task: a handler runs to its end before the next one     *)
(* starts.  The health tick is the only one that awaits the supervisor;    *)
(* each of its awaits is a step here, and between two steps children       *)
(* crash, are respawned, binaries change on disk and the connection        *)
(* drops.  handle_health_tick abandons the tick after 30 s, at any await.  *)
(*                                                                         *)
(* Reduced to what the manager sees of it: the supervisor (module          *)
(* Supervisor) and its connection (module SupervisorRpc): requests that    *)
(* were given up are served later and their answers read by later calls.   *)
(* External: nix (a version per service on disk and one the server pins)   *)
(* and the services' own callbacks.                                        *)
(***************************************************************************)
EXTENDS Integers, Sequences, FiniteSets, SequencesExt, FiniteSetsExt

CONSTANTS Services,     \* the names of the Managed and Integrated services
          Versions,     \* store paths a package resolves to, 1..n
          Confs,        \* bound on the generations of a service's configuration
          Scenarios,    \* what the environment may do: see Scenario
          None

ASSUME VersionsAssumption ==
    /\ Versions \subseteq Nat \ {0} /\ 1 \in Versions
    /\ IsFiniteSet(Services)
    /\ None \notin Versions \cup Services
    /\ Confs \in Nat \ {0}

Phases == {"Installing", "InstallFailed", "Stopped", "Starting", "Healthy",
           "Unhealthy", "CrashBackoff"}
Gates == {"Anytime", "InWindow", "Deferred"}

(* The disturbances a scenario counts: failing calls (supervisor, nix),     *)
(* crashes, lost connections, moves of the server's pin, changes of the     *)
(* binary behind the manager, configuration changes, health checks that     *)
(* fail on a running service, ticks that run into the 30 s timeout and      *)
(* restarts of the daemon.                                                  *)
Budgets == {"fail", "crash", "link", "pin", "drift", "conf", "sick", "slow", "boot"}

(* integrated: services without a process; gates: the upgrade gates ticks   *)
(* meet; hot, watched: services that reload their configuration, or that    *)
(* look for external changes (needs_restart); wrapped: services whose       *)
(* spawned program never resolves to the path `which` finds; orphaned:      *)
(* services whose port an orphan answers; versions: those packages resolve   *)
(* to, bad: the ones that crash over and over; fresh: nothing installed or running yet.                           *)
Scenario ==
    [integrated: SUBSET Services, gates: SUBSET Gates, hot: SUBSET Services,
     watched: SUBSET Services, wrapped: SUBSET Services,
     orphaned: SUBSET Services, versions: SUBSET Versions,
     bad: SUBSET Versions, fresh: BOOLEAN,
     pin: Versions, left: [Budgets -> Nat]]

ASSUME ScenariosAssumption == Scenarios \subseteq Scenario

VARIABLES
    scenario,   \* the scenario of this behaviour
    left,       \* what is left of its disturbances
    svc,        \* self.services: ServiceState per service
    link,       \* self.client: "none", "up", or "down" (is_disconnected)
    asked,      \* requests on the connection that were given up, not yet served
    unread,     \* the answers to such requests, which nobody has read
    notes,      \* Crashed notifications waiting in the client
    due,        \* services whose restart_at has passed
    tick,       \* where the health tick is
    rx,         \* whether install_rx is Some
    queue,      \* services the install task has still to install
    updates,    \* InstallUpdates in the channel
    sup,        \* the supervisor's entry per service
    disk,       \* external: the version `which` resolves, per service
    pin,        \* external: the version the server pins
    conf,       \* external: the generation of each service's configuration
    cut         \* services whose reregister was begun and not finished

wire == <<asked, unread>>
manager == <<svc, link, wire, notes, due, tick, rx, queue, updates, cut>>
outside == <<scenario, left, sup, disk, pin, conf>>
vars == <<manager, outside>>
installs == <<rx, queue, updates>>
world == <<scenario, disk, pin, conf>>

Managed == Services \ scenario.integrated

(***************************************************************************)
(* State of a service, of the manager and of the supervisor.               *)
(***************************************************************************)

\* What the supervisor's resolved_program comes to for a wrapped service: a
\* store path that `which` finds for none.
Wrapper == 0

\* ServiceState; `spec` is the configuration the last spawn_spec was built
\* from (what needs_restart compares with), 0 before the first.
ServiceState ==
    [phase: Phases, upgrade: BOOLEAN, restart: BOOLEAN, registered: BOOLEAN,
     running: Versions \cup {None, Wrapper}, target: Versions \cup {None},
     spec: 0..Confs]

NewService(s) ==
    [phase |-> "Installing", upgrade |-> FALSE, restart |-> FALSE,
     registered |-> FALSE, running |-> None, target |-> None, spec |-> 0]

\* add_integrated_service: after init, without an installation.
AddedService(s) == [NewService(s) EXCEPT !.phase = "Starting"]

\* Entry: configuration and resolved program of
\* its registration, and the version that runs (None while nothing does).
Entry == [conf: 1..Confs, resolved: Versions \cup {None},
          bin: Versions \cup {None}]

ASSUME NoEntryAssumption == None \notin Entry

Known(s) == sup[s] # None
Up(s) == Known(s) /\ sup[s].bin # None

\* Where the health tick is: what it still has to do, the upgrade gate, the
\* services that are busy and the supervisor_live map.
Stages == {"idle", "register", "refresh", "live", "decide", "unregister",
           "reregister", "refreshed", "check"}
Idle == [at |-> "idle", gate |-> "Anytime", busy |-> {}, live |-> {},
         todo |-> {}, cur |-> None]

Spend(b) == left[b] > 0 /\ left' = [left EXCEPT ![b] = @ - 1]

(***************************************************************************)
(* The supervisor's side of the calls, and a call.                         *)
(***************************************************************************)

Register(s) == [op |-> "Register", name |-> s, conf |-> conf[s]]
Unregister(s) == [op |-> "Unregister", name |-> s]
List == [op |-> "List"]
Request == [op: {"Register"}, name: Services, conf: 1..Confs]
           \cup [op: {"Unregister"}, name: Services] \cup {List}

NoStatuses == [s \in Services |-> None]
NoAnswer == [op |-> "None", statuses |-> NoStatuses]
Answer == [op: {"Ok", "Services", "None"}, statuses: [Services -> Entry \cup {None}]]

\* register: a known service with the same spec is left alone, any other is
\* (re)spawned; the program may not exist yet.  A service that reloads its
\* configuration has read it in configure(), the spec does not change.
Registered(s, c) ==
    IF Known(s) /\ (sup[s].conf = c \/ s \in scenario.hot)
    THEN [sup EXCEPT ![s].conf = c]
    ELSE [sup EXCEPT ![s] = [conf |-> c, resolved |-> disk[s], bin |-> disk[s]]]

\* handle: what a request does, and its answer.
Handled(r) == CASE r.op = "Register"   -> Registered(r.name, r.conf)
                [] r.op = "Unregister" -> [sup EXCEPT ![r.name] = None]
                [] OTHER               -> sup

Reply(r) == IF r.op = "List" THEN [op |-> "Services", statuses |-> sup]
            ELSE [op |-> "Ok", statuses |-> NoStatuses]

\* The main loop serves a request whose call was given up.  What is not served
\* when the connection ends never is.
Serve ==
    /\ link = "up" /\ asked # <<>>
    /\ sup' = Handled(Head(asked))
    /\ unread' = Append(unread, Reply(Head(asked)))
    /\ asked' = Tail(asked)
    /\ UNCHANGED <<svc, link, notes, due, tick, installs, cut, world, left>>

InStep == asked = <<>> /\ unread = <<>>

\* What a call reads: its own answer, or the first that an earlier call left.
Got(how, r) == CASE how = "own"     -> Reply(r)
                 [] how = "earlier" -> Head(unread)
                 [] OTHER           -> NoAnswer

\* send: answers carry no id, so behind a call that was given up every later
\* one reads the answer of its predecessor.  A call gets none when the
\* connection is gone, or when RPC_TIMEOUT passes before there is one to read.
Call(how, r) ==
    \/ /\ how = "own" /\ link = "up" /\ InStep
       /\ sup' = Handled(r) /\ UNCHANGED <<wire, left>>
    \/ /\ how = "earlier" /\ link = "up" /\ unread # <<>>
       /\ asked' = Append(asked, r) /\ unread' = Tail(unread)
       /\ UNCHANGED <<sup, left>>
    \/ /\ how = "none" /\ link = "up" /\ unread = <<>> /\ Spend("fail")
       /\ asked' = Append(asked, r) /\ UNCHANGED <<unread, sup>>
    \/ /\ how = "none" /\ link # "up"
       /\ UNCHANGED <<wire, sup, left>>

\* Crashed: pushed to the client that is connected.
Notify(s) == notes' = IF link = "up" THEN notes \cup {s} ELSE notes

\* A child exits by itself; a bad version always does, sooner or later.
Crash(s) ==
    /\ Up(s)
    /\ IF sup[s].bin \in scenario.bad THEN UNCHANGED left ELSE Spend("crash")
    /\ sup' = [sup EXCEPT ![s].bin = None]
    /\ Notify(s)
    /\ UNCHANGED <<svc, link, wire, due, tick, installs, cut, world>>

\* run_service: respawned from PATH; resolved_program stays what it was.  A
\* program that is missing is reported as one more crash.
Respawn(s) ==
    /\ Known(s) /\ ~Up(s)
    /\ sup' = [sup EXCEPT ![s].bin = disk[s]]
    /\ IF disk[s] = None THEN Notify(s) ELSE UNCHANGED notes
    /\ UNCHANGED <<svc, link, wire, due, tick, installs, cut, world, left>>

\* The supervisor re-execs and adopts its children, or dies and forgets them.
Disconnect(died) ==
    /\ link = "up" /\ Spend("link")
    /\ link' = "down" /\ asked' = <<>> /\ unread' = <<>>
    /\ sup' = IF died THEN [s \in Services |-> None] ELSE sup
    /\ UNCHANGED <<svc, notes, due, tick, installs, cut, world>>

(***************************************************************************)
(* The rest of the environment.                                            *)
(***************************************************************************)

PinMoves ==
    /\ Spend("pin")
    /\ pin' \in scenario.versions \ {pin}
    /\ UNCHANGED <<manager, scenario, sup, disk, conf>>

\* A package changes behind the manager: another service's upgrade, an
\* operator, a rollback of the profile.
BinaryChanges(s) ==
    /\ disk[s] # None /\ Spend("drift")
    /\ \E v \in scenario.versions \ {disk[s]} : disk' = [disk EXCEPT ![s] = v]
    /\ UNCHANGED <<manager, scenario, sup, pin, conf>>

\* The env file of a service that watches it is rewritten.
EnvFileChanges(s) ==
    /\ s \in scenario.watched /\ conf[s] < Confs /\ Spend("conf")
    /\ conf' = [conf EXCEPT ![s] = @ + 1]
    /\ UNCHANGED <<manager, scenario, sup, disk, pin>>

\* restart_at passes.
BackoffElapses ==
    /\ due' = {s \in Services : svc[s].phase = "CrashBackoff"}
    /\ due' # due
    /\ UNCHANGED <<svc, link, wire, notes, tick, installs, cut, outside>>

(***************************************************************************)
(* Installation.                                                           *)
(***************************************************************************)

\* The blocking task of spawn_install_task: ensure_installed (a no-op for what
\* is installed) and ensure_setup, then blocking_send.  The channel holds four.
InstallNext(ok) ==
    /\ queue # <<>> /\ Len(updates) < 4
    /\ LET s == Head(queue) IN
       /\ IF ok THEN UNCHANGED left ELSE s \in Managed /\ Spend("fail")
       /\ disk' = IF ok /\ s \in Managed /\ disk[s] = None
                  THEN [disk EXCEPT ![s] = pin] ELSE disk
       /\ updates' = Append(updates, [name |-> s, ok |-> ok])
    /\ queue' = Tail(queue)
    /\ UNCHANGED <<svc, link, wire, notes, due, tick, rx, cut, scenario, sup, pin, conf>>

HandleInstallUpdate ==
    /\ tick.at = "idle" /\ rx /\ updates # <<>>
    /\ LET u == Head(updates) IN
       svc' = [svc EXCEPT ![u.name] =
                 IF ~u.ok THEN [@ EXCEPT !.phase = "InstallFailed"]
                 ELSE IF u.name \in Managed
                 THEN [@ EXCEPT !.phase = "Stopped", !.registered = FALSE]
                 ELSE [@ EXCEPT !.phase = "Starting", !.registered = TRUE]]
    /\ updates' = Tail(updates)
    /\ UNCHANGED <<link, wire, notes, due, tick, rx, queue, cut, outside>>

\* The task is done and its sender dropped.
FinishInstalls ==
    /\ tick.at = "idle" /\ rx /\ queue = <<>> /\ updates = <<>>
    /\ rx' = FALSE
    /\ UNCHANGED <<svc, link, wire, notes, due, tick, queue, updates, cut, outside>>

\* retry_failed_installs, on the service states `st`.
RetryFailedInstalls(st) ==
    LET failed == {s \in Services : st[s].phase = "InstallFailed"}
        requeued == [s \in Services |->
                       IF s \in failed THEN [st[s] EXCEPT !.phase = "Installing"]
                       ELSE st[s]]
    IN IF rx \/ failed = {}
       THEN svc' = st /\ UNCHANGED installs
       ELSE /\ svc' = requeued
            /\ queue' = SetToSeq({s \in Services : requeued[s].phase = "Installing"})
            /\ rx' = TRUE
            /\ UNCHANGED updates

(***************************************************************************)
(* The other handlers of the loop.                                         *)
(***************************************************************************)

\* Mutant of TornDown: what was registered stays registered.
TornDownKeeps(st) == [st EXCEPT !.phase = "Stopped"]

\* ensure_client and send_update_self: what a lost connection does to a state.
TornDown(st) == [st EXCEPT !.registered = FALSE, !.phase = "Stopped"]

\* check_upgrades: one nix check, which may fail, per service that has no
\* upgrade pending; what it upgrades is on disk and waits for its restart.
Upgradable(st, failing) ==
    {s \in Managed \ failing : ~st[s].upgrade /\ disk[s] \notin {None, pin}}

Upgraded(st, which) ==
    [s \in Services |->
       IF s \in which THEN [st[s] EXCEPT !.upgrade = TRUE] ELSE st[s]]

CheckUpgrades(which) ==
    disk' = [s \in Services |-> IF s \in which THEN pin ELSE disk[s]]

\* handle_update, in the upgrade window: the supervisor is told to re-exec
\* (`torn`: it does, or the call fails), then upgrades are looked for.
HandleUpdate(torn, failing) ==
    LET st == IF torn THEN [s \in Services |-> TornDown(svc[s])] ELSE svc
        which == Upgradable(st, failing)
    IN /\ tick.at = "idle" /\ scenario.gates # {"Deferred"}
       /\ torn => link # "none" /\ left["link"] > 0
       /\ failing \subseteq Upgradable(st, {})
       /\ failing # {} => left["fail"] > 0
       /\ left' = [left EXCEPT !["link"] = IF torn THEN @ - 1 ELSE @,
                               !["fail"] = IF failing # {} THEN @ - 1 ELSE @]
       /\ link' = IF torn THEN "none" ELSE link
       /\ asked' = (IF torn THEN <<>> ELSE asked) /\ unread' = (IF torn THEN <<>> ELSE unread)
       /\ notes' = IF torn THEN {} ELSE notes
       /\ svc' = Upgraded(st, which) /\ CheckUpgrades(which)
       /\ UNCHANGED <<due, tick, installs, cut, scenario, sup, pin, conf>>

\* The SelfUpdate push: only the supervisor's re-exec.
PushSelfUpdate ==
    /\ tick.at = "idle" /\ scenario.gates # {"Deferred"}
    /\ link # "none" /\ Spend("link")
    /\ link' = "none" /\ asked' = <<>> /\ unread' = <<>> /\ notes' = {}
    /\ svc' = [s \in Services |-> TornDown(svc[s])]
    /\ UNCHANGED <<due, tick, installs, cut, world, sup>>

\* The SyncNixpkgs push: upgrades, whatever the window, and a retry of the
\* installations that failed.
PushSyncNixpkgs(failing) ==
    LET which == Upgradable(svc, failing)
    IN /\ tick.at = "idle" /\ failing \subseteq Upgradable(svc, {})
       /\ IF failing = {} THEN UNCHANGED left ELSE Spend("fail")
       /\ CheckUpgrades(which)
       /\ RetryFailedInstalls(Upgraded(svc, which))
       /\ UNCHANGED <<link, wire, notes, due, tick, cut, scenario, sup, pin, conf>>

\* schedule_restart: a service that can reload its configuration does, unless
\* configure() fails; every other one is to be restarted.
ScheduleRestart(failing) ==
    [s \in Services |->
       IF s \in scenario.hot \ failing THEN svc[s]
       ELSE [svc[s] EXCEPT !.restart = TRUE]]

\* handle_config_reload, also from the periodic poll.
ConfigPoll ==
    /\ tick.at = "idle"
    /\ RetryFailedInstalls(svc)
    /\ UNCHANGED <<link, wire, notes, due, tick, cut, outside>>

ConfigReload(failing) ==
    LET reloading == scenario.hot \ failing
    IN /\ tick.at = "idle" /\ Spend("conf") /\ failing \subseteq scenario.hot
       /\ \A s \in Managed : conf[s] < Confs
       /\ conf' = [s \in Services |-> IF s \in Managed THEN conf[s] + 1 ELSE conf[s]]
       /\ sup' = [s \in Services |-> IF s \in reloading /\ Known(s)
                                     THEN [sup[s] EXCEPT !.conf = conf[s] + 1]
                                     ELSE sup[s]]
       /\ RetryFailedInstalls(ScheduleRestart(failing))
       /\ UNCHANGED <<link, wire, notes, due, tick, cut, scenario, disk, pin>>

(***************************************************************************)
(* The health tick.                                                        *)
(***************************************************************************)

\* Mutant of AllowsHealthy: the health check alone decides.
AllowsHealthyAny(s) == TRUE

AllowsHealthy(s) == s \in Managed => s \in tick.live

\* Services the tick registers: not registered and not being installed.
Unregistered(st) ==
    {s \in Managed : /\ ~st[s].registered
                     /\ st[s].phase \notin {"Installing", "InstallFailed"}}

\* ensure_client: a connection found broken is dropped and with it what was
\* known of the services; then connect, which may give up after 30 s.
TickBegin(gate, busy, connects) ==
    LET st == IF link = "down" THEN [s \in Services |-> TornDown(svc[s])] ELSE svc
        todo == Unregistered(st)
    IN /\ tick.at = "idle"
       /\ gate \in scenario.gates /\ busy \subseteq Managed
       /\ IF connects THEN UNCHANGED left ELSE link # "up" /\ Spend("fail")
       /\ svc' = st
       /\ notes' = IF link = "up" THEN notes ELSE {}
       /\ link' = IF connects THEN "up" ELSE "none"
       /\ tick' = IF connects
                  THEN [at |-> IF todo = {} THEN "refresh" ELSE "register",
                        gate |-> gate, busy |-> busy, live |-> {}, todo |-> todo,
                        cur |-> None]
                  ELSE Idle
       /\ UNCHANGED <<wire, due, installs, cut, world, sup>>

\* register_service: configure, spawn_spec, the call and what its answer
\* changes.
RegisterService(s, how) ==
    /\ Call(how, Register(s))
    /\ svc' = [svc EXCEPT ![s] =
                 IF Got(how, Register(s)).op = "Ok"
                 THEN [@ EXCEPT !.spec = conf[s], !.registered = TRUE, !.phase = "Starting"]
                 ELSE [@ EXCEPT !.spec = conf[s]]]
    /\ cut' = IF Got(how, Register(s)).op = "Ok" THEN cut \ {s} ELSE cut

TickRegister(s, how) ==
    /\ tick.at = "register" /\ s \in tick.todo
    /\ RegisterService(s, how)
    /\ tick' = [tick EXCEPT !.todo = @ \ {s},
                            !.at = IF tick.todo = {s} THEN "refresh" ELSE @]
    /\ UNCHANGED <<link, notes, due, installs, world>>

\* refresh_running_store_paths: an answer that is no list changes nothing, and a
\* name that is not listed keeps what it had.  The program of the registration
\* comes first; when it did not resolve, the one that runs.
RefreshRunning(answer) ==
    LET listed(s) == answer.statuses[s]
        shown(s) == IF listed(s).resolved # None THEN listed(s).resolved ELSE listed(s).bin
    IN [s \in Services |->
          IF answer.op = "Services" /\ listed(s) # None
          THEN [svc[s] EXCEPT !.running =
                  IF s \in scenario.wrapped /\ shown(s) # None THEN Wrapper ELSE shown(s)]
          ELSE svc[s]]

\* drain_notifications
DrainNotifications(st) ==
    [s \in Services |->
       IF s \in notes THEN [st[s] EXCEPT !.phase = "CrashBackoff"] ELSE st[s]]

TickRefresh(how) ==
    /\ tick.at = "refresh"
    /\ Call(how, List)
    /\ svc' = DrainNotifications(RefreshRunning(Got(how, List)))
    /\ notes' = {}
    /\ due' = due \ notes
    /\ tick' = [tick EXCEPT !.at = "live"]
    /\ UNCHANGED <<link, installs, cut, world>>

\* supervisor_live_map: empty without a list.
LiveMap(answer) ==
    {s \in Services : /\ answer.op = "Services" /\ answer.statuses[s] # None
                      /\ answer.statuses[s].bin # None}

TickLive(how) ==
    /\ tick.at = "live"
    /\ Call(how, List)
    /\ tick' = [tick EXCEPT !.at = "decide", !.live = LiveMap(Got(how, List))]
    /\ UNCHANGED <<svc, link, notes, due, installs, cut, world>>

\* Phase 0, expire_crash_backoff.
Expired(s) == s \in Managed \cap due /\ svc[s].phase = "CrashBackoff"

NeedsRestart(s) ==
    s \in scenario.watched /\ svc[s].spec # 0 /\ svc[s].spec # conf[s]

\* drift_decision
DriftDecision(running, current, last) ==
    IF None \in {running, current} \/ running = current THEN "None"
    ELSE IF last = current THEN "SuppressedLoop"
    ELSE "Schedule"

\* Mutant of LifecycleStep: a service in crash backoff waits with everything.
LifecycleStepSkipsBackoff(s, st) ==
    LET backoff == st.phase = "CrashBackoff"
        busy == ~backoff /\ s \in tick.busy
        restart == \/ st.restart
                   \/ st.phase = "Healthy" /\ NeedsRestart(s)
        drifts == /\ ~st.upgrade
                  /\ DriftDecision(st.running, disk[s], st.target) = "Schedule"
        upgrade == (st.upgrade \/ drifts) /\ tick.gate # "Deferred"
        same == disk[s] # None /\ disk[s] = st.running
    IN IF backoff THEN [reregister |-> FALSE, state |-> st]
       ELSE IF restart /\ (~busy \/ tick.gate = "InWindow")
       THEN [reregister |-> TRUE,
             state |-> [st EXCEPT !.restart = FALSE, !.upgrade = FALSE]]
       ELSE [reregister |-> upgrade /\ ~same,
             state |-> [st EXCEPT !.restart = restart,
                                  !.target = IF drifts THEN disk[s] ELSE @,
                                  !.upgrade = (@ \/ drifts) /\ ~upgrade]]

\* Mutant of LifecycleStep: the old path is recorded as the drift's target.
LifecycleStepOldTarget(s, st) ==
    LET backoff == st.phase = "CrashBackoff"
        busy == ~backoff /\ s \in tick.busy
        restart == \/ st.restart
                   \/ st.phase = "Healthy" /\ NeedsRestart(s)
        drifts == /\ ~st.upgrade
                  /\ DriftDecision(st.running, disk[s], st.target) = "Schedule"
        upgrade == (st.upgrade \/ drifts) /\ tick.gate # "Deferred"
        same == disk[s] # None /\ disk[s] = st.running
    IN IF ~backoff /\ restart /\ (~busy \/ tick.gate = "InWindow")
       THEN [reregister |-> TRUE,
             state |-> [st EXCEPT !.restart = FALSE, !.upgrade = FALSE]]
       ELSE [reregister |-> upgrade /\ ~same,
             state |-> [st EXCEPT !.restart = restart,
                                  !.target = IF drifts THEN st.running ELSE @,
                                  !.upgrade = (@ \/ drifts) /\ ~upgrade]]

\* Phase 1, lifecycle_step: the new state of a managed service and whether it
\* is to be registered anew.
LifecycleStep(s, st) ==
    LET backoff == st.phase = "CrashBackoff"
        busy == ~backoff /\ s \in tick.busy
        restart == \/ st.restart
                   \/ st.phase = "Healthy" /\ NeedsRestart(s)
        drifts == /\ ~st.upgrade
                  /\ DriftDecision(st.running, disk[s], st.target) = "Schedule"
        upgrade == (st.upgrade \/ drifts) /\ tick.gate # "Deferred"
        same == disk[s] # None /\ disk[s] = st.running
    IN IF ~backoff /\ restart /\ (~busy \/ tick.gate = "InWindow")
       THEN [reregister |-> TRUE,
             state |-> [st EXCEPT !.restart = FALSE, !.upgrade = FALSE]]
       ELSE [reregister |-> upgrade /\ ~same,
             state |-> [st EXCEPT !.restart = restart,
                                  !.target = IF drifts THEN disk[s] ELSE @,
                                  !.upgrade = (@ \/ drifts) /\ ~upgrade]]

TickDecide ==
    LET begun(s) == IF Expired(s) THEN [svc[s] EXCEPT !.phase = "Starting"] ELSE svc[s]
        step == [s \in Services |->
                   IF s \in Managed THEN LifecycleStep(s, begun(s))
                   ELSE [reregister |-> FALSE, state |-> svc[s]]]
        todo == {s \in Services : step[s].reregister}
    IN /\ tick.at = "decide"
       /\ svc' = [s \in Services |->
                    IF step[s].state.phase = "Starting" /\ s \notin todo /\ AllowsHealthy(s)
                    THEN [step[s].state EXCEPT !.phase = "Healthy"]
                    ELSE step[s].state]
       /\ due' = {s \in due : ~Expired(s)}
       /\ tick' = [tick EXCEPT !.todo = todo,
                               !.at = IF todo = {} THEN "check" ELSE "unregister"]
       /\ UNCHANGED <<link, wire, notes, installs, cut, outside>>

\* reregister_service, first half, whose outcome is only logged.  `cut` keeps
\* that the service is between the two halves.
TickUnregister(s, how) ==
    /\ tick.at = "unregister" /\ s \in tick.todo
    /\ Call(how, Unregister(s))
    /\ cut' = cut \cup {s}
    /\ tick' = [tick EXCEPT !.at = "reregister", !.cur = s]
    /\ UNCHANGED <<svc, link, notes, due, installs, world>>

TickReregister(s, how) ==
    /\ tick.at = "reregister" /\ s = tick.cur
    /\ RegisterService(s, how)
    /\ tick' = [tick EXCEPT !.todo = @ \ {s}, !.cur = None,
                            !.at = IF tick.todo = {s} THEN "refreshed" ELSE "unregister"]
    /\ UNCHANGED <<link, notes, due, installs, world>>

TickRefreshed(how) ==
    /\ tick.at = "refreshed"
    /\ Call(how, List)
    /\ svc' = RefreshRunning(Got(how, List))
    /\ tick' = [tick EXCEPT !.at = "check"]
    /\ UNCHANGED <<link, notes, due, installs, cut, world>>

\* Phases 2 and 3: the health checks and what their results change.  A check
\* passes when the service runs, or when something else answers in its place;
\* it may also fail on a service that runs.
Checkable(s) == \/ svc[s].phase \in {"Healthy", "Unhealthy"}
                \/ svc[s].phase = "Stopped" /\ s \notin Managed

Passes(s) == s \in Managed => Up(s) \/ s \in scenario.orphaned

TickCheck(sick) ==
    /\ tick.at = "check"
    /\ sick \subseteq {s \in Services : Checkable(s) /\ Passes(s)}
    /\ IF sick = {} THEN UNCHANGED left ELSE Spend("sick")
    /\ svc' = [s \in Services |->
                 IF ~Checkable(s) THEN svc[s]
                 ELSE IF Passes(s) /\ s \notin sick /\ AllowsHealthy(s)
                 THEN [svc[s] EXCEPT !.phase = "Healthy"]
                 ELSE [svc[s] EXCEPT !.phase = "Unhealthy"]]
    /\ tick' = Idle
    /\ UNCHANGED <<link, wire, notes, due, installs, cut, world, sup>>

\* The request the tick may be waiting for.
Waiting ==
    CASE tick.at = "register"                          -> {Register(s) : s \in tick.todo}
      [] tick.at = "unregister"                        -> {Unregister(s) : s \in tick.todo}
      [] tick.at = "reregister"                        -> {Register(s) : s \in tick.todo \cap {tick.cur}}
      [] tick.at \in {"refresh", "live", "refreshed"} -> {List}
      [] OTHER                                         -> {}

\* handle_health_tick gives up on the tick after 30 s, before a call or while it
\* waits for an answer: the request stays on the connection.  The pending flags
\* of what was still to be registered anew are already cleared.
TickTimeout ==
    /\ tick.at # "idle" /\ Spend("slow")
    /\ \/ UNCHANGED <<wire, svc>>
       \/ \E r \in Waiting :
            /\ link = "up" /\ unread = <<>>
            /\ asked' = Append(asked, r) /\ UNCHANGED unread
            /\ svc' = IF r.op = "Register" THEN [svc EXCEPT ![r.name].spec = r.conf] ELSE svc
    /\ tick' = Idle
    /\ cut' = IF tick.at \in {"unregister", "reregister"} THEN cut \cup tick.todo
              ELSE cut
    /\ UNCHANGED <<link, notes, due, installs, world, sup>>

(***************************************************************************)
(* Start of the daemon.                                                    *)
(***************************************************************************)

\* init: every service is to be installed; integrated ones may be added later,
\* without an installation.
Started(added) ==
    /\ svc' = [s \in Services |-> IF s \in added THEN AddedService(s) ELSE NewService(s)]
    /\ link' = "none" /\ asked' = <<>> /\ unread' = <<>>
    /\ notes' = {} /\ due' = {} /\ tick' = Idle /\ cut' = {}
    /\ rx' = TRUE /\ queue' = SetToSeq(Services \ added) /\ updates' = <<>>

\* The daemon restarts; the supervisor and its children stay up.
Restart ==
    /\ Spend("boot")
    /\ \E added \in SUBSET scenario.integrated : Started(added)
    /\ UNCHANGED <<world, sup>>

Init ==
    /\ scenario \in Scenarios
    /\ left = scenario.left
    /\ pin = scenario.pin
    /\ conf = [s \in Services |-> 1]
    /\ disk = [s \in Services |->
                 IF s \in Managed /\ ~scenario.fresh THEN 1 ELSE None]
    /\ sup = [s \in Services |->
                IF s \in Managed /\ ~scenario.fresh
                THEN [conf |-> 1, resolved |-> 1, bin |-> 1] ELSE None]
    /\ \E added \in SUBSET scenario.integrated :
         /\ svc = [s \in Services |-> IF s \in added THEN AddedService(s) ELSE NewService(s)]
         /\ queue = SetToSeq(Services \ added)
    /\ link = "none" /\ asked = <<>> /\ unread = <<>>
    /\ notes = {} /\ due = {} /\ tick = Idle /\ cut = {}
    /\ rx = TRUE /\ updates = <<>>

Outcomes == {"own", "earlier", "none"}

Tick ==
    \/ \E s \in Services, how \in Outcomes :
         TickRegister(s, how) \/ TickUnregister(s, how) \/ TickReregister(s, how)
    \/ \E how \in Outcomes : TickRefresh(how) \/ TickLive(how) \/ TickRefreshed(how)
    \/ TickDecide
    \/ \E sick \in SUBSET Services : TickCheck(sick)

Handlers ==
    \/ \E g \in Gates, b \in SUBSET Services, c \in BOOLEAN : TickBegin(g, b, c)
    \/ HandleInstallUpdate \/ FinishInstalls
    \/ \E torn \in BOOLEAN, f \in SUBSET Services : HandleUpdate(torn, f)
    \/ PushSelfUpdate
    \/ \E f \in SUBSET Services : PushSyncNixpkgs(f) \/ ConfigReload(f)
    \/ ConfigPoll

Environment ==
    \/ \E s \in Services : Crash(s) \/ Respawn(s) \/ BinaryChanges(s) \/ EnvFileChanges(s)
    \/ \E died \in BOOLEAN : Disconnect(died)
    \/ \E ok \in BOOLEAN : InstallNext(ok)
    \/ PinMoves \/ BackoffElapses \/ Serve

Next == Tick \/ Handlers \/ Environment \/ TickTimeout \/ Restart

Spec == Init /\ [][Next]_vars

(***************************************************************************)
(* Properties.                                                             *)
(***************************************************************************)

\* Every variable stays in its range; no more updates wait than the channel of
\* spawn_install_task holds.
TypeOK ==
    /\ scenario \in Scenarios
    /\ left \in [Budgets -> Nat]
    /\ svc \in [Services -> ServiceState]
    /\ link \in {"none", "up", "down"}
    /\ asked \in Seq(Request) /\ unread \in Seq(Answer)
    /\ link # "up" => InStep
    /\ notes \subseteq Managed /\ due \subseteq Managed /\ cut \subseteq Managed
    /\ tick \in [at: Stages, gate: Gates, busy: SUBSET Managed, live: SUBSET Managed,
                 todo: SUBSET Managed, cur: Managed \cup {None}]
    /\ rx \in BOOLEAN
    /\ queue \in Seq(Services)
    /\ updates \in Seq([name: Services, ok: BOOLEAN]) /\ Len(updates) <= 4
    /\ sup \in [Services -> Entry \cup {None}]
    /\ disk \in [Services -> Versions \cup {None}]
    /\ pin \in Versions
    /\ conf \in [Services -> 1..Confs]

Removing(s, i) == asked[i].op = "Unregister" /\ asked[i].name = s

\* The supervisor will know the service once it has served what is on the
\* connection.
Kept(s) == Known(s) /\ \A i \in 1..Len(asked) : ~Removing(s, i)
Announced(s) ==
    \E i \in 1..Len(asked) :
        /\ asked[i].op = "Register" /\ asked[i].name = s
        /\ \A j \in i..Len(asked) : ~Removing(s, j)

\* What the manager takes for registered on the connection it holds is known to
\* the supervisor, or its registration is on the way (a call that reads an
\* earlier call's Ok returns before its own request is served) and nothing sent
\* after it takes it back; whatever connections, supervisors and daemons died
\* before and whatever calls and ticks were given up.  Except a service whose
\* reregister_service stopped half-way.
RegisteredIsKnown ==
    \A s \in Managed :
        svc[s].registered /\ link = "up" /\ s \notin cut => Kept(s) \/ Announced(s)

\* A manager without a connection takes nothing for registered; what has no
\* process is not known to the supervisor and does not back off from a crash.
IInv ==
    /\ TypeOK
    /\ RegisteredIsKnown
    /\ link = "none" => \A s \in Managed : ~svc[s].registered
    /\ \A s \in Services \ Managed : ~Known(s) /\ svc[s].phase # "CrashBackoff"
    /\ \A i \in 1..Len(asked) : asked[i].op # "List" => asked[i].name \in Managed
    /\ \A i \in 1..Len(unread), s \in Services \ Managed : unread[i].statuses[s] = None

\* A managed service that is where it should be: installed and running what the
\* server pins, with its current configuration, reported healthy and left alone.
Settled(s) ==
    /\ svc[s].phase = "Healthy"
    /\ s \in Managed =>
         /\ svc[s].registered /\ ~svc[s].restart /\ ~svc[s].upgrade
         /\ Up(s) /\ sup[s].bin = disk[s] /\ disk[s] = pin /\ sup[s].conf = conf[s]

\* The loop guard of drift_decision holds back a service whose binary did
\* change, and which is not wrapped.
Suppressed(s) ==
    /\ ~svc[s].upgrade /\ s \notin scenario.wrapped
    /\ DriftDecision(svc[s].running, disk[s], svc[s].target) = "SuppressedLoop"

\* A service that is not installed and that nothing will install again: a torn
\* down connection or a crash took its Installing or InstallFailed phase.
Stranded(s) ==
    /\ disk[s] = None /\ svc[s].phase \notin {"Installing", "InstallFailed"}
    /\ s \notin Range(queue) /\ \A u \in Range(updates) : u.name # s

\* The connection still owes an answer to a call that was given up: for as long
\* as it lasts, every call reads the answer of the one before.
Lagging == ~InStep

\* Once the disturbances end, every service settles: through failing calls,
\* crashes, lost connections, restarts of the daemon between an upgrade's
\* installation and its application, and windows that defer it.  What does not
\* is a version that crashes for ever, what a connection that lags is used for
\* (a registration may read a list there, in every tick anew), and what
\* Suppressed, Stranded and `cut` name; one that lagged and was lost does no harm.
Settles ==
    <>[](\/ pin \in scenario.bad \/ Lagging
         \/ \A s \in Services :
              Settled(s) \/ (s \in Managed /\ (Suppressed(s) \/ Stranded(s) \/ s \in cut)))

\* A service that stays down is not reported healthy for ever, although another
\* process may answer on its port (supervisor_allows_healthy).
DownNotHealthy ==
    \A s \in Services : []<>(s \in Managed /\ svc[s].phase = "Healthy" => Up(s))

(***************************************************************************)
(* What comments of the code say and the code does not do.                 *)
(***************************************************************************)

\* UpgradeGate::Anytime: "upgrades apply anytime, but busy services are never
\* force-restarted".
BusyNotForced ==
    [][\A s \in Managed :
         tick.at = "decide" /\ tick.gate # "InWindow" /\ s \in tick.busy
         /\ svc[s].phase # "CrashBackoff" => s \notin tick'.todo]_vars

\* health_tick and connect_all: "Skip services still installing -- the binary
\* may not exist yet".
StartedInstalled == \A s \in Managed : Known(s) => disk[s] # None

\* DriftDecision::SuppressedLoop: the guard is for a target "we already
\* reregistered toward" whose resolvers disagree permanently.
GuardSparesUpgrades == <>[](\A s \in Managed : ~Suppressed(s))

\* apply to health_tick as a whole: every service settles, without exception.
AllSettle == <>[](pin \in scenario.bad \/ \A s \in Services : Settled(s))

\* RPC_TIMEOUT: "Prevents a single slow supervisor response from blocking the
\* entire health tick".  The tick goes on, but every later one on the connection
\* is behind by an answer.
SlowAnswerPasses == []<>InStep

(***************************************************************************)
(* Fairness.  The select! of the daemon polls its branches in random order *)
(* and its tickers (health, update, config poll) never stop, so no handler *)
(* waits for ever; upgrade windows recur and services are idle at times,   *)
(* so some ticks find both.  The supervisor serves what it is asked.       *)
(***************************************************************************)
Fairness ==
    /\ WF_vars(Tick)
    /\ SF_vars(\E g \in Gates \ {"Deferred"} : TickBegin(g, {}, TRUE))
    /\ SF_vars(HandleInstallUpdate \/ FinishInstalls)
    /\ SF_vars(ConfigPoll)
    /\ SF_vars(\E torn \in BOOLEAN : HandleUpdate(torn, {}))
    /\ WF_vars(InstallNext(TRUE))
    /\ WF_vars(BackoffElapses)
    /\ WF_vars(Serve)
    /\ \A s \in Services : WF_vars(Respawn(s) /\ sup' # sup)

LiveSpec == Spec /\ Fairness
=============================================================================
