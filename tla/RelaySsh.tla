------------------------------ MODULE RelaySsh ------------------------------
(***************************************************************************)
(* The relay's view of its daemons: the registry and its port reservations *)
(* (relay/src/daemon_registry.rs), the TCP listeners of the SSH bridge     *)
(* (relay/src/ssh_bridge.rs) and the handler of each daemon's RPC stream   *)
(* (relay/src/p2p.rs).                                                     *)
(*                                                                         *)
(* A daemon has one stream at a time, but the relay may learn of its end   *)
(* after the next one was opened: handlers of several streams of a daemon  *)
(* run at once.  A handler step is the stretch of code under one lock, or  *)
(* up to the await of the token validation.  A DaemonConn is identified by *)
(* the stream that registered it, which is what connected_at does.         *)
(***************************************************************************)
EXTENDS Naturals, FiniteSets, FiniteSetsExt

CONSTANTS
    Daemons,      \* instance ids (and their libp2p peers)
    Streams,      \* RPC streams the relay can have open at once
    Ports,        \* ssh_port_min .. ssh_port_max
    MaxDaemons,   \* max_daemons
    None

ASSUME RelayAssumption ==
    /\ Ports \subseteq Nat /\ IsFiniteSet(Ports)
    /\ MaxDaemons \in Nat
    /\ None \notin Nat \cup Daemons \cup Streams

VARIABLES
    conn,      \* the handler of each stream
    daemons,   \* DaemonRegistry.daemons
    listener,  \* SshBridge.listeners: the port of each entry
    task,      \* the listener task of each entry
    lingering, \* ports whose aborted task has not let go of its socket yet
    bridge,    \* set_ssh_bridge has been called
    resv,      \* DaemonRegistry.reservations
    used,      \* DaemonRegistry.used_ports
    disk,      \* port_reservations.json
    rpc,       \* daemon_rpc_map
    allowed,   \* ssh_allowed, on the daemon
    saved,     \* history: the last save_reservations wrote the whole file
    outlived   \* history: ports on which a listener outlived its reservation

files == <<disk, saved>>
tasks == <<task, lingering>>
vars == <<conn, daemons, listener, tasks, bridge, resv, used, files, rpc, allowed,
          outlived>>

\* `live`: the daemon still has its end open; `reg`: instance_id is set;
\* `ssh`: ssh_enabled of the register frame being handled; `bridge`: the
\* stream was accepted after set_ssh_bridge, whose result is read once.
Handler == [pc: {"free", "serving", "validating", "enable", "advert",
                 "advEnable", "advDisable", "unbridge", "cleanup"},
            d: Daemons \cup {None}, live: BOOLEAN, reg: BOOLEAN, ssh: BOOLEAN,
            bridge: BOOLEAN]
NoHandler == [pc |-> "free", d |-> None, live |-> FALSE, reg |-> FALSE, ssh |-> FALSE,
              bridge |-> FALSE]

DaemonConn == [stream: Streams, ssh: BOOLEAN, port: Ports \cup {None}]

\* `old`: reserved_at is before the cutoff; `first`: no other reservation of
\* this port is newer.
Reservation == [port: Ports, old: BOOLEAN, first: BOOLEAN]
Fresh(p) == [port |-> p, old |-> FALSE, first |-> TRUE]

ASSUME NoneIsNoRecord == None \notin DaemonConn \cup Reservation

TypeOK ==
    /\ conn \in [Streams -> Handler]
    /\ daemons \in [Daemons -> DaemonConn \cup {None}]
    /\ listener \in [Daemons -> Ports \cup {None}]
    /\ task \in [Daemons -> {"none", "starting", "bound", "dead"}]
    /\ lingering \subseteq Ports
    /\ bridge \in BOOLEAN
    /\ resv \in [Daemons -> Reservation \cup {None}]
    /\ used \subseteq Ports
    /\ disk \in [Daemons -> Reservation \cup {None}]
    /\ rpc \in [Daemons -> Streams \cup {None}]
    /\ allowed \in [Daemons -> BOOLEAN]
    /\ saved \in BOOLEAN
    /\ outlived \subseteq Ports

-----------------------------------------------------------------------------
(* Ports and reservations. *)

PortsOf(R, D) == {R[d].port : d \in {e \in D : R[e] # None}}

Valid(R, d) == R[d] # None /\ ~R[d].old

\* The entry a claim by d removes, and those the retry on a full range does.
Lapsed(d) == {d} \ {e \in Daemons : Valid(resv, e)}
Expired(d) ==
    IF Valid(resv, d) \/ Ports \ (used \ PortsOf(resv, Lapsed(d))) # {}
    THEN {}
    ELSE {e \in Daemons : resv[e] # None /\ resv[e].old}

\* Mutant: a lapsed reservation is removed without freeing its port.
AllocatePortLeaks(d) ==
    LET gone == Lapsed(d) \cup Expired(d)
        left == used \ PortsOf(resv, Expired(d))
    IN [port |-> CASE Valid(resv, d) -> resv[d].port
                   [] ~Valid(resv, d) /\ Ports \ left # {} -> Min(Ports \ left)
                   [] OTHER -> None,
        resv |-> [e \in Daemons |-> IF e \in gone THEN None ELSE resv[e]],
        used |-> left]

\* allocate_port: the reserved port, else the lowest free one, else the lowest
\* one that is free once every expired reservation is dropped.
AllocatePort(d) ==
    LET gone == Lapsed(d) \cup Expired(d)
        left == used \ PortsOf(resv, gone)
    IN [port |-> CASE Valid(resv, d) -> resv[d].port
                   [] ~Valid(resv, d) /\ Ports \ left # {} -> Min(Ports \ left)
                   [] OTHER -> None,
        resv |-> [e \in Daemons |-> IF e \in gone THEN None ELSE resv[e]],
        used |-> left]

NoReservations == [d \in Daemons |-> None]

\* Mutant: the file is never written.
SaveNever(R) == disk' = disk /\ saved' = TRUE

\* save_reservations, best-effort: std::fs::write may write the whole file,
\* fail to open it, or empty it and fail or die before the end, which leaves a
\* file that is read back as ReservationsFile::default().
Save(R) ==
    \/ disk' = R /\ saved' = TRUE
    \/ disk' \in {disk, NoReservations} /\ saved' = FALSE

\* reservations.insert(d, now): d's is the newest reservation of p.
Reserve(R, d, p) ==
    [e \in Daemons |->
        CASE e = d -> Fresh(p)
          [] e # d /\ R[e] # None /\ R[e].port = p -> [R[e] EXCEPT !.first = FALSE]
          [] OTHER -> R[e]]

\* reserve_port, on top of tables R and U.
ReservePort(d, p, R, U) ==
    /\ used' = U \cup {p}
    /\ resv' = Reserve(R, d, p)
    /\ Save(Reserve(R, d, p))

\* set_ssh_port and clear_ssh_port: a daemon that is gone is left alone.
SetPort(d, p) ==
    daemons' = IF daemons[d] = None THEN daemons
               ELSE [daemons EXCEPT ![d].port = p]

-----------------------------------------------------------------------------
(* The SSH bridge: both operations run under the lock of `listeners`. *)

\* spawn_listener and the insert of its entry.
SpawnListener(d, p) ==
    /\ listener' = [listener EXCEPT ![d] = p]
    /\ task' = [task EXCEPT ![d] = "starting"]
    /\ UNCHANGED lingering

\* Mutant: a running listener is not copied into the new DaemonConn.
OnSshEnabledNoSync(d) ==
    LET a == AllocatePort(d) IN
    IF listener[d] # None \/ a.port = None
    THEN UNCHANGED <<daemons, listener, tasks, resv, used, files>>
    ELSE /\ SetPort(d, a.port)
         /\ ReservePort(d, a.port, a.resv, a.used)
         /\ SpawnListener(d, a.port)

\* An entry is taken for a running listener, whatever became of its task.
OnSshEnabled(d) ==
    LET a == AllocatePort(d) IN
    IF listener[d] # None
    THEN /\ SetPort(d, listener[d])
         /\ UNCHANGED <<listener, tasks, resv, used, files>>
    ELSE IF a.port = None
    THEN /\ resv' = a.resv
         /\ used' = a.used
         /\ IF Expired(d) = {} THEN UNCHANGED files ELSE Save(a.resv)
         /\ UNCHANGED <<daemons, listener, tasks>>
    ELSE /\ SetPort(d, a.port)
         /\ ReservePort(d, a.port, a.resv, a.used)
         /\ SpawnListener(d, a.port)

\* handle.abort() only asks the task to end: until it does, it keeps the port.
AbortListener(d) ==
    /\ listener' = [listener EXCEPT ![d] = None]
    /\ task' = [task EXCEPT ![d] = "none"]
    /\ lingering' = IF task[d] = "dead" THEN lingering ELSE lingering \cup {listener[d]}

\* Mutant: the port stays in the registry.
RemoveListenerKeepsPort(d) ==
    /\ UNCHANGED daemons
    /\ IF listener[d] = None
       THEN UNCHANGED <<listener, tasks, resv, used, files>>
       ELSE /\ AbortListener(d)
            /\ ReservePort(d, listener[d], resv, used)

RemoveListener(d) ==
    IF listener[d] = None
    THEN UNCHANGED <<daemons, listener, tasks, resv, used, files>>
    ELSE /\ AbortListener(d)
         /\ ReservePort(d, listener[d], resv, used)
         /\ SetPort(d, None)

\* The task binds its port, or gives up for good: the port is held by another
\* task, or by something outside the relay.  Its entry stays.
Bind(d, ok) ==
    /\ task[d] = "starting"
    /\ ok => /\ listener[d] \notin lingering
             /\ \A e \in Daemons : task[e] = "bound" => listener[e] # listener[d]
    /\ task' = [task EXCEPT ![d] = IF ok THEN "bound" ELSE "dead"]
    /\ UNCHANGED <<conn, daemons, listener, lingering, bridge, resv, used, files, rpc,
                   allowed, outlived>>

\* An aborted task is dropped, and its socket with it.
Released(p) ==
    /\ p \in lingering
    /\ lingering' = lingering \ {p}
    /\ UNCHANGED <<conn, daemons, listener, task, bridge, resv, used, files, rpc,
                   allowed, outlived>>

-----------------------------------------------------------------------------
(* The daemon's end of its stream (mac-mgmt-agent/src/p2p). *)

\* The daemon opens a stream; the relay's accept loop publishes its channel
\* and takes the bridge if there is one by now.
Open(s, d) ==
    /\ conn[s].pc = "free"
    /\ \A q \in Streams : conn[q].d = d => ~conn[q].live
    /\ conn' = [conn EXCEPT ![s] = [NoHandler EXCEPT !.pc = "serving", !.d = d,
                                                     !.live = TRUE,
                                                     !.bridge = bridge]]
    /\ rpc' = [rpc EXCEPT ![d] = s]
    /\ UNCHANGED <<daemons, listener, tasks, bridge, resv, used, files, allowed, outlived>>

\* The daemon drops its stream: an error, a timeout, a restart.
Drop(s) ==
    /\ conn[s].live
    /\ conn' = [conn EXCEPT ![s].live = FALSE]
    /\ UNCHANGED <<daemons, listener, tasks, bridge, resv, used, files, rpc, allowed, outlived>>

\* Remote SSH is switched on or off on the machine.
Toggle(d) ==
    /\ allowed' = [allowed EXCEPT ![d] = ~@]
    /\ UNCHANGED <<conn, daemons, listener, tasks, bridge, resv, used, files, rpc, outlived>>

-----------------------------------------------------------------------------
(* handle_daemon_rpc. *)

\* A register frame, first or periodic; the token is validated over HTTP.
Register(s) ==
    /\ conn[s].pc = "serving"
    /\ conn[s].live
    /\ conn' = [conn EXCEPT ![s].pc = "validating", ![s].ssh = allowed[conn[s].d]]
    /\ UNCHANGED <<daemons, listener, tasks, bridge, resv, used, files, rpc, allowed, outlived>>

\* The token is refused or the server does not answer; the daemon tries again.
RegisterRejected(s) ==
    /\ conn[s].pc = "validating"
    /\ conn' = [conn EXCEPT ![s].pc = "serving"]
    /\ UNCHANGED <<daemons, listener, tasks, bridge, resv, used, files, rpc, allowed, outlived>>

HasRoom(d) ==
    daemons[d] # None \/ Cardinality({e \in Daemons : daemons[e] # None}) < MaxDaemons

\* Mutant: a registration that is replaced gives its port back.
RegisterCommitFrees(s) ==
    LET d == conn[s].d IN
    /\ conn[s].pc = "validating"
    /\ HasRoom(d)
    /\ used' = IF daemons[d] = None THEN used ELSE used \ {daemons[d].port}
    /\ daemons' = [daemons EXCEPT ![d] =
                     [stream |-> s, ssh |-> conn[s].ssh, port |-> None]]
    /\ conn' = [conn EXCEPT ![s].reg = TRUE,
                            ![s].pc = IF conn[s].ssh THEN "enable" ELSE "advert"]
    /\ UNCHANGED <<listener, tasks, bridge, resv, files, rpc, allowed, outlived>>

\* registry.register replaces whatever is there, with ssh_port: None.
RegisterCommit(s) ==
    LET d == conn[s].d IN
    /\ conn[s].pc = "validating"
    /\ HasRoom(d)
    /\ daemons' = [daemons EXCEPT ![d] =
                     [stream |-> s, ssh |-> conn[s].ssh, port |-> None]]
    /\ conn' = [conn EXCEPT ![s].reg = TRUE,
                            ![s].pc = IF conn[s].ssh THEN "enable" ELSE "advert"]
    /\ UNCHANGED <<listener, tasks, bridge, resv, used, files, rpc, allowed, outlived>>

NoBridge(s) ==
    ~conn[s].bridge /\ UNCHANGED <<daemons, listener, tasks, resv, used, files>>

\* on_ssh_enabled, after a register or an advertisement.
Enable(s) ==
    /\ conn[s].pc \in {"enable", "advEnable"}
    /\ NoBridge(s) \/ (conn[s].bridge /\ OnSshEnabled(conn[s].d))
    /\ conn' = [conn EXCEPT ![s].pc = IF @ = "enable" THEN "advert" ELSE "serving"]
    /\ UNCHANGED <<bridge, rpc, allowed, outlived>>

\* The advertisement that follows an accepted register: update_ssh_enabled,
\* then the bridge when something changed or the port is missing.
Advertise(s) ==
    LET d == conn[s].d
        now == allowed[d]
        prev == daemons[d] # None /\ daemons[d].ssh
        hasPort == daemons[d] # None /\ daemons[d].port # None
    IN
    /\ conn[s].pc = "advert"
    /\ conn' = [conn EXCEPT ![s].pc =
                  CASE now /\ (~prev \/ ~hasPort) -> "advEnable"
                    [] ~now /\ prev -> "advDisable"
                    [] OTHER -> "serving"]
    /\ daemons' = IF daemons[d] = None THEN daemons
                  ELSE [daemons EXCEPT ![d].ssh = now]
    /\ UNCHANGED <<listener, tasks, bridge, resv, used, files, rpc, allowed, outlived>>

\* on_ssh_disabled.
Disable(s) ==
    /\ conn[s].pc = "advDisable"
    /\ NoBridge(s) \/ (conn[s].bridge /\ RemoveListener(conn[s].d))
    /\ conn' = [conn EXCEPT ![s].pc = "serving"]
    /\ UNCHANGED <<bridge, rpc, allowed, outlived>>

\* The read fails: unregister, unless a newer connection owns the entry.
Close(s) ==
    LET d == conn[s].d
        mine == conn[s].reg /\ daemons[d] # None /\ daemons[d].stream = s
        port == IF mine THEN daemons[d].port ELSE None
    IN
    /\ conn[s].pc \in {"serving", "advert"}
    /\ ~conn[s].live
    /\ daemons' = IF mine THEN [daemons EXCEPT ![d] = None] ELSE daemons
    /\ IF port = None THEN UNCHANGED <<resv, used, files>>
       ELSE ReservePort(d, port, resv, used)
    /\ conn' = [conn EXCEPT ![s].pc = IF port = None THEN "cleanup" ELSE "unbridge"]
    /\ UNCHANGED <<listener, tasks, bridge, rpc, allowed, outlived>>

\* on_daemon_disconnect.
Unbridge(s) ==
    /\ conn[s].pc = "unbridge"
    /\ NoBridge(s) \/ (conn[s].bridge /\ RemoveListener(conn[s].d))
    /\ conn' = [conn EXCEPT ![s].pc = "cleanup"]
    /\ UNCHANGED <<bridge, rpc, allowed, outlived>>

\* rpc_map_cleanup.remove(&peer_id), whichever stream's channel is there.
Cleanup(s) ==
    /\ conn[s].pc = "cleanup"
    /\ rpc' = [rpc EXCEPT ![conn[s].d] = None]
    /\ conn' = [conn EXCEPT ![s] = NoHandler]
    /\ UNCHANGED <<daemons, listener, tasks, bridge, resv, used, files, allowed, outlived>>

-----------------------------------------------------------------------------
(* Time and restarts. *)

\* Entries that are past the time to live when d's is: those of its port that
\* are older.
NotNewer(R, d) ==
    {e \in Daemons :
        R[e] # None /\ (e = d \/ (R[d] # None /\ R[d].first /\ R[e].port = R[d].port))}

Aged(R, d) ==
    [e \in Daemons |-> IF e \in NotNewer(R, d) THEN [R[e] EXCEPT !.old = TRUE] ELSE R[e]]

\* RESERVATION_TTL_DAYS pass since the last refresh, which a running listener
\* does not make; an entry on disk that a failed save left behind is older than
\* the one in memory.
Age(d, both) ==
    /\ both \/ ~saved
    /\ resv' = IF both THEN Aged(resv, d) ELSE resv
    /\ disk' = Aged(disk, d)
    /\ outlived' = IF both
                   THEN outlived \cup ({listener[e] : e \in NotNewer(resv, d)} \ {None})
                   ELSE outlived
    /\ UNCHANGED <<conn, daemons, listener, tasks, bridge, used, rpc, allowed, saved>>

\* What DaemonRegistry::new keeps of the file: nothing expired, and of the
\* instances that claim one port the newest.
Loaded == [d \in Daemons |-> IF Valid(disk, d) /\ disk[d].first THEN disk[d] ELSE None]

\* The relay is restarted.
Restart ==
    /\ resv' = Loaded
    /\ used' = PortsOf(Loaded, Daemons)
    /\ conn' = [s \in Streams |-> NoHandler]
    /\ daemons' = [d \in Daemons |-> None]
    /\ listener' = [d \in Daemons |-> None]
    /\ task' = [d \in Daemons |-> "none"]
    /\ lingering' = {}
    /\ bridge' = FALSE
    /\ rpc' = [d \in Daemons |-> None]
    /\ saved' = TRUE
    /\ outlived' = {}
    /\ UNCHANGED <<disk, allowed>>

\* main creates the bridge once the swarm accepts streams.
SetBridge ==
    /\ ~bridge
    /\ bridge' = TRUE
    /\ UNCHANGED <<conn, daemons, listener, tasks, resv, used, files, rpc, allowed, outlived>>

-----------------------------------------------------------------------------
\* Of the reservations of one port, one is the newest.
FirstsUnique(R) ==
    \A d, e \in Daemons :
        d # e /\ R[d] # None /\ R[e] # None /\ R[d].port = R[e].port
            => ~(R[d].first /\ R[e].first)

\* "Files written by older relays could contain duplicates".
AnyFile ==
    {R \in [Daemons -> Reservation \cup {None}] :
        /\ FirstsUnique(R)
        /\ \A p \in PortsOf(R, Daemons) :
             \E d \in Daemons : R[d] # None /\ R[d].port = p /\ R[d].first
        /\ \A d \in Daemons : R[d] # None /\ R[d].old => Aged(R, d) = R}

\* The first start.
Init ==
    /\ disk \in AnyFile
    /\ resv = Loaded
    /\ used = PortsOf(Loaded, Daemons)
    /\ conn = [s \in Streams |-> NoHandler]
    /\ daemons = [d \in Daemons |-> None]
    /\ listener = [d \in Daemons |-> None]
    /\ task = [d \in Daemons |-> "none"]
    /\ lingering = {}
    /\ bridge = FALSE
    /\ rpc = [d \in Daemons |-> None]
    /\ allowed \in [Daemons -> BOOLEAN]
    /\ saved = TRUE
    /\ outlived = {}

HandlerStep(s) ==
    \/ RegisterCommit(s) \/ Enable(s) \/ Advertise(s) \/ Disable(s)
    \/ Close(s) \/ Unbridge(s) \/ Cleanup(s)

Next ==
    \/ \E s \in Streams :
         \/ \E d \in Daemons : Open(s, d)
         \/ Drop(s) \/ Register(s) \/ RegisterRejected(s) \/ HandlerStep(s)
    \/ \E d \in Daemons : Toggle(d) \/ \E b \in BOOLEAN : Age(d, b) \/ Bind(d, b)
    \/ \E p \in Ports : Released(p)
    \/ SetBridge \/ Restart

Spec == Init /\ [][Next]_vars

\* Handlers and listener tasks run, daemons register again every
\* REREGISTER_INTERVAL, and the server does not refuse a valid token for ever.
Fairness ==
    /\ \A s \in Streams :
         WF_vars(HandlerStep(s)) /\ WF_vars(Register(s)) /\ SF_vars(RegisterCommit(s))
    /\ \A d \in Daemons : WF_vars(\E ok \in BOOLEAN : Bind(d, ok))

LiveSpec == Spec /\ Fairness

-----------------------------------------------------------------------------
(* Properties. *)

\* A port leads to one machine: no two daemons are served on one port, and no
\* port that is served is reserved for another daemon, through reconnects,
\* expiry, a full range, torn files and restarts from a stale or duplicated
\* file.  The one exception is a port whose listener has outlived its
\* reservation in this run of the relay: on_ssh_enabled does not refresh it,
\* a full range gives it away, and remove_listener reserves it again.
PortsDisjoint ==
    \A d, e \in Daemons :
        d # e =>
            /\ listener[d] # None /\ listener[d] \notin outlived =>
                 /\ listener[d] # listener[e]
                 /\ resv[e] # None => listener[d] # resv[e].port
            /\ resv[d] # None /\ resv[d].port \notin outlived /\ resv[e] # None =>
                 resv[d].port # resv[e].port

\* No port is lost to the allocator: a port that is marked used is held by some
\* reservation, so that expiry can free it.  And none is handed out twice: a
\* reserved port is marked used, unless a listener outlived its reservation.
UsedAreReserved ==
    /\ used \subseteq PortsOf(resv, Daemons)
    /\ PortsOf(resv, Daemons) \subseteq used \cup outlived

\* The port in the registry, which the API and the daemon are told, is the
\* port of the bridge's entry for that daemon, whichever handlers of old and
\* new streams interleave.
AdvertisedIsServed ==
    \A d \in Daemons :
        daemons[d] # None /\ daemons[d].port # None => listener[d] = daemons[d].port

\* What makes these inductive: the reservations alone are disjoint, every entry
\* stands on a reservation that has not expired and each is the newest of its
\* port, all up to the ports that were outlived, and a handler in use belongs to
\* a daemon.
ReservationsDisjoint ==
    \A d, e \in Daemons :
        /\ d # e /\ resv[d] # None /\ resv[e] # None
        /\ resv[d].port \notin outlived
        => resv[d].port # resv[e].port

ServedIsReserved ==
    \A d \in Daemons :
        listener[d] # None =>
            /\ resv[d] # None => resv[d].port = listener[d]
            /\ listener[d] \in outlived \/ Valid(resv, d)

NewestHeld ==
    \A d \in Daemons : resv[d] # None /\ resv[d].port \notin outlived => resv[d].first

HandlersOwned == \A s \in Streams : conn[s].pc # "free" => conn[s].d \in Daemons

\* What carries a port over a restart: after a completed save the file holds,
\* and a load keeps, every reservation that has not expired.
FileKeeps ==
    saved => \A d \in Daemons :
                Valid(resv, d) /\ resv[d].port \notin outlived => Loaded[d] = resv[d]

IInv ==
    /\ TypeOK /\ UsedAreReserved /\ ReservationsDisjoint /\ ServedIsReserved
    /\ AdvertisedIsServed /\ HandlersOwned /\ FileKeeps
    /\ NewestHeld /\ FirstsUnique(resv) /\ FirstsUnique(disk)

\* "Port reservations persist across daemon reconnects (30-day TTL)": no step
\* moves a daemon whose reservation has not expired to another port, a restart
\* of the relay included.  Two things lose it at a restart: the last save
\* failed or was cut short, or the port was outlived.
PortStable ==
    [][\A d \in Daemons :
          Valid(resv, d) =>
              \/ resv'[d] # None /\ resv'[d].port = resv[d].port
              \/ Restart /\ (~saved \/ resv[d].port \in outlived)]_vars

LiveStream(d) ==
    \E s \in Streams : conn[s].d = d /\ conn[s].live /\ conn[s].bridge

Served(d) ==
    /\ daemons[d] # None /\ daemons[d].port # None
    /\ listener[d] = daemons[d].port /\ task[d] = "bound"

\* A connected daemon that allows SSH gets its port back, whatever the cleanup
\* of its earlier streams removed and however the end of the old listener and
\* the start of the new one overlap: the periodic register repairs it.  It ends
\* served, with a socket behind its port, unless the bind failed: that entry is
\* not repaired before the daemon disconnects or switches SSH off.
SshRecovers ==
    \A d \in Daemons :
        (allowed[d] /\ LiveStream(d)) ~>
            (Served(d) \/ task[d] = "dead" \/ ~allowed[d] \/ ~LiveStream(d))

\* "Two instances must never reserve the same port" (DaemonRegistry::new).
NeverReservedTwice ==
    \A d, e \in Daemons :
        d # e /\ resv[d] # None /\ resv[e] # None => resv[d].port # resv[e].port

\* "RPC channels to connected daemons, keyed by PeerId" (RelaySwarm): a live
\* stream's channel is the one the map holds.
RpcReachesDaemon ==
    \A s \in Streams : conn[s].live => rpc[conn[s].d] = s

\* "prevents a stale cleanup from deleting a newer registration that replaced
\* it during a rapid reconnect" (unregister).
StaleCleanupSpares ==
    [][\A s \in Streams :
          /\ conn[s].live /\ conn[s].reg
          /\ conn'[s] = conn[s]
          /\ daemons[conn[s].d] # None
          => daemons'[conn[s].d] # None]_vars

\* "Called when a daemon advertises `ssh_enabled: false` (was previously
\* true)" (on_ssh_disabled): a daemon that has registered and advertised with
\* SSH switched off is not served.
DisabledIsNotServed ==
    \A s \in Streams :
        LET d == conn[s].d IN
        /\ conn[s].live /\ conn[s].reg /\ conn[s].pc = "serving"
        /\ ~conn[s].ssh /\ daemons[d] # None
        /\ daemons[d].stream = s /\ ~daemons[d].ssh
        => listener[d] = None
=============================================================================
