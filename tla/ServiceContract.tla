--------------------------- MODULE ServiceContract ---------------------------
(***************************************************************************)
(* What the service supervisor promises to the daemon, without its tasks,  *)
(* stop channels and state file: a registry of services, and for each name *)
(* the processes it runs.  A process starts only for a registered service  *)
(* that is not stopped, from the spec the registry holds, and only when no *)
(* other process of that service is left; a registration changes, stops or *)
(* goes away only when the process is gone.                                *)
(***************************************************************************)
CONSTANTS Names, Specs, Pids, None

VARIABLES
    reg,   \* the registry
    run    \* the processes of each service, a zombie included

cvars == <<reg, run>>

Registration == [spec: Specs, stopped: BOOLEAN]
Process == [pid: Pids, spec: Specs]

Running(s) == [spec |-> s, stopped |-> FALSE]

Init ==
    /\ reg = [n \in Names |-> None]
    /\ run = [n \in Names |-> {}]

\* Register, Start, Restart: a new incarnation of the service.
Register(n, s) ==
    /\ run[n] = {}
    /\ reg' = [reg EXCEPT ![n] = Running(s)]
    /\ UNCHANGED run

\* The answer to Stop.
Stop(n) ==
    /\ run[n] = {}
    /\ reg[n] # None
    /\ reg' = [reg EXCEPT ![n].stopped = TRUE]
    /\ UNCHANGED run

\* The answer to Unregister; a shutdown drops all stopped services at once.
Unregister(S) ==
    /\ \A n \in S : run[n] = {}
    /\ reg' = [n \in Names |-> IF n \in S THEN None ELSE reg[n]]
    /\ UNCHANGED run

\* The first spawn and every respawn.
ProcessStarts(n) ==
    /\ run[n] = {}
    /\ reg[n] # None
    /\ ~reg[n].stopped
    /\ \E p \in Pids : run' = [run EXCEPT ![n] = {[pid |-> p, spec |-> reg[n].spec]}]
    /\ UNCHANGED reg

ProcessEnds(n) ==
    /\ run' = [run EXCEPT ![n] = {}]
    /\ UNCHANGED reg

\* The supervisor's image is replaced or killed: registrations are gone,
\* processes may be lost but none appears.
Reset ==
    /\ reg' = [n \in Names |-> None]
    /\ \A n \in Names : run'[n] \subseteq run[n]
    /\ DOMAIN run' = Names

\* The new image takes over the process of a service.
Adopt(n) ==
    /\ reg[n] = None
    /\ \E proc \in run[n] : reg' = [reg EXCEPT ![n] = Running(proc.spec)]
    /\ UNCHANGED run

Next ==
    \/ \E n \in Names, s \in Specs : Register(n, s)
    \/ \E n \in Names : Stop(n) \/ ProcessStarts(n) \/ ProcessEnds(n) \/ Adopt(n)
    \/ \E S \in SUBSET Names : Unregister(S)
    \/ Reset

Spec == Init /\ [][Next]_cvars
=============================================================================
