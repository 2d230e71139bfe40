----------------------------- MODULE MCRelaySsh -----------------------------
(* Instances of RelaySsh for TLC. *)
EXTENDS RelaySsh, TLC

\* Streams and daemons are interchangeable.
Symmetry == Permutations(Streams) \cup Permutations(Daemons)

\* What the tables depend on.  Listener tasks and the RPC map are read by Bind
\* and Released alone, of the file a load keeps only its valid entries, and the
\* ssh_enabled of a frame is used up once the register is committed: states
\* that differ in these alone have the same future as far as the tables go.
Frame(h) ==
    IF h.pc = "cleanup" THEN [NoHandler EXCEPT !.pc = h.pc]
    ELSE [h EXCEPT !.ssh = @ /\ h.pc = "validating", !.reg = @ /\ h.pc # "unbridge"]
TablesView ==
    <<[s \in Streams |-> Frame(conn[s])], daemons, listener, bridge, resv, used, Loaded,
      saved, allowed, outlived>>

\* The same with the listener tasks, and without the history of the ports.
TasksView ==
    <<[s \in Streams |-> Frame(conn[s])], daemons, listener, tasks, bridge, resv, used,
      Loaded, saved, allowed>>
=============================================================================
