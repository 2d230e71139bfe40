--------------------------- MODULE MCSupervisor ---------------------------
(* Instances of Supervisor for TLC. *)
EXTENDS Supervisor, TLC

\* Nothing in the specification tells two names, specs, pids or tasks apart.
Symmetry ==
    Permutations(Names) \cup Permutations(Specs)
        \cup Permutations(Pids) \cup Permutations(TaskIds)
=============================================================================
