---------------------------- MODULE MCFleetRunner ----------------------------
(* Instances of FleetRunner for TLC. *)
EXTENDS FleetRunner

CONSTANTS k1, k2, k3

\* A one-node and a two-node cell, and a configuration without the second.
MixedNodes == [k \in Cells |-> IF k = k2 THEN 2 ELSE 1]
TwoMatrices == {{k1, k2}, {k1}, {k1, k3}}

Scenario(m, kinds, n, ticks) ==
    [matrix |-> m, kinds |-> kinds, left |-> n, ticks |-> ticks]

Faults == {"fail", "crash", "timeout", "web"}
Requests == {"resume", "teardown", "redeploy", "reprovision", "gc"}

Chaos == {"chaos_power", "chaos_reprovision"}

\* Two faults or requests of any kind against both cells; the chaos loop
\* against one cell while it is torn down or reprovisioned; a chaos reprovision
\* of one cell while the other waits for a place in the launch queue.
Both == {Scenario({k1, k2}, Faults \cup Requests, 2, 0),
         Scenario({k1}, {"teardown", "reprovision"} \cup Chaos, 1, 1),
         Scenario({k1, k3}, {"chaos_reprovision"}, 0, 1)}

\* The chaos loop and a teardown; redeploys; a timeout and a crash.
Race == {Scenario({k1}, {"teardown"} \cup Chaos, 1, 1)}
Redeploy == {Scenario({k1}, {"redeploy"}, 1, 0)}
TimeoutCrash == {Scenario({k1}, {"timeout", "crash"}, 2, 0)}
=============================================================================
