----------------------------- MODULE MCRollouts -----------------------------
(* Instances of Rollouts for TLC. *)
EXTENDS Rollouts, TLC

CONSTANTS c1, c2

\* One rollout of two stages with a cluster each.
SplitGroups == [r \in {1} |-> [i \in 0 .. 1 |-> IF i = 0 THEN {c1} ELSE {c2}]]
SplitGated == {<<1, 0>>, <<1, 1>>}

\* One rollout of two stages, with the one cluster in the second.
LateGroups == [r \in {1} |-> [i \in 0 .. 1 |-> IF i = 0 THEN {} ELSE {c1}]]

\* Two overlapping rollouts of one stage each.
TwoGroups == [r \in {1, 2} |-> [i \in {0} |-> {c1}]]

Targets == [r \in Rollouts |-> 2]

\* The older rollout moves to a channel, which no daemon refuses, and the newer
\* one back.
Opposed == [r \in {1, 2} |-> r]

\* Nobody rolls back: for the fleet that is a completion and a pin, and without
\* it nothing reads a baseline.
NoRollback == \A a \in Admins : req'[a].op # "rollback"

\* Then baselines do not matter, a cluster without a pin is served as one pinned
\* to Latest, and a target that runs already is as good as none.
ServedView ==
    <<status, stage, ramp, delivered, tick, fetch, got, running,
      [a \in Admins |-> [req[a] EXCEPT !.base = None]],
      [c \in Clusters |-> IF pin[c] = None THEN Latest ELSE pin[c]],
      [c \in Clusters |-> IF tgt[c] = running[c] THEN None ELSE tgt[c]]>>
=============================================================================
