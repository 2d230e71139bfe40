-------------------------- MODULE MCHealerSessions --------------------------
EXTENDS HealerSessions

\* The steps of the agent that differ: to ask for approval, to go on, to give up.
SomePhases == {"diagnosing", "remediating", "needs_human_attention"}

First == CHOOSE s \in Sessions : TRUE

\* One session: pauses, approvals, cancels and restarts in every order.
One == {[ids |-> {First}, asks |-> 3, restarts |-> 1, moves |-> 2, flips |-> 0]}

\* Two sessions: the guards of spawn_session, the cooldown and the auto-trigger.
Two == {[ids |-> Sessions, asks |-> 1, restarts |-> 1, moves |-> 1, flips |-> 1]}

Both == One \cup Two
=============================================================================
