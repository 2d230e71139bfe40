----------------------------- MODULE RelayGossip -----------------------------
(***************************************************************************)
(* The relay's membership in the gossipsub topics of its daemons' clusters *)
(* (relay/src/p2p.rs): the handler of a daemon's RPC stream sends Subscribe *)
(* after every accepted register and Unsubscribe when the stream ends; the *)
(* swarm's event loop takes the commands from a bounded channel and counts. *)
(***************************************************************************)
EXTENDS Naturals, Sequences, FiniteSets

CONSTANTS
    Handlers,   \* handle_daemon_rpc of the RPC streams open at once
    Clusters,   \* clusters of the daemons behind them
    ChannelCap, \* capacity of the gossip_tx channel
    MaxCount,   \* bound on what one cluster's counter reaches
    NoCluster   \* of a handler that has accepted no register

ASSUME GossipAssumption ==
    /\ IsFiniteSet(Handlers)
    /\ ChannelCap \in Nat \ {0} /\ MaxCount \in Nat
    /\ NoCluster \notin Clusters

VARIABLES
    cluster,   \* registered_cluster_id of each stream's handler
    channel,   \* gossip_tx / gossip_rx
    count,     \* cluster_peer_count
    topic      \* gossipsub's view of each cluster's topic

gossipVars == <<cluster, channel, count, topic>>

Commands == [op: {"subscribe", "unsubscribe"}, c: Clusters]

GossipTypeOK ==
    /\ cluster \in [Handlers -> Clusters \cup {NoCluster}]
    /\ channel \in Seq(Commands) /\ Len(channel) <= ChannelCap
    /\ count \in [Clusters -> 0 .. MaxCount]
    /\ topic \in [Clusters -> {"left", "joined", "refused"}]

\* Mutant: the channel is taken to be unbounded.
SendUnbounded(op, c) == channel' = Append(channel, [op |-> op, c |-> c])

\* gossip_tx.send(..).await: the handler waits while the channel is full.
Send(op, c) ==
    /\ Len(channel) < ChannelCap
    /\ channel' = Append(channel, [op |-> op, c |-> c])

\* How many commands op for cluster c the channel holds.
Pending(op, c) ==
    Cardinality({i \in 1 .. Len(channel) : channel[i] = [op |-> op, c |-> c]})

\* A register is accepted, the first on this stream or a periodic one.  The
\* daemon's token always names the same cluster.
Subscribe(s, c) ==
    /\ cluster[s] \in {NoCluster, c}
    /\ count[c] + Pending("subscribe", c) < MaxCount
    /\ cluster' = [cluster EXCEPT ![s] = c]
    /\ Send("subscribe", c)
    /\ UNCHANGED <<count, topic>>

\* The stream of a registered daemon ends.
Unsubscribe(s) ==
    /\ cluster[s] # NoCluster
    /\ Send("unsubscribe", cluster[s])
    /\ cluster' = [cluster EXCEPT ![s] = NoCluster]
    /\ UNCHANGED <<count, topic>>

\* Mutant: any Unsubscribe leaves the topic.
TakeLeaves(ok) ==
    LET m == Head(channel) IN
    /\ channel # <<>>
    /\ channel' = Tail(channel)
    /\ IF m.op = "subscribe"
       THEN /\ count' = [count EXCEPT ![m.c] = @ + 1]
            /\ topic' = [topic EXCEPT ![m.c] =
                           IF count[m.c] # 0 THEN @ ELSE IF ok THEN "joined" ELSE "refused"]
       ELSE /\ count' = [count EXCEPT ![m.c] = IF @ > 0 THEN @ - 1 ELSE 0]
            /\ topic' = [topic EXCEPT ![m.c] = "left"]
    /\ UNCHANGED cluster

\* relay_event_loop takes a command.  The first subscription of a cluster joins
\* its topic, which gossipsub may refuse: that is logged, and counted all the
\* same.  saturating_sub, and an entry that reaches zero is removed.
Take(ok) ==
    LET m == Head(channel) IN
    /\ channel # <<>>
    /\ channel' = Tail(channel)
    /\ IF m.op = "subscribe"
       THEN /\ count' = [count EXCEPT ![m.c] = @ + 1]
            /\ topic' = [topic EXCEPT ![m.c] =
                           IF count[m.c] # 0 THEN @ ELSE IF ok THEN "joined" ELSE "refused"]
       ELSE /\ count' = [count EXCEPT ![m.c] = IF @ > 0 THEN @ - 1 ELSE 0]
            /\ topic' = [topic EXCEPT ![m.c] = IF count[m.c] > 1 THEN @ ELSE "left"]
    /\ UNCHANGED cluster

GossipInit ==
    /\ cluster = [s \in Handlers |-> NoCluster]
    /\ channel = <<>>
    /\ count = [c \in Clusters |-> 0]
    /\ topic = [c \in Clusters |-> "left"]

GossipNext ==
    \/ \E s \in Handlers : Unsubscribe(s) \/ \E c \in Clusters : Subscribe(s, c)
    \/ \E ok \in BOOLEAN : Take(ok)

GossipSpec == GossipInit /\ [][GossipNext]_gossipVars

-----------------------------------------------------------------------------
Connected(c) == \E s \in Handlers : cluster[s] = c
Members(c) == {s \in Handlers : cluster[s] = c}

\* The relay never leaves the topic of a cluster that has a daemon connected,
\* however the commands of closing and of opening streams interleave: it has
\* joined it, or gossipsub refused it when the first of them came.
SubscribedWhileConnected ==
    \A c \in Clusters : channel = <<>> /\ Connected(c) => topic[c] # "left"

\* What makes it so: a cluster's counter and the subscriptions still in the
\* channel are together enough for the unsubscriptions in the channel and the
\* daemons connected, and stay within the bound.
GossipIInv ==
    /\ GossipTypeOK
    /\ \A c \in Clusters :
         /\ topic[c] = "left" <=> count[c] = 0
         /\ count[c] + Pending("subscribe", c) <= MaxCount
         /\ Pending("unsubscribe", c) + Cardinality(Members(c))
              <= count[c] + Pending("subscribe", c)

\* "Track how many daemons per cluster are connected. Subscribe when count
\* goes from 0->1, unsubscribe when 1->0" (relay_event_loop): the topic of a
\* cluster without daemons is left.
LeavesEmptyCluster ==
    \A c \in Clusters : channel = <<>> /\ ~Connected(c) => count[c] = 0
=============================================================================
