SPECIFICATION GossipSpec
CONSTANTS
    Handlers = {h1, h2, h3}
    Clusters = {c1, c2}
    ChannelCap = 2
    MaxCount = 4
    NoCluster = NoCluster
INVARIANTS
    GossipTypeOK
    SubscribedWhileConnected
