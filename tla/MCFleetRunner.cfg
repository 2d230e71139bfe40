SPECIFICATION LiveSpec
CONSTANTS
    k1 = k1
    k2 = k2
    k3 = k3
    Cells = {k1, k2, k3}
    Nodes <- MixedNodes
    Matrices <- TwoMatrices
    Cap = 1
    Cids = {c1, c2, c3, c4, c5}
    Launches = {l1, l2, l3, l4}
    Gids = {g1, g2}
    Scenarios <- Both
    None = None
INVARIANTS TypeOK NoOrphanVm LaunchBudget
PROPERTIES NoBuildWhilePaused FleetConverges
