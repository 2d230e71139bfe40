SPECIFICATION Spec
CONSTANTS
    c1 = c1
    c2 = c2
    Clusters = {c1}
    Rollouts = {1}
    LastStage = 1
    Group <- LateGroups
    Target <- Targets
    Gated <- SplitGated
    Ramped = {1}
    Versions = {1, 2}
    Semver = {1, 2}
    Pins = {1}
    Latest = 2
    Admins = {a1, a2}
    RecordMayFail = TRUE
    None = None
INVARIANTS
    StagedExposure
    StagesInOrder
