SPECIFICATION LiveSpec
CONSTANTS
    c1 = c1
    c2 = c2
    Clusters = {c1}
    Rollouts = {1, 2}
    LastStage = 0
    Group <- TwoGroups
    Target <- Opposed
    Gated = {}
    Ramped = {1, 2}
    Versions = {1, 2}
    Semver = {2}
    Pins = {1, 2}
    Latest = 2
    Admins = {a1}
    RecordMayFail = FALSE
    None = None
ACTION_CONSTRAINT NoRollback
VIEW ServedView
INVARIANT DeliveredSticks
PROPERTY RollingReaches
