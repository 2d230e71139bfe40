SPECIFICATION LiveSpec
CONSTANTS
    Sessions = {s1, s2}
    Admins = {a1}
    Threshold = 2
    Scenarios <- Both
    Phases <- SomePhases
    Merging = {TRUE, FALSE}
    None = None
INVARIANT ApprovalGate
PROPERTIES
    
    SickIsAttended
