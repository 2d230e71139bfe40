CONSTANTS
    s1 = s1
    s2 = s2
    None = None
    Services = {s1, s2}
    Versions = {1, 2, 3}
    Confs = 2
    Scenarios <- All
SPECIFICATION LiveSpec
INVARIANTS TypeOK RegisteredIsKnown
PROPERTIES Settles DownNotHealthy
