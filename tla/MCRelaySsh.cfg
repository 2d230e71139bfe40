SPECIFICATION Spec
CONSTANTS
    Daemons = {d1, d2}
    Streams = {s1, s2}
    Ports = {1}
    MaxDaemons = 2
    None = None
SYMMETRY Symmetry
VIEW TablesView
INVARIANTS
    PortsDisjoint
    UsedAreReserved
    AdvertisedIsServed
PROPERTIES
    PortStable
