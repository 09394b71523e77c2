SPECIFICATION Spec
CONSTANTS
    Snapshots = {s1, s2}
    Savers = {p1, p2}
    Loaders = {q1}
    Homes = {"durable"}
    MaxCrashes = 2
    MaxRot = 1
INVARIANTS
    AckedDurable
    ReadersSeeComplete
    NeverDenied
PROPERTIES
    ImplementsVault
