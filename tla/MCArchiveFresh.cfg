SPECIFICATION Spec
CONSTANTS
    Snapshots = {s1, s2}
    Savers = {p1}
    Loaders = {q1}
    Homes = {"fresh"}
    MaxCrashes = 1
    MaxRot = 0
INVARIANTS
    AckedDurable
