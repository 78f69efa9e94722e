SPECIFICATION Spec
CONSTANTS
    Sessions = {s1, s2}
    Keys = {k1, k2, k3, k4}
    Deleters = {d1, d2}
    Limit = 2
    MaxDeletions = 2
    MaxFailures = 1
    MaxStops = 1
SYMMETRY Symmetry
INVARIANT SeriesInv
