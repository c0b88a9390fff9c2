SPECIFICATION Spec
CONSTANTS
    Workers = {w1, w2}
    Clients = {c1}
    Durations = {0, 1, 2}
    MaxCalls = 2
    MaxFaults = 1
SYMMETRY MetricsSymmetry
INVARIANTS
    TypeOK
    CountersTrail
    SnapshotCoherent
    HistogramExact
