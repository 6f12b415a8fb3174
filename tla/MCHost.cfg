CONSTANTS
    Instances = {i1, i2, i3}
    Ports = {1, 2}
    Pids = {p1, p2}
    Readers = {r}
    MaxMints = 2
    Nothing = Nothing
    Junk = Junk
    Guis = {g}
    Ids = {x, y}
SPECIFICATION MCSpec
SYMMETRY Symmetry
INVARIANTS
    ReadIsTrue
    CopyStays
    SweepIsThorough
PROPERTY
    OnlyStaleVerdictsRemove
\* Every process is started once.
CHECK_DEADLOCK FALSE
