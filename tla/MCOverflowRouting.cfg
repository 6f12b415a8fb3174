\* Caps of two; each worker is opened once and each call made once.
CONSTANTS
    w1 = w1
    w2 = w2
    w3 = w3
    s1 = s1
    s2 = s2
    a = a
    b = b
    c = c
    q1 = q1
    q2 = q2
    q3 = q3
    Workers = {w1, w2, w3}
    Ids = {s1, s2}
    IdOf <- MCIdOf
    Uris = {a, b, c}
    Parks <- MCParks
    Calls = {q1, q2, q3}
    MaxEntries = 2
    MaxOwners = 2
    NoWorker = NoWorker
    NoUri = NoUri
    NoOwner = NoOwner
SPECIFICATION Spec
SYMMETRY Alike
INVARIANTS
    RefsAreKept
CHECK_DEADLOCK FALSE
