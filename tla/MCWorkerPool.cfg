\* Three opens over two ids, two closing threads, no cap in the way.
CONSTANTS
    Ids = {x, y}
    Opens = {o1, o2, o3}
    Closers = {c1, c2}
    MaxWorkers = 2
    NoOpen = NoOpen
    NoId = NoId
SPECIFICATION Spec
SYMMETRY Symmetry
INVARIANTS
    TypeOK
    NoOrphan
    ScratchIsHeld
PROPERTIES
    ClosedStaysClosed
    ImplementsSessionPool
\* Opens is finite: once every call is made the pool may come to rest.
CHECK_DEADLOCK FALSE
