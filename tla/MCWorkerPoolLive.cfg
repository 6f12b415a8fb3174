\* Two opens over two ids under a cap of one, with fairness.
CONSTANTS
    Ids = {x, y}
    Opens = {o1, o2}
    Closers = {c1}
    MaxWorkers = 1
    NoOpen = NoOpen
    NoId = NoId
SPECIFICATION Spec
INVARIANT
    CapRespected
PROPERTIES
    OpenReturns
    UnreachableDies
\* Opens is finite: once every call is made the pool may come to rest.
CHECK_DEADLOCK FALSE
