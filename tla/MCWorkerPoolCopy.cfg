\* One id reopened while its closed session is still being cleaned up.
CONSTANTS
    Ids = {x}
    Opens = {o1, o2}
    Closers = {c1}
    MaxWorkers = 0
    NoOpen = NoOpen
    NoId = NoId
SPECIFICATION Spec
INVARIANT
    ReadyHasItsCopy
\* Opens is finite: once every call is made the pool may come to rest.
CHECK_DEADLOCK FALSE
