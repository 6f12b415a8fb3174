CONSTANTS
    r1 = r1
    r2 = r2
    agent = agent
    merge = merge
    one = one
    Requests = {r1, r2}
    Clients = {agent, merge}
    ClientOf <- MCClientOf
    RpcIds = {one}
    IdOf <- MCIdOf
    NoRequest = NoRequest
SPECIFICATION Spec
INVARIANTS
    CancelHitsItsRequest
PROPERTIES
    OrphanExits
    EveryCallEnds
\* Once the worker has exited nothing happens.
CHECK_DEADLOCK FALSE
