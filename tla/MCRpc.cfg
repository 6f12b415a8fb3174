\* Two forwards and a ping, over a worker and the one that replaces it;
\* three requests to a server.
CONSTANTS
    c1 = c1
    c2 = c2
    p = p
    Calls = {c1, c2, p}
    Pings = {p}
    MaxIncarnation = 2
    TokenOf <- FreshTokens
    MaxRequests = 3
    MaxSessions = 2
    Absent = Absent
    Bogus = Bogus
    Stdio = Stdio
    Offers <- AllOffers
    Configs <- MCConfigs
    NoId = NoId
    NoRequest = NoRequest
SPECIFICATION MCSpec
INVARIANTS
    TypeOK
    ReadyWasAssigned
    StaleOnlyWhenDisturbed
    AnsweredOnce
    ServedInSession
PROPERTY
    ImplementsRemoteCall
\* Calls is finite: once every call is made the system may come to rest.
CHECK_DEADLOCK FALSE
