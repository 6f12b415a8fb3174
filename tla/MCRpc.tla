-------------------------------- MODULE MCRpc --------------------------------
(* Instances of WorkerClient and of Protocol for TLC.  They have no state  *)
(* in common: in a behaviour of one the other stays at its beginning.      *)
EXTENDS WorkerClient, FiniteSets, Sequences

CONSTANTS c1, c2, p, MaxRequests, MaxSessions, Absent, Bogus, Stdio, Offers, Configs

ASSUME RpcAssumption == MaxRequests \in Nat /\ MaxSessions \in Nat

(* A body is a sequence of elements, which have an id of some type or none.*)
Bodied(q) ==
    /\ q.body.elements \in Seq({q.body.elements[i] : i \in DOMAIN q.body.elements})
    /\ \A i \in DOMAIN q.body.elements :
          q.body.elements[i].id \in {Absent, "null", "int", "text", "bool", "float"}

ASSUME OffersAssumption ==
    /\ \A q \in Offers : Bodied(q)
    /\ Absent \notin {"null", "int", "text"}

VARIABLES
    part,
    config, sessions, readyKeys, step, req, key, assigned, done, responses, status,
    announced, openedKeys, ended, late, served

serverVars == <<config, sessions, readyKeys, step, req, key, assigned, done, responses, status,
                announced, openedKeys, ended, late, served>>

(* A worker spawned by the pool gets a random token (worker_pool.py:355).  *)
FreshTokens == [i \in Incarnations |-> i]

-----------------------------------------------------------------------------
(* What clients post: every kind of element alone, and a few batches.      *)

Element(method, id, arg) ==
    [object |-> TRUE, jsonrpc |-> TRUE, method |-> method, id |-> id, arg |-> arg]

Hello == Element("initialize", "int", "ok")
Ready == Element("notifications/initialized", Absent, "ok")
ToolCall == Element("tools/call", "text", "tool")
Silent(e) == [e EXCEPT !.id = Absent]

Elements ==
    {Hello, Ready, ToolCall, Silent(ToolCall), [Ready EXCEPT !.id = "int"], [Hello EXCEPT !.arg = "array"],
     Element("ping", "null", "ok"), Element("notifications/cancelled", Absent, "ok"),
     Element("tools/list", "int", "ok"), Element("resources/read", "text", "uri"),
     Element("tools/list", "int", "bad cursor"), Element("tools/call", "int", "no name"),
     Element("resources/read", "int", "array"), Element("bogus", "int", "ok"), Element("bogus", Absent, "ok"),
     [Hello EXCEPT !.jsonrpc = FALSE], [Silent(ToolCall) EXCEPT !.object = FALSE],
     [ToolCall EXCEPT !.id = "bool"], [ToolCall EXCEPT !.method = Absent, !.id = "float"]}

Single(e) == [parses |-> TRUE, batch |-> FALSE, elements |-> <<e>>]
Batch(s) == [parses |-> TRUE, batch |-> TRUE, elements |-> s]
Garbage == [parses |-> FALSE, batch |-> FALSE, elements |-> <<>>]

Bodies ==
    {Single(e) : e \in Elements} \cup {Garbage}
    \cup {Batch(s) : s \in {<<>>, <<Ready, ToolCall>>, <<ToolCall, Ready>>, <<Hello, ToolCall>>,
                            <<[ToolCall EXCEPT !.id = "bool"], Silent(ToolCall), ToolCall>>}}

Plain(verb, header, body) ==
    [verb |-> verb, path |-> TRUE, origin |-> "local", token |-> TRUE, size |-> TRUE,
     header |-> header, version |-> TRUE, body |-> body]

(* Requests that fail one of the checks.                                   *)
Odd(q) ==
    {[q EXCEPT !.path = FALSE], [q EXCEPT !.origin = "other"], [q EXCEPT !.token = FALSE],
     [q EXCEPT !.size = FALSE], [q EXCEPT !.version = FALSE]}

Post(headers, bodies) == {Plain("POST", h, b) : h \in headers, b \in bodies}

SayHello == Plain("POST", Absent, Single(Hello))

Deletes(headers) == {Plain("DELETE", h, Garbage) : h \in headers}

(* Opening, using and ending sessions.                                     *)
SessionOffers ==
    Post({1, 2, Absent, Stdio}, {Batch(<<Ready, ToolCall>>), Single(ToolCall)})
    \cup Deletes({1, 2}) \cup {SayHello, [SayHello EXCEPT !.version = FALSE]}

AllOffers ==
    Post({1, 2, Absent, Stdio}, Bodies) \cup Odd(SayHello)
    \cup Deletes({1, 2, Absent, Bogus}) \cup UNION {Odd(q) : q \in Deletes({1})}
    \cup Odd(Plain("GET", Absent, Garbage)) \cup {Plain("OPTIONS", Absent, Garbage)}
    \cup Post({Bogus}, {Batch(<<Ready, ToolCall>>), Single(ToolCall)}) \cup SessionOffers

AsStarted == [transport |-> "http", server |-> "worker", strict |-> FALSE]

(* The workers and the supervisor as they are started, and with sessions   *)
(* that are required.                                                      *)
MCConfigs ==
    {AsStarted, [AsStarted EXCEPT !.server = "supervisor"], [AsStarted EXCEPT !.strict = TRUE],
     [AsStarted EXCEPT !.transport = "stdio"]}

Server == INSTANCE Protocol WITH
    ready <- readyKeys, stage <- step, opened <- openedKeys

-----------------------------------------------------------------------------

MCInit ==
    /\ part \in {"client", "server"} /\ Init /\ Server!Init
    /\ part = "client" => config = AsStarted

(* At most one request is not about sessions (a bound).                    *)
MCNext ==
    /\ UNCHANGED part
    /\ \/ part = "client" /\ Next /\ UNCHANGED serverVars
       \/ /\ part = "server" /\ Server!Next /\ UNCHANGED vars
          /\ Cardinality({r \in 1 .. MaxRequests : step'[r] # "idle" /\ req'[r] \notin SessionOffers}) <= 1

MCSpec == MCInit /\ [][MCNext]_<<part, vars, serverVars>>

-----------------------------------------------------------------------------
(* The properties of the server.                                           *)

(* Each element that has an answer due gets one, in order, under its id.   *)
AnsweredOnce == Server!TypeOK /\ Server!AnsweredOnce

(* Nothing gets past the gate but in an initialized session.               *)
ServedInSession == Server!ServedInSession
=============================================================================
