--------------------------- MODULE WorkerClient ---------------------------
(* Forwarding one JSON-RPC frame to a worker, over the MCP lifecycle:      *)
(* infrastructure/rpc/worker_client.py on the supervisor's side, the POST  *)
(* handler of infrastructure/transport/http.py and the lifecycle gate of   *)
(* interface/mcp/engine.py on the worker's.                                *)
(*                                                                         *)
(* The client's cache of session ids is keyed by (host, port), so a cached *)
(* id outlives the process that assigned it.  The model is of one port: an *)
(* incarnation is a worker process bound to it, and a call is addressed to *)
(* the incarnation whose token it carries.  Every composition root makes   *)
(* its HttpTransport without require_session, so that the transport's      *)
(* "unknown session" (404) does not occur and a stale id is told by the    *)
(* engine's gate.                                                          *)
EXTENDS Integers

CONSTANTS
    Calls,           \* calls of forward and ping
    Pings,           \* those that are pings
    MaxIncarnation,  \* processes that may ever be bound to the port (a bound)
    TokenOf,         \* the bearer token of each incarnation
    NoId, NoRequest

Incarnations == 1 .. MaxIncarnation

(* Ids are random in the code, so an id is known by the request that asked *)
(* for it and the process that assigned it.                                *)
Ids == [inc : Incarnations, call : Calls, attempt : {0, 1}]

ASSUME ClientAssumption ==
    /\ MaxIncarnation \in Nat \ {0}
    /\ Pings \subseteq Calls
    /\ NoId \notin Ids

Kinds == {"initialize", "initialized", "frame"}
Replies == {"none", "ok", "unauthorized", "not initialized"}
Requests == [kind : Kinds, to : Incarnations, id : Ids \cup {NoId}, reply : Replies]

ASSUME NoRequestAssumption == NoRequest \notin Requests

VARIABLES
    incarnation, \* the process last bound to the port
    alive,       \* whether it still runs
    known,       \* its HttpTransport._sessions
    ready,       \* its McpEngine._ready_sessions
    cached,      \* WorkerClient._sessions at this (host, port)
    stage,       \* where the thread of a call is
    attempt,     \* its loop variable in forward
    addressee,   \* the incarnation whose token it carries
    wasCached,   \* was_cached
    session,     \* session_id
    request,     \* its HTTP request in flight, or left behind
    result,      \* how it returned
    runs,        \* history: how often a worker ran its frame
    disturbed    \* history: a worker stopped, or an id of an earlier process
                 \* was cached, while the call was under way

server == <<incarnation, alive, known, ready>>
vars == <<server, cached, stage, attempt, addressee, wasCached, session,
          request, result, runs, disturbed>>

Stages == {"idle", "look", "ensure", "initialize", "initialized", "store",
           "send", "drop", "done"}
Results == {"none", "ok", "refused", "stale", "lost"}

TypeOK ==
    /\ incarnation \in Incarnations
    /\ alive \in BOOLEAN
    /\ known \in SUBSET Ids
    /\ ready \in SUBSET Ids
    /\ cached \in Ids \cup {NoId}
    /\ stage \in [Calls -> Stages]
    /\ attempt \in [Calls -> {0, 1}]
    /\ addressee \in [Calls -> Incarnations]
    /\ wasCached \in [Calls -> BOOLEAN]
    /\ session \in [Calls -> Ids \cup {NoId}]
    /\ request \in [Calls -> Requests \cup {NoRequest}]
    /\ result \in [Calls -> Results]
    /\ runs \in [Calls -> Nat]
    /\ disturbed \in [Calls -> BOOLEAN]

Init ==
    /\ incarnation = 1
    /\ alive = TRUE
    /\ known = {}
    /\ ready = {}
    /\ cached = NoId
    /\ stage = [c \in Calls |-> "idle"]
    /\ attempt = [c \in Calls |-> 0]
    /\ addressee = [c \in Calls |-> 1]
    /\ wasCached = [c \in Calls |-> FALSE]
    /\ session = [c \in Calls |-> NoId]
    /\ request = [c \in Calls |-> NoRequest]
    /\ result = [c \in Calls |-> "none"]
    /\ runs = [c \in Calls |-> 0]
    /\ disturbed = [c \in Calls |-> FALSE]

UnderWay(c) == stage[c] \notin {"idle", "done"}

Disturb == disturbed' = [c \in Calls |-> disturbed[c] \/ UnderWay(c)]

Finish(c, how) ==
    /\ stage' = [stage EXCEPT ![c] = "done"]
    /\ result' = [result EXCEPT ![c] = how]

---------------------------------------------------------------------------
(* The client's thread of a call.                                          *)

(* The caller holds the session object of a process that is, or was, bound *)
(* to the port.  ping does not look at the cache before ensure.            *)
Begin(c) ==
    /\ stage[c] = "idle"
    /\ stage' = [stage EXCEPT ![c] = IF c \in Pings THEN "ensure" ELSE "look"]
    /\ \E i \in 1 .. incarnation : addressee' = [addressee EXCEPT ![c] = i]
    /\ UNCHANGED <<server, cached, attempt, wasCached, session, request, result,
                   runs, disturbed>>

(* The head of forward's loop: its own critical section.                   *)
Look(c) ==
    /\ stage[c] = "look"
    /\ wasCached' = [wasCached EXCEPT ![c] = cached # NoId]
    /\ stage' = [stage EXCEPT ![c] = "ensure"]
    /\ UNCHANGED <<server, cached, attempt, addressee, session, request, result,
                   runs, disturbed>>

(* _ensure_session looks again, in another critical section.               *)
Ensure(c) ==
    /\ stage[c] = "ensure"
    /\ session' = [session EXCEPT ![c] = cached]
    /\ stage' = [stage EXCEPT ![c] = IF cached = NoId THEN "initialize" ELSE "send"]
    /\ UNCHANGED <<server, cached, attempt, addressee, wasCached, request, result,
                   runs, disturbed>>

(* The kind of request a stage posts.                                      *)
Posts(c) == IF stage[c] = "send" THEN "frame" ELSE stage[c]
Posting(c) == stage[c] \in {"initialize", "initialized", "send"}

(* _post: the connection is made to whatever process is bound now.         *)
Connect(c) ==
    /\ Posting(c)
    /\ request[c] = NoRequest
    /\ alive
    /\ request' = [request EXCEPT ![c] = [kind |-> Posts(c), to |-> incarnation,
                                          id |-> session[c], reply |-> "none"]]
    /\ UNCHANGED <<server, cached, stage, attempt, addressee, wasCached, session,
                   result, runs, disturbed>>

(* Nothing listens and the connect retries are spent.                      *)
Refused(c) ==
    /\ Posting(c)
    /\ request[c] = NoRequest
    /\ ~alive
    /\ Finish(c, "refused")
    /\ UNCHANGED <<server, cached, attempt, addressee, wasCached, session, request,
                   runs, disturbed>>

(* Every failure of the first attempt is replayed, the lost one included.  *)
MutFail(c) ==
    /\ Posting(c)
    /\ request[c] # NoRequest
    /\ IF stage[c] = "send" /\ attempt[c] = 0
       THEN /\ attempt' = [attempt EXCEPT ![c] = 1]
            /\ stage' = [stage EXCEPT ![c] = "look"]
            /\ request' = [request EXCEPT ![c] = NoRequest]
            /\ UNCHANGED result
       ELSE /\ Finish(c, IF stage[c] = "send" THEN "lost" ELSE "refused")
            /\ UNCHANGED <<attempt, request>>
    /\ UNCHANGED <<server, cached, addressee, wasCached, session, runs, disturbed>>

(* The socket's time-out, or a connection reset, with no reply read.  What *)
(* was transmitted stays behind and may still be served.                   *)
Fail(c) ==
    /\ Posting(c)
    /\ request[c] # NoRequest
    /\ Finish(c, IF stage[c] = "send" THEN "lost" ELSE "refused")
    /\ UNCHANGED <<server, cached, attempt, addressee, wasCached, session, request,
                   runs, disturbed>>

Replied(c, reply) ==
    /\ Posting(c)
    /\ request[c] # NoRequest
    /\ request[c].reply = reply
    /\ request' = [request EXCEPT ![c] = NoRequest]

(* The worker assigned an id; the lifecycle goes on with the notification. *)
Initialized(c) ==
    /\ stage[c] = "initialize"
    /\ Replied(c, "ok")
    /\ session' = [session EXCEPT ![c] = request[c].id]
    /\ stage' = [stage EXCEPT ![c] = "initialized"]
    /\ UNCHANGED <<server, cached, attempt, addressee, wasCached, result, runs, disturbed>>

Acknowledged(c) ==
    /\ stage[c] = "initialized"
    /\ Replied(c, "ok")
    /\ stage' = [stage EXCEPT ![c] = "store"]
    /\ UNCHANGED <<server, cached, attempt, addressee, wasCached, session, result,
                   runs, disturbed>>

(* The last critical section of _ensure_session: whatever is cached by     *)
(* then is overwritten.                                                    *)
Store(c) ==
    /\ stage[c] = "store"
    /\ cached' = session[c]
    /\ stage' = [stage EXCEPT ![c] = "send"]
    /\ IF session[c].inc = incarnation THEN UNCHANGED disturbed ELSE Disturb
    /\ UNCHANGED <<server, attempt, addressee, wasCached, session, request, result, runs>>

Answered(c) ==
    /\ stage[c] = "send"
    /\ Replied(c, "ok")
    /\ Finish(c, "ok")
    /\ UNCHANGED <<server, cached, attempt, addressee, wasCached, session, runs, disturbed>>

(* Any other status is an error, which ping reports as False.              *)
Rejected(c) ==
    /\ Replied(c, "unauthorized")
    /\ Finish(c, "refused")
    /\ UNCHANGED <<server, cached, attempt, addressee, wasCached, session, runs, disturbed>>

Stale(c) ==
    /\ stage[c] = "send"
    /\ Replied(c, "not initialized")
    /\ stage' = [stage EXCEPT ![c] = "drop"]
    /\ UNCHANGED <<server, cached, attempt, addressee, wasCached, session, result,
                   runs, disturbed>>

(* The rejected id stays cached.                                           *)
MutDrop(c) ==
    /\ stage[c] = "drop"
    /\ \/ /\ attempt[c] = 0 /\ wasCached[c]
          /\ attempt' = [attempt EXCEPT ![c] = 1]
          /\ stage' = [stage EXCEPT ![c] = "look"]
          /\ UNCHANGED result
       \/ /\ attempt[c] = 1 \/ ~wasCached[c]
          /\ Finish(c, "stale")
          /\ UNCHANGED attempt
    /\ UNCHANGED <<server, cached, addressee, wasCached, session, request, runs, disturbed>>

(* The replay is not limited to the first attempt.                         *)
MutDropTwice(c) ==
    /\ stage[c] = "drop"
    /\ cached' = NoId
    /\ \/ /\ wasCached[c]
          /\ attempt' = [attempt EXCEPT ![c] = @ + 1]
          /\ stage' = [stage EXCEPT ![c] = "look"]
          /\ UNCHANGED result
       \/ /\ ~wasCached[c]
          /\ Finish(c, "stale")
          /\ UNCHANGED attempt
    /\ UNCHANGED <<server, addressee, wasCached, session, request, runs, disturbed>>

(* invalidate removes the entry, whatever it holds by now; the frame is    *)
(* replayed if the first look had found an id.                             *)
Drop(c) ==
    /\ stage[c] = "drop"
    /\ cached' = NoId
    /\ \/ /\ attempt[c] = 0 /\ wasCached[c]
          /\ attempt' = [attempt EXCEPT ![c] = 1]
          /\ stage' = [stage EXCEPT ![c] = "look"]
          /\ UNCHANGED result
       \/ /\ attempt[c] = 1 \/ ~wasCached[c]
          /\ Finish(c, "stale")
          /\ UNCHANGED attempt
    /\ UNCHANGED <<server, addressee, wasCached, session, request, runs, disturbed>>

Client(c) ==
    \/ Look(c) \/ Ensure(c) \/ Connect(c) \/ Refused(c) \/ Fail(c) \/ Initialized(c)
    \/ Acknowledged(c) \/ Store(c) \/ Answered(c) \/ Rejected(c) \/ Stale(c) \/ Drop(c)

---------------------------------------------------------------------------
(* The worker.                                                             *)

(* A request the process has read and not yet answered.                    *)
Arrived(c) ==
    /\ alive
    /\ request[c] # NoRequest
    /\ request[c].to = incarnation
    /\ request[c].reply = "none"

(* The token is not checked.                                               *)
MutAuthorized(c) == TRUE

Authorized(c) == TokenOf[addressee[c]] = TokenOf[incarnation]

Reply(c, reply) == request' = [request EXCEPT ![c].reply = reply]

ServeRefusal(c) ==
    /\ Arrived(c)
    /\ ~Authorized(c)
    /\ Reply(c, "unauthorized")
    /\ UNCHANGED <<server, cached, stage, attempt, addressee, wasCached, session,
                   result, runs, disturbed>>

(* _new_session: the id is assigned before the method is dispatched.       *)
ServeInitialize(c) ==
    /\ Arrived(c)
    /\ request[c].kind = "initialize"
    /\ Authorized(c)
    /\ LET id == [inc |-> incarnation, call |-> c, attempt |-> attempt[c]]
       IN  /\ known' = known \cup {id}
           /\ request' = [request EXCEPT ![c].reply = "ok", ![c].id = id]
    /\ UNCHANGED <<incarnation, alive, ready, cached, stage, attempt, addressee,
                   wasCached, session, result, runs, disturbed>>

(* McpEngine.initialized takes the id the request bears.                   *)
ServeInitialized(c) ==
    /\ Arrived(c)
    /\ request[c].kind = "initialized"
    /\ Authorized(c)
    /\ ready' = ready \cup {request[c].id}
    /\ Reply(c, "ok")
    /\ UNCHANGED <<incarnation, alive, known, cached, stage, attempt, addressee,
                   wasCached, session, result, runs, disturbed>>

(* ping bypasses the lifecycle gate.                                       *)
Gate(c) == c \in Pings \/ request[c].id \in ready

ServeFrame(c) ==
    /\ Arrived(c)
    /\ request[c].kind = "frame"
    /\ Authorized(c)
    /\ IF Gate(c)
       THEN Reply(c, "ok") /\ runs' = [runs EXCEPT ![c] = @ + 1]
       ELSE Reply(c, "not initialized") /\ UNCHANGED runs
    /\ UNCHANGED <<server, cached, stage, attempt, addressee, wasCached, session,
                   result, disturbed>>

(* The process exits or is killed; a new one binds the port, knowing no    *)
(* ids.                                                                    *)
Stop ==
    /\ alive
    /\ alive' = FALSE
    /\ Disturb
    /\ UNCHANGED <<incarnation, known, ready, cached, stage, attempt, addressee,
                   wasCached, session, request, result, runs>>

Start ==
    /\ ~alive
    /\ incarnation < MaxIncarnation
    /\ incarnation' = incarnation + 1
    /\ alive' = TRUE
    /\ known' = {}
    /\ ready' = {}
    /\ UNCHANGED <<cached, stage, attempt, addressee, wasCached, session, request,
                   result, runs, disturbed>>

Worker(c) ==
    ServeRefusal(c) \/ ServeInitialize(c) \/ ServeInitialized(c) \/ ServeFrame(c)

Next ==
    \/ \E c \in Calls : Begin(c) \/ Client(c) \/ Worker(c)
    \/ Stop
    \/ Start

Spec == Init /\ [][Next]_vars

---------------------------------------------------------------------------
(* What the caller can rely on: however often the worker restarts and      *)
(* whatever other calls do to the cache, a call is a RemoteCall.           *)
Phase(c) ==
    CASE stage[c] = "idle" -> "idle"
      [] result[c] = "ok" -> "answered"
      [] result[c] \in {"refused", "stale"} -> "refused"
      [] result[c] = "lost" -> "unknown"
      [] OTHER -> "open"

Remote == INSTANCE RemoteCall WITH phase <- [c \in Calls |-> Phase(c)]

(* The replay on a stale id never runs a frame twice, an answer comes from *)
(* a run, a refusal from none (worker_client.py:119-122 and 274-276).      *)
ImplementsRemoteCall == Remote!Spec

(* A session passes a worker's lifecycle gate only if this very process    *)
(* assigned its id (engine.py:157-162, http.py:321-326).  With a token of  *)
(* its own, no late notification can open the gate of the next process.    *)
ReadyWasAssigned == ready \subseteq known

(* A caller is told that its session is stale only if a worker stopped, or *)
(* an id of a stopped worker was cached, while its call was under way: the *)
(* ids that earlier workers left in the cache are recovered from.          *)
StaleOnlyWhenDisturbed ==
    \A c \in Calls : result[c] = "stale" => disturbed[c]
===========================================================================
