------------------------------ MODULE Protocol ------------------------------
(* A server from the socket to the method that answers: the HTTP and stdio *)
(* transports (infrastructure/transport), the JSON-RPC router              *)
(* (infrastructure/rpc/router.py) and the methods of a worker              *)
(* (interface/mcp/engine.py) or of the supervisor (interface/router/       *)
(* supervisor.py).                                                         *)
(*                                                                         *)
(* Every HTTP request runs on a thread of its own; the set of sessions and *)
(* the set of ready ones have a lock each, which is not held in between.   *)
(* A request is its verb, the checks it would pass (path, origin, token,   *)
(* size, protocol version), the session it names and a body: whether it    *)
(* parses, whether it is a batch, and its elements.  An element is whether *)
(* it is an object and of JSON-RPC 2.0, a method, an id, and which of the  *)
(* method's cases its parameters are.                                      *)
EXTENDS Naturals, FiniteSets, SequencesExt

CONSTANTS
    MaxRequests, \* how many requests are made (a bound)
    MaxSessions, \* how many sessions are given out (a bound)
    Offers,      \* the requests clients make
    Configs,     \* servers: [transport, server, strict]
    Absent,      \* no header, no id
    Stdio,       \* the one session of the stdio transport
    Bogus        \* a session id no server gave out

(* Requests are numbered as they are made.  A session id is random; this   *)
(* one is the number of sessions given out before, and one.                *)
Requests == 1 .. MaxRequests
Sids == 1 .. MaxSessions

VARIABLES
    config,
    sessions,    \* HttpTransport._sessions
    ready,       \* _ready_sessions
    stage,       \* where the thread of a request is
    req,         \* the request, as the client made it
    key,         \* the session it is dispatched under
    assigned,    \* it was given that session
    done,        \* how many elements of its body were dispatched
    responses,   \* the answers collected: <<id, outcome>>
    status,      \* the answer to the request
    announced,   \* history: sessions a client was told
    opened,      \* history: sessions whose client said it is initialized
    ended,       \* history: sessions whose deletion was confirmed
    late,        \* history: the sessions ended when a request was made
    served       \* history: <<request, position>> of what went past the gate

vars == <<config, sessions, ready, stage, req, key, assigned, done, responses, status,
          announced, opened, ended, late, served>>

Ids == {Absent, "null", "int", "text", "bool", "float"}

TypeOK ==
    /\ config \in Configs
    /\ sessions \in SUBSET Sids
    /\ ready \in SUBSET (Sids \cup {Absent, Bogus, Stdio})
    /\ \A r \in Requests :
          /\ stage[r] \in {"idle", "admitted", "checking", "dispatching", "done"}
          /\ assigned[r] => key[r] \in Sids
          /\ \A i \in DOMAIN responses[r] : responses[r][i][1] \in Ids \ {Absent, "bool", "float"}

Init ==
    /\ config \in Configs
    /\ sessions = {} /\ ready = {}
    /\ stage = [r \in Requests |-> "idle"]
    /\ req = [r \in Requests |-> Absent]
    /\ key = [r \in Requests |-> Absent]
    /\ assigned = [r \in Requests |-> FALSE]
    /\ done = [r \in Requests |-> 0]
    /\ responses = [r \in Requests |-> <<>>]
    /\ status = [r \in Requests |-> 0]
    /\ announced = {} /\ opened = {} /\ ended = {} /\ served = {}
    /\ late = [r \in Requests |-> {}]

-----------------------------------------------------------------------------
(* The methods: what they answer, past the gate or not.                    *)

(* Parameters that are no object are not looked for.                       *)
Initialize(e) == IF e.arg = "array" THEN "internal error" ELSE "result"

Ping == "result"

ToolsList(e) ==
    CASE e.arg = "array" -> "internal error"
      [] e.arg = "bad cursor" -> "invalid params"
      [] OTHER -> "result"

(* A tool that fails is a result; one that is not there is an error.       *)
ToolsCall(e) ==
    CASE e.arg \in {"array", "no name", "unknown tool"} -> {"invalid params"}
      [] e.arg = "gated tool" -> {"result"}
      [] OTHER -> {"result", "invalid params", "internal error"}

ResourcesRead(e) ==
    CASE e.arg \in {"array", "no uri"} -> {"invalid params"}
      [] OTHER -> {"result", "not found", "internal error"}

(* No such session, the worker cannot be reached, or what it answers.      *)
Forward == {"invalid params", "internal error", "result", "not found"}

(* The supervisor knows its own tools and forwards the others.             *)
RouteCall(e) ==
    CASE e.arg \in {"array", "no name"} -> {"invalid params"}
      [] e.arg = "own tool" -> {"result"}
      [] OTHER -> Forward

(* A read without an owner is refused.                                     *)
RouteRead(e) ==
    CASE e.arg = "array" -> {"internal error"}
      [] e.arg = "no uri" -> {"invalid params"}
      [] OTHER -> Forward

Worker == config.server = "worker"

Gated(e) ==
    CASE e.method = "tools/list" -> IF Worker THEN {ToolsList(e)} ELSE {"result"}
      [] e.method = "tools/call" -> IF Worker THEN ToolsCall(e) ELSE RouteCall(e)
      [] e.method = "resources/read" -> IF Worker THEN ResourcesRead(e) ELSE RouteRead(e)
      [] e.method \in {"resources/list", "resources/templates/list"} -> {"result"}

GatedMethods ==
    {"tools/list", "tools/call", "resources/read", "resources/list", "resources/templates/list"}

Notifications == {"notifications/initialized", "notifications/cancelled"}

Methods == GatedMethods \cup Notifications \cup {"initialize", "ping"}

(* _require_initialized                                                    *)
Open(k) == k \in ready

-----------------------------------------------------------------------------
(* The router: one element of a frame.                                     *)

WellFormed(e) ==
    e.object /\ e.jsonrpc /\ e.method # Absent /\ e.id \notin {"bool", "float"}

SafeId(e) == IF e.object /\ e.id \in {"int", "text"} THEN e.id ELSE "null"

Batch(r) == req[r].body.elements

Answer(r, id, outcome) ==
    responses' = [responses EXCEPT ![r] = Append(@, <<id, outcome>>)]

(* Faulty: what has no id is answered unless it is a notification method.  *)
MutSuppress(e) == e.method \in Notifications

Suppress(e) == e.id = Absent \/ e.method \in Notifications

Reply(r, e, outcome) ==
    IF Suppress(e) THEN UNCHANGED responses ELSE Answer(r, e.id, outcome)

(* initialized: the gate of the session opens.                             *)
Initialized(r) ==
    /\ ready' = ready \cup {key[r]}
    /\ opened' = opened \cup {key[r]}
    /\ UNCHANGED served

Call(r, e) ==
    \/ /\ e.method = "notifications/initialized"
       /\ Initialized(r)
       /\ Reply(r, e, "result")
    \/ /\ e.method \in {"initialize", "ping", "notifications/cancelled"}
       /\ Reply(r, e, IF e.method = "initialize" THEN Initialize(e) ELSE Ping)
       /\ UNCHANGED <<ready, opened, served>>
    \/ /\ e.method \in GatedMethods
       /\ IF Open(key[r])
          THEN /\ \E outcome \in Gated(e) : Reply(r, e, outcome)
               /\ served' = served \cup {<<r, done[r] + 1>>}
          ELSE /\ Reply(r, e, "invalid params")
               /\ UNCHANGED served
       /\ UNCHANGED <<ready, opened>>

(* dispatch_one, for the next element of the frame.                        *)
DispatchOne(r) ==
    /\ stage[r] = "dispatching"
    /\ done[r] < Len(Batch(r))
    /\ LET e == Batch(r)[done[r] + 1]
       IN  IF WellFormed(e) /\ e.method \in Methods THEN Call(r, e)
           ELSE /\ UNCHANGED <<ready, opened, served>>
                /\ IF ~ WellFormed(e) THEN Answer(r, SafeId(e), "invalid request")
                   ELSE IF e.id # Absent THEN Answer(r, e.id, "method not found")
                   ELSE UNCHANGED responses
    /\ done' = [done EXCEPT ![r] = @ + 1]
    /\ UNCHANGED <<config, sessions, stage, req, key, assigned, status, announced, ended, late>>

(* What dispatch gives back for a frame whose elements were dispatched.    *)
Replies(r) ==
    IF ~ req[r].body.parses THEN <<<<"null", "parse error">>>>
    ELSE IF Batch(r) = <<>> THEN <<<<"null", "invalid request">>>>
    ELSE responses[r]

-----------------------------------------------------------------------------
(* The HTTP transport.                                                     *)

Http == config.transport = "http"

(* The client knows the sessions it was told, and may make one up.         *)
Make(r, q) ==
    /\ req' = [req EXCEPT ![r] = q]
    /\ late' = [late EXCEPT ![r] = ended]

Finish(r, code) ==
    /\ stage' = [stage EXCEPT ![r] = "done"]
    /\ status' = [status EXCEPT ![r] = code]

Kept == <<config, key, assigned, done, responses, ready, opened, served>>

(* Origins of this machine pass; a token is asked for if there is one.     *)
OriginAllowed(q) == q.origin # "other"

Guard(q) == IF ~ OriginAllowed(q) THEN 403 ELSE IF ~ q.token THEN 401 ELSE 0

(* do_POST, up to the body.                                                *)
Post(r, q) ==
    LET refused == IF ~ q.path THEN 404 ELSE IF Guard(q) # 0 THEN Guard(q)
                   ELSE IF ~ q.size THEN 413 ELSE 0
    IN  /\ Http /\ q.verb = "POST"
        /\ q.header \in announced \cup {Absent, Bogus}
        /\ Make(r, q)
        /\ IF refused # 0 THEN Finish(r, refused)
           ELSE stage' = [stage EXCEPT ![r] = "admitted"] /\ UNCHANGED status
        /\ UNCHANGED <<Kept, sessions, announced, ended>>

(* _peek_method: of a frame that is one object, whatever else is wrong.    *)
Peek(body) ==
    IF body.parses /\ ~ body.batch /\ body.elements[1].object
    THEN body.elements[1].method ELSE Absent

NewSession(r) ==
    LET s == Cardinality({p \in Requests : assigned[p]}) + 1
    IN  /\ s \in Sids
        /\ sessions' = sessions \cup {s}
        /\ key' = [key EXCEPT ![r] = s]
        /\ assigned' = [assigned EXCEPT ![r] = TRUE]

(* Faulty: any id will do.                                                 *)
MutKnownSession(k) == k # Absent

KnownSession(k) == k \in sessions

(* The session is looked up or given out.                                  *)
FindSession(r) ==
    LET refused == IF ~ config.strict THEN 0 ELSE IF req[r].header = Absent THEN 400
                   ELSE IF ~ KnownSession(req[r].header) THEN 404 ELSE 0
        goOn == stage' = [stage EXCEPT ![r] = "checking"] /\ UNCHANGED status
    IN  /\ stage[r] = "admitted"
        /\ IF Peek(req[r].body) = "initialize"
           THEN NewSession(r) /\ goOn
           ELSE /\ UNCHANGED <<sessions, assigned>>
                /\ key' = [key EXCEPT ![r] = req[r].header]
                /\ IF refused # 0 THEN Finish(r, refused) ELSE goOn
        /\ UNCHANGED <<config, ready, req, done, responses, announced, opened, ended, late, served>>

(* The protocol version is looked at after the session was made.           *)
CheckVersion(r) ==
    /\ stage[r] = "checking"
    /\ IF req[r].version
       THEN stage' = [stage EXCEPT ![r] = "dispatching"] /\ UNCHANGED status
       ELSE Finish(r, 400)
    /\ UNCHANGED <<Kept, sessions, req, announced, ended, late>>

(* dispatch returns: nothing to say is a 202, on stdio not even that.      *)
Return(r) ==
    /\ stage[r] = "dispatching"
    /\ done[r] = Len(Batch(r))
    /\ responses' = [responses EXCEPT ![r] = Replies(r)]
    /\ Finish(r, IF Replies(r) = <<>> THEN 202 ELSE 200)
    /\ announced' = IF assigned[r] THEN announced \cup {key[r]} ELSE announced
    /\ UNCHANGED <<config, sessions, ready, req, key, assigned, done, opened, ended, late, served>>

(* do_DELETE: the session is dropped; it stays among the ready ones.       *)
Delete(r, q) ==
    /\ Http /\ q.verb = "DELETE"
    /\ q.header \in announced \cup {Absent, Bogus}
    /\ Make(r, q)
    /\ IF q.path /\ Guard(q) = 0 /\ KnownSession(q.header)
       THEN /\ sessions' = sessions \ {q.header}
            /\ ended' = ended \cup {q.header}
            /\ Finish(r, 200)
       ELSE /\ UNCHANGED <<sessions, ended>>
            /\ Finish(r, IF q.path /\ Guard(q) # 0 THEN Guard(q) ELSE 404)
    /\ UNCHANGED <<Kept, announced>>

(* do_GET and do_OPTIONS do nothing.                                       *)
Get(r, q) ==
    /\ Http /\ q.verb = "GET"
    /\ Make(r, q)
    /\ Finish(r, IF q.path THEN 405 ELSE 404)
    /\ UNCHANGED <<Kept, sessions, announced, ended>>

Options(r, q) ==
    /\ Http /\ q.verb = "OPTIONS"
    /\ Make(r, q)
    /\ Finish(r, 204)
    /\ UNCHANGED <<Kept, sessions, announced, ended>>

-----------------------------------------------------------------------------
(* The stdio transport: one line after the other, all of one session.      *)

ReadLine(r, q) ==
    /\ ~ Http /\ q.verb = "POST" /\ q.header = Stdio
    /\ \A p \in Requests : stage[p] \in {"idle", "done"}
    /\ Make(r, q)
    /\ key' = [key EXCEPT ![r] = Stdio]
    /\ stage' = [stage EXCEPT ![r] = "dispatching"]
    /\ UNCHANGED <<config, sessions, ready, assigned, done, responses, status,
                   announced, opened, ended, served>>

-----------------------------------------------------------------------------

Next ==
    \E r \in Requests :
        \/ /\ stage[r] = "idle" /\ \A p \in 1 .. r - 1 : stage[p] # "idle"
           /\ \E q \in Offers : Post(r, q) \/ Delete(r, q) \/ Get(r, q) \/ Options(r, q)
                                \/ ReadLine(r, q)
        \/ FindSession(r) \/ CheckVersion(r) \/ DispatchOne(r) \/ Return(r)

Spec == Init /\ [][Next]_vars

-----------------------------------------------------------------------------
(* Properties.                                                             *)

(* What JSON-RPC has an answer due for.  A notification method gets none,  *)
(* although its id should have one.                                        *)
Due(e) ==
    \/ ~ WellFormed(e)
    \/ e.id # Absent /\ e.method \notin Notifications

DuePlaces(r, n) == {i \in 1 .. n : Due(Batch(r)[i])}

(* There is an answer for each of the first n elements that has one due,   *)
(* in their order and under their ids.                                     *)
Collected(r, n) ==
    /\ Len(responses[r]) = Cardinality(DuePlaces(r, n))
    /\ \A i \in DuePlaces(r, n) :
          responses[r][Cardinality(DuePlaces(r, i))][1] = SafeId(Batch(r)[i])

(* A request is answered with what is due for its elements, and one that   *)
(* is refused has had no effect but a session that nobody was told.        *)
AnsweredOnce ==
    \A r \in Requests : stage[r] = "done" /\ req[r].verb = "POST" =>
        IF status[r] \in {200, 202}
        THEN /\ (status[r] = 202) <=> (responses[r] = <<>>)
             /\ IF ~ req[r].body.parses \/ Batch(r) = <<>>
                THEN Len(responses[r]) = 1 /\ responses[r][1][1] = "null"
                ELSE Collected(r, Len(Batch(r)))
        ELSE /\ responses[r] = <<>> /\ done[r] = 0
             /\ assigned[r] => key[r] \notin announced

(* Only what is said in a session whose client has said it is initialized  *)
(* gets past the gate, and where sessions are required, only in one that   *)
(* this server gave out for an initialize and had not ended before.        *)
ServedInSession ==
    \A r \in Requests : (\E i \in 1 .. done[r] : <<r, i>> \in served) =>
        /\ key[r] \in opened
        /\ Http /\ config.strict =>
            /\ \E p \in Requests : assigned[p] /\ key[p] = key[r] /\ Peek(req[p].body) = "initialize"
            /\ key[r] \notin late[r]
=============================================================================
