------------------------ MODULE WorkerClientProofs ------------------------
(* Theorems about WorkerClient.                                            *)
EXTENDS WorkerClient, TLAPS

(* Which request may be in flight at which stage.  A request that a failed *)
(* call left behind is only a frame if the caller does not know its fate.  *)
RequestByStage(c) ==
    /\ request[c] # NoRequest =>
          \/ Posting(c) /\ request[c].kind = Posts(c)
          \/ stage[c] = "done" /\ result[c] = "lost" /\ request[c].kind = "frame"
          \/ stage[c] = "done" /\ result[c] = "refused" /\ request[c].kind # "frame"
    /\ /\ request[c] # NoRequest
       /\ \/ request[c].kind = "initialize" /\ request[c].reply = "ok"
          \/ request[c].kind = "initialized"
       => request[c].id \in Ids

(* How often the frame has run, told from the client's side of the wire.   *)
RunsByStage(c) ==
    IF request[c] # NoRequest /\ request[c].kind = "frame"
    THEN /\ request[c].reply = "ok" => runs[c] = 1
         /\ request[c].reply # "ok" => runs[c] = 0
    ELSE /\ result[c] = "ok" => runs[c] = 1
         /\ result[c] # "ok" => runs[c] = 0

ResultByStage(c) == result[c] = "none" <=> stage[c] # "done"

(* An id is held from the moment the worker assigned it.                   *)
SessionByStage(c) == stage[c] \in {"store", "initialized"} => session[c] \in Ids

IInv ==
    /\ TypeOK
    /\ \A c \in Calls : RequestByStage(c)
    /\ \A c \in Calls : RunsByStage(c)
    /\ \A c \in Calls : ResultByStage(c)
    /\ \A c \in Calls : SessionByStage(c)

---------------------------------------------------------------------------
USE DEF Stages, Results, Kinds, Replies, Requests, server, Posting, Posts

LEMMA InitIInv == Init => IInv
<1> SUFFICES ASSUME Init PROVE IInv
  OBVIOUS
<1>1. TypeOK
  BY ClientAssumption DEF Init, TypeOK, Incarnations
<1>2. \A c \in Calls : RequestByStage(c)
  BY DEF Init, RequestByStage
<1>3. \A c \in Calls : RunsByStage(c) /\ ResultByStage(c) /\ SessionByStage(c)
  BY DEF Init, RunsByStage, ResultByStage, SessionByStage
<1>4. QED
  BY <1>1, <1>2, <1>3 DEF IInv

(* What a reply changes.                                                   *)
LEMMA Replying ==
    ASSUME TypeOK, NEW c \in Calls, request[c] # NoRequest,
           NEW r \in Replies, Reply(c, r)
    PROVE  /\ request' \in [Calls -> Requests \cup {NoRequest}]
           /\ request'[c] # NoRequest
           /\ request'[c] = [request[c] EXCEPT !.reply = r]
           /\ request'[c].kind = request[c].kind
           /\ request'[c].id = request[c].id
           /\ request'[c].reply = r
           /\ \A d \in Calls \ {c} : request'[d] = request[d]
<1>1. request[c] \in Requests
  BY DEF TypeOK
<1>2. [request[c] EXCEPT !.reply = r] \in Requests
  BY <1>1
<1>3. request'[c] = [request[c] EXCEPT !.reply = r]
  BY DEF Reply, TypeOK
<1>4. QED
  BY <1>1, <1>2, <1>3, NoRequestAssumption DEF Reply, TypeOK

LEMMA BeginKeeps ==
    ASSUME IInv, NEW c \in Calls, Begin(c)
    PROVE  IInv'
<1>1. TypeOK'
  <2>1. PICK i \in 1 .. incarnation : addressee' = [addressee EXCEPT ![c] = i]
    BY DEF Begin
  <2>2. i \in Incarnations
    <3>1. MaxIncarnation \in Nat /\ incarnation \in 1 .. MaxIncarnation
      BY ClientAssumption DEF IInv, TypeOK, Incarnations
    <3>2. QED
      BY <3>1, <2>1 DEF Incarnations
  <2>3. addressee' \in [Calls -> Incarnations]
    BY <2>1, <2>2 DEF IInv, TypeOK
  <2>4. QED
    BY <2>3 DEF IInv, TypeOK, Begin
<1>2. \A d \in Calls : RequestByStage(d)'
  BY NoRequestAssumption
  DEF IInv, TypeOK, RequestByStage, SessionByStage, ResultByStage, Begin
<1>3. \A d \in Calls : RunsByStage(d)'
  BY NoRequestAssumption
  DEF IInv, TypeOK, RequestByStage, RunsByStage, ResultByStage, Begin
<1>4. \A d \in Calls : ResultByStage(d)' /\ SessionByStage(d)'
  BY NoRequestAssumption
  DEF IInv, TypeOK, RequestByStage, ResultByStage, SessionByStage, Begin
<1>5. QED
  BY <1>1, <1>2, <1>3, <1>4 DEF IInv

LEMMA LookKeeps ==
    ASSUME IInv, NEW c \in Calls, Look(c)
    PROVE  IInv'
<1>1. TypeOK'
  BY ClientAssumption, NoRequestAssumption
  DEF IInv, TypeOK, RequestByStage, SessionByStage, Look, Incarnations, Ids
<1>2. \A d \in Calls : RequestByStage(d)'
  BY NoRequestAssumption
  DEF IInv, TypeOK, RequestByStage, SessionByStage, ResultByStage, Look
<1>3. \A d \in Calls : RunsByStage(d)'
  BY NoRequestAssumption
  DEF IInv, TypeOK, RequestByStage, RunsByStage, ResultByStage, Look
<1>4. \A d \in Calls : ResultByStage(d)' /\ SessionByStage(d)'
  BY NoRequestAssumption
  DEF IInv, TypeOK, RequestByStage, ResultByStage, SessionByStage, Look
<1>5. QED
  BY <1>1, <1>2, <1>3, <1>4 DEF IInv

LEMMA EnsureKeeps ==
    ASSUME IInv, NEW c \in Calls, Ensure(c)
    PROVE  IInv'
<1>1. TypeOK'
  BY ClientAssumption, NoRequestAssumption
  DEF IInv, TypeOK, RequestByStage, SessionByStage, Ensure, Incarnations, Ids
<1>2. \A d \in Calls : RequestByStage(d)'
  BY NoRequestAssumption
  DEF IInv, TypeOK, RequestByStage, SessionByStage, ResultByStage, Ensure
<1>3. \A d \in Calls : RunsByStage(d)'
  BY NoRequestAssumption
  DEF IInv, TypeOK, RequestByStage, RunsByStage, ResultByStage, Ensure
<1>4. \A d \in Calls : ResultByStage(d)' /\ SessionByStage(d)'
  BY NoRequestAssumption
  DEF IInv, TypeOK, RequestByStage, ResultByStage, SessionByStage, Ensure
<1>5. QED
  BY <1>1, <1>2, <1>3, <1>4 DEF IInv

LEMMA ConnectKeeps ==
    ASSUME IInv, NEW c \in Calls, Connect(c)
    PROVE  IInv'
<1>1. TypeOK'
  BY ClientAssumption, NoRequestAssumption
  DEF IInv, TypeOK, RequestByStage, SessionByStage, Connect, Incarnations, Ids
<1>2. \A d \in Calls : RequestByStage(d)'
  BY NoRequestAssumption
  DEF IInv, TypeOK, RequestByStage, SessionByStage, ResultByStage, Connect
<1>3. \A d \in Calls : RunsByStage(d)'
  BY NoRequestAssumption
  DEF IInv, TypeOK, RequestByStage, RunsByStage, ResultByStage, Connect
<1>4. \A d \in Calls : ResultByStage(d)' /\ SessionByStage(d)'
  BY NoRequestAssumption
  DEF IInv, TypeOK, RequestByStage, ResultByStage, SessionByStage, Connect
<1>5. QED
  BY <1>1, <1>2, <1>3, <1>4 DEF IInv

LEMMA RefusedKeeps ==
    ASSUME IInv, NEW c \in Calls, Refused(c)
    PROVE  IInv'
<1>1. TypeOK'
  BY ClientAssumption, NoRequestAssumption
  DEF IInv, TypeOK, RequestByStage, SessionByStage, Refused, Finish, Incarnations, Ids
<1>2. \A d \in Calls : RequestByStage(d)'
  BY NoRequestAssumption
  DEF IInv, TypeOK, RequestByStage, SessionByStage, ResultByStage, Refused, Finish
<1>3. \A d \in Calls : RunsByStage(d)'
  BY NoRequestAssumption
  DEF IInv, TypeOK, RequestByStage, RunsByStage, ResultByStage, Refused, Finish
<1>4. \A d \in Calls : ResultByStage(d)' /\ SessionByStage(d)'
  BY NoRequestAssumption
  DEF IInv, TypeOK, RequestByStage, ResultByStage, SessionByStage, Refused, Finish
<1>5. QED
  BY <1>1, <1>2, <1>3, <1>4 DEF IInv

LEMMA FailKeeps ==
    ASSUME IInv, NEW c \in Calls, Fail(c)
    PROVE  IInv'
<1>1. TypeOK'
  BY ClientAssumption, NoRequestAssumption
  DEF IInv, TypeOK, RequestByStage, SessionByStage, Fail, Finish, Incarnations, Ids
<1>2. \A d \in Calls : RequestByStage(d)'
  BY NoRequestAssumption
  DEF IInv, TypeOK, RequestByStage, SessionByStage, ResultByStage, Fail, Finish
<1>3. \A d \in Calls : RunsByStage(d)'
  BY NoRequestAssumption
  DEF IInv, TypeOK, RequestByStage, RunsByStage, ResultByStage, Fail, Finish
<1>4. \A d \in Calls : ResultByStage(d)' /\ SessionByStage(d)'
  BY NoRequestAssumption
  DEF IInv, TypeOK, RequestByStage, ResultByStage, SessionByStage, Fail, Finish
<1>5. QED
  BY <1>1, <1>2, <1>3, <1>4 DEF IInv

LEMMA InitializedKeeps ==
    ASSUME IInv, NEW c \in Calls, Initialized(c)
    PROVE  IInv'
<1>1. TypeOK'
  BY ClientAssumption, NoRequestAssumption
  DEF IInv, TypeOK, RequestByStage, SessionByStage, Initialized, Replied, Incarnations, Ids
<1>2. \A d \in Calls : RequestByStage(d)'
  BY NoRequestAssumption
  DEF IInv, TypeOK, RequestByStage, SessionByStage, ResultByStage, Initialized, Replied
<1>3. \A d \in Calls : RunsByStage(d)'
  BY NoRequestAssumption
  DEF IInv, TypeOK, RequestByStage, RunsByStage, ResultByStage, Initialized, Replied
<1>4. \A d \in Calls : ResultByStage(d)' /\ SessionByStage(d)'
  BY NoRequestAssumption
  DEF IInv, TypeOK, RequestByStage, ResultByStage, SessionByStage, Initialized, Replied
<1>5. QED
  BY <1>1, <1>2, <1>3, <1>4 DEF IInv

LEMMA AcknowledgedKeeps ==
    ASSUME IInv, NEW c \in Calls, Acknowledged(c)
    PROVE  IInv'
<1>1. TypeOK'
  BY ClientAssumption, NoRequestAssumption
  DEF IInv, TypeOK, RequestByStage, SessionByStage, Acknowledged, Replied, Incarnations, Ids
<1>2. \A d \in Calls : RequestByStage(d)'
  BY NoRequestAssumption
  DEF IInv, TypeOK, RequestByStage, SessionByStage, ResultByStage, Acknowledged, Replied
<1>3. \A d \in Calls : RunsByStage(d)'
  BY NoRequestAssumption
  DEF IInv, TypeOK, RequestByStage, RunsByStage, ResultByStage, Acknowledged, Replied
<1>4. \A d \in Calls : ResultByStage(d)' /\ SessionByStage(d)'
  BY NoRequestAssumption
  DEF IInv, TypeOK, RequestByStage, ResultByStage, SessionByStage, Acknowledged, Replied
<1>5. QED
  BY <1>1, <1>2, <1>3, <1>4 DEF IInv

LEMMA AnsweredKeeps ==
    ASSUME IInv, NEW c \in Calls, Answered(c)
    PROVE  IInv'
<1>1. TypeOK'
  BY ClientAssumption, NoRequestAssumption
  DEF IInv, TypeOK, RequestByStage, SessionByStage, Answered, Replied, Finish, Incarnations, Ids
<1>2. \A d \in Calls : RequestByStage(d)'
  BY NoRequestAssumption
  DEF IInv, TypeOK, RequestByStage, SessionByStage, ResultByStage, Answered, Replied, Finish
<1>3. \A d \in Calls : RunsByStage(d)'
  BY NoRequestAssumption
  DEF IInv, TypeOK, RequestByStage, RunsByStage, ResultByStage, Answered, Replied, Finish
<1>4. \A d \in Calls : ResultByStage(d)' /\ SessionByStage(d)'
  BY NoRequestAssumption
  DEF IInv, TypeOK, RequestByStage, ResultByStage, SessionByStage, Answered, Replied, Finish
<1>5. QED
  BY <1>1, <1>2, <1>3, <1>4 DEF IInv

LEMMA StaleKeeps ==
    ASSUME IInv, NEW c \in Calls, Stale(c)
    PROVE  IInv'
<1>1. TypeOK'
  BY ClientAssumption, NoRequestAssumption
  DEF IInv, TypeOK, RequestByStage, SessionByStage, Stale, Replied, Incarnations, Ids
<1>2. \A d \in Calls : RequestByStage(d)'
  BY NoRequestAssumption
  DEF IInv, TypeOK, RequestByStage, SessionByStage, ResultByStage, Stale, Replied
<1>3. \A d \in Calls : RunsByStage(d)'
  BY NoRequestAssumption
  DEF IInv, TypeOK, RequestByStage, RunsByStage, ResultByStage, Stale, Replied
<1>4. \A d \in Calls : ResultByStage(d)' /\ SessionByStage(d)'
  BY NoRequestAssumption
  DEF IInv, TypeOK, RequestByStage, ResultByStage, SessionByStage, Stale, Replied
<1>5. QED
  BY <1>1, <1>2, <1>3, <1>4 DEF IInv

LEMMA StoreKeeps ==
    ASSUME IInv, NEW c \in Calls, Store(c)
    PROVE  IInv'
<1>1. TypeOK'
  <2>1. disturbed' \in [Calls -> BOOLEAN]
    BY DEF IInv, TypeOK, Store, Disturb, UnderWay
  <2>2. cached' \in Ids \cup {NoId}
    BY DEF IInv, SessionByStage, Store
  <2>3. QED
    BY <2>1, <2>2 DEF IInv, TypeOK, Store
<1>2. \A d \in Calls : RequestByStage(d)'
  BY DEF IInv, TypeOK, RequestByStage, Store
<1>3. \A d \in Calls : RunsByStage(d)'
  BY DEF IInv, TypeOK, RunsByStage, Store
<1>4. \A d \in Calls : ResultByStage(d)' /\ SessionByStage(d)'
  BY DEF IInv, TypeOK, ResultByStage, SessionByStage, Store
<1>5. QED
  BY <1>1, <1>2, <1>3, <1>4 DEF IInv

LEMMA RejectedKeeps ==
    ASSUME IInv, NEW c \in Calls, Rejected(c)
    PROVE  IInv'
<1>1. /\ Posting(c)
      /\ request[c] # NoRequest
      /\ request[c].reply # "ok"
      /\ request' = [request EXCEPT ![c] = NoRequest]
      /\ Finish(c, "refused")
      /\ UNCHANGED <<server, cached, attempt, addressee, wasCached, session,
                     runs, disturbed>>
  BY DEF Rejected, Replied
<1>2. TypeOK'
  BY <1>1 DEF IInv, TypeOK, Finish
<1>3. \A d \in Calls : RequestByStage(d)'
  BY <1>1 DEF IInv, TypeOK, RequestByStage, Finish
<1>4. \A d \in Calls : RunsByStage(d)'
  BY <1>1 DEF IInv, TypeOK, RequestByStage, RunsByStage, ResultByStage, Finish
<1>5. \A d \in Calls : ResultByStage(d)' /\ SessionByStage(d)'
  BY <1>1 DEF IInv, TypeOK, ResultByStage, SessionByStage, Finish
<1>6. QED
  BY <1>2, <1>3, <1>4, <1>5 DEF IInv

LEMMA DropKeeps ==
    ASSUME IInv, NEW c \in Calls, Drop(c)
    PROVE  IInv'
<1>1. /\ stage[c] = "drop"
      /\ cached' = NoId
      /\ UNCHANGED <<server, addressee, wasCached, session, request, runs,
                     disturbed>>
  BY DEF Drop
<1>2. CASE /\ attempt' = [attempt EXCEPT ![c] = 1]
           /\ stage' = [stage EXCEPT ![c] = "look"]
           /\ UNCHANGED result
  <2>1. TypeOK'
    BY <1>1, <1>2 DEF IInv, TypeOK
  <2>2. \A d \in Calls : RequestByStage(d)'
    BY <1>1, <1>2 DEF IInv, TypeOK, RequestByStage
  <2>3. \A d \in Calls : RunsByStage(d)' /\ ResultByStage(d)' /\ SessionByStage(d)'
    BY <1>1, <1>2
    DEF IInv, TypeOK, RunsByStage, ResultByStage, SessionByStage
  <2>4. QED
    BY <2>1, <2>2, <2>3 DEF IInv
<1>3. CASE Finish(c, "stale") /\ UNCHANGED attempt
  <2>1. TypeOK'
    BY <1>1, <1>3 DEF IInv, TypeOK, Finish
  <2>2. \A d \in Calls : RequestByStage(d)'
    BY <1>1, <1>3 DEF IInv, TypeOK, RequestByStage, Finish
  <2>3. \A d \in Calls : RunsByStage(d)' /\ ResultByStage(d)' /\ SessionByStage(d)'
    BY <1>1, <1>3
    DEF IInv, TypeOK, RequestByStage, RunsByStage, ResultByStage, SessionByStage, Finish
  <2>4. QED
    BY <2>1, <2>2, <2>3 DEF IInv
<1>4. QED
  BY <1>2, <1>3 DEF Drop

(* A reply that is not the run of a frame disturbs nothing the client      *)
(* knows.                                                                  *)
LEMMA ReplyKeeps ==
    ASSUME IInv, NEW c \in Calls, request[c] # NoRequest, NEW r \in Replies,
           request[c].reply = "none", Reply(c, r),
           request[c].kind = "initialize" => r # "ok",
           UNCHANGED <<cached, stage, attempt, addressee, wasCached, session, result>>
    PROVE  /\ \A d \in Calls : RequestByStage(d)'
           /\ \A d \in Calls : ResultByStage(d)' /\ SessionByStage(d)'
           /\ UNCHANGED runs /\ (request[c].kind = "frame" => r # "ok")
                 => \A d \in Calls : RunsByStage(d)'
<1>1. /\ request'[c] # NoRequest
      /\ request'[c].kind = request[c].kind
      /\ request'[c].id = request[c].id
      /\ request'[c].reply = r
      /\ \A d \in Calls \ {c} : request'[d] = request[d]
  BY Replying DEF IInv
<1>2. ASSUME NEW d \in Calls PROVE RequestByStage(d)'
  <2>1. CASE d = c
    BY <1>1, <2>1 DEF IInv, RequestByStage
  <2>2. CASE d # c
    BY <1>1, <2>2 DEF IInv, RequestByStage
  <2>3. QED
    BY <2>1, <2>2
<1>3. \A d \in Calls : ResultByStage(d)' /\ SessionByStage(d)'
  BY DEF IInv, ResultByStage, SessionByStage
<1>4. ASSUME UNCHANGED runs, request[c].kind = "frame" => r # "ok",
             NEW d \in Calls
      PROVE  RunsByStage(d)'
  <2>1. CASE d = c
    BY <1>1, <1>4, <2>1 DEF IInv, RunsByStage
  <2>2. CASE d # c
    BY <1>1, <1>4, <2>2 DEF IInv, RunsByStage
  <2>3. QED
    BY <2>1, <2>2
<1>5. QED
  BY <1>2, <1>3, <1>4

LEMMA ServeRefusalKeeps ==
    ASSUME IInv, NEW c \in Calls, ServeRefusal(c)
    PROVE  IInv'
<1>1. /\ Reply(c, "unauthorized")
      /\ request[c] # NoRequest
      /\ request[c].reply = "none"
      /\ UNCHANGED <<server, cached, stage, attempt, addressee, wasCached, session,
                     result, runs, disturbed>>
  BY DEF ServeRefusal, Arrived
<1>2. TypeOK'
  <2>1. request' \in [Calls -> Requests \cup {NoRequest}]
    BY <1>1, Replying DEF IInv
  <2>2. QED
    BY <1>1, <2>1 DEF IInv, TypeOK
<1>3. QED
  BY <1>1, <1>2, ReplyKeeps DEF IInv

LEMMA ServeInitializeKeeps ==
    ASSUME IInv, NEW c \in Calls, ServeInitialize(c)
    PROVE  IInv'
<1> DEFINE id == [inc |-> incarnation, call |-> c, attempt |-> attempt[c]]
           r == [request[c] EXCEPT !.reply = "ok", !.id = id]
<1>1. /\ request[c] \in Requests
      /\ request[c].kind = "initialize"
      /\ known' = known \cup {id}
      /\ request' = [request EXCEPT ![c] = r]
      /\ UNCHANGED <<incarnation, alive, ready, cached, stage, attempt, addressee,
                     wasCached, session, result, runs, disturbed>>
  BY DEF ServeInitialize, Arrived, IInv, TypeOK
<1>2. id \in Ids
  BY DEF IInv, TypeOK, Ids
<1> HIDE DEF id
<1>3. r \in Requests /\ r.kind = "initialize" /\ r.id = id
  BY <1>1, <1>2
<1> HIDE DEF r
<1>4. TypeOK'
  BY <1>1, <1>2, <1>3 DEF IInv, TypeOK
<1>5. \A d \in Calls : RequestByStage(d)'
  BY <1>1, <1>2, <1>3, NoRequestAssumption DEF IInv, TypeOK, RequestByStage
<1>6. \A d \in Calls : RunsByStage(d)'
  BY <1>1, <1>3, NoRequestAssumption DEF IInv, TypeOK, RunsByStage
<1>7. \A d \in Calls : ResultByStage(d)' /\ SessionByStage(d)'
  BY <1>1 DEF IInv, ResultByStage, SessionByStage
<1>8. QED
  BY <1>4, <1>5, <1>6, <1>7 DEF IInv

LEMMA ServeInitializedKeeps ==
    ASSUME IInv, NEW c \in Calls, ServeInitialized(c)
    PROVE  IInv'
<1>1. /\ request[c] # NoRequest
      /\ request[c].kind = "initialized"
      /\ request[c].reply = "none"
      /\ ready' = ready \cup {request[c].id}
      /\ Reply(c, "ok")
      /\ UNCHANGED <<incarnation, alive, known, cached, stage, attempt, addressee,
                     wasCached, session, result, runs, disturbed>>
  BY DEF ServeInitialized, Arrived
<1>2. TypeOK'
  <2>1. request' \in [Calls -> Requests \cup {NoRequest}]
    BY <1>1, Replying DEF IInv
  <2>2. request[c].id \in Ids
    BY <1>1 DEF IInv, RequestByStage
  <2>3. QED
    BY <1>1, <2>1, <2>2 DEF IInv, TypeOK
<1>3. QED
  BY <1>1, <1>2, ReplyKeeps DEF IInv

(* The one step in which a frame runs: the request is unanswered, so it    *)
(* has not run before.                                                     *)
LEMMA ServeFrameKeeps ==
    ASSUME IInv, NEW c \in Calls, ServeFrame(c)
    PROVE  IInv'
<1>1. /\ request[c] # NoRequest
      /\ request[c].kind = "frame"
      /\ request[c].reply = "none"
      /\ UNCHANGED <<server, cached, stage, attempt, addressee, wasCached, session,
                     result, disturbed>>
  BY DEF ServeFrame, Arrived
<1>2. runs[c] = 0
  BY <1>1 DEF IInv, RunsByStage
<1>3. CASE Gate(c)
  <2>1. Reply(c, "ok") /\ runs' = [runs EXCEPT ![c] = 1]
    <3>1. Reply(c, "ok") /\ runs' = [runs EXCEPT ![c] = runs[c] + 1]
      BY <1>3 DEF ServeFrame
    <3>2. QED
      BY <3>1, <1>2
  <2>2. request' \in [Calls -> Requests \cup {NoRequest}]
    BY <1>1, <2>1, Replying DEF IInv
  <2>3. TypeOK'
    BY <1>1, <2>1, <2>2 DEF IInv, TypeOK
  <2>4. ASSUME NEW d \in Calls PROVE RunsByStage(d)'
    <3>1. /\ request'[c] # NoRequest
          /\ request'[c].kind = "frame"
          /\ request'[c].reply = "ok"
          /\ \A e \in Calls \ {c} : request'[e] = request[e]
      BY <1>1, <2>1, Replying DEF IInv
    <3>2. runs'[c] = 1 /\ \A e \in Calls \ {c} : runs'[e] = runs[e]
      BY <2>1 DEF IInv, TypeOK
    <3>3. QED
      BY <1>1, <3>1, <3>2 DEF IInv, RunsByStage
  <2>5. QED
    BY <1>1, <2>1, <2>3, <2>4, ReplyKeeps DEF IInv
<1>4. CASE ~Gate(c)
  <2>1. Reply(c, "not initialized") /\ UNCHANGED runs
    BY <1>4 DEF ServeFrame
  <2>2. request' \in [Calls -> Requests \cup {NoRequest}]
    BY <1>1, <2>1, Replying DEF IInv
  <2>3. TypeOK'
    BY <1>1, <2>1, <2>2 DEF IInv, TypeOK
  <2>4. QED
    BY <1>1, <2>1, <2>3, ReplyKeeps DEF IInv
<1>5. QED
  BY <1>3, <1>4

LEMMA StopKeeps == IInv /\ Stop => IInv'
<1> SUFFICES ASSUME IInv, Stop PROVE IInv'
  OBVIOUS
<1>1. TypeOK'
  <2>1. disturbed' \in [Calls -> BOOLEAN]
    BY DEF Stop, Disturb, UnderWay, IInv, TypeOK
  <2>2. QED
    BY <2>1 DEF Stop, IInv, TypeOK
<1>2. QED
  BY <1>1
  DEF Stop, IInv, RequestByStage, RunsByStage, ResultByStage, SessionByStage

LEMMA StartKeeps == IInv /\ Start => IInv'
<1> SUFFICES ASSUME IInv, Start PROVE IInv'
  OBVIOUS
<1>1. TypeOK'
  <2>1. incarnation' \in Incarnations
    <3>1. MaxIncarnation \in Nat /\ incarnation \in 1 .. MaxIncarnation
      BY ClientAssumption DEF IInv, TypeOK, Incarnations
    <3>2. QED
      BY <3>1 DEF Start, Incarnations
  <2>2. QED
    BY <2>1 DEF Start, IInv, TypeOK
<1>2. QED
  BY <1>1
  DEF Start, IInv, RequestByStage, RunsByStage, ResultByStage, SessionByStage

LEMMA StutterKeeps == IInv /\ UNCHANGED vars => IInv'
BY DEF IInv, TypeOK, RequestByStage, RunsByStage, ResultByStage, SessionByStage, vars

LEMMA NextKeeps == IInv /\ [Next]_vars => IInv'
<1> SUFFICES ASSUME IInv, [Next]_vars PROVE IInv'
  OBVIOUS
<1>1. ASSUME NEW c \in Calls, Client(c) PROVE IInv'
  BY <1>1, LookKeeps, EnsureKeeps, ConnectKeeps, RefusedKeeps, FailKeeps,
     InitializedKeeps, AcknowledgedKeeps, StoreKeeps, AnsweredKeeps, RejectedKeeps,
     StaleKeeps, DropKeeps
  DEF Client
<1>2. ASSUME NEW c \in Calls, Worker(c) PROVE IInv'
  BY <1>2, ServeRefusalKeeps, ServeInitializeKeeps, ServeInitializedKeeps,
     ServeFrameKeeps
  DEF Worker
<1>3. QED
  BY <1>1, <1>2, BeginKeeps, StopKeeps, StartKeeps, StutterKeeps DEF Next

LEMMA Invariance == Spec => []IInv
<1>1. QED
  BY InitIInv, NextKeeps, PTL DEF Spec

(* The client and the worker are type correct for every number of calls,   *)
(* restarts and tokens.                                                    *)
THEOREM ClientTypeOK == Spec => []TypeOK
<1>1. IInv => TypeOK
  BY DEF IInv
<1>2. QED
  BY <1>1, Invariance, PTL

---------------------------------------------------------------------------
(* The refinement: what a step of a call means to its caller.              *)

phase == [c \in Calls |-> Phase(c)]

LEMMA PhaseIdle ==
    ASSUME IInv, NEW c \in Calls, stage[c] = "idle" PROVE phase[c] = "idle"
BY DEF IInv, ResultByStage, phase, Phase

LEMMA PhaseOpen ==
    ASSUME IInv, NEW c \in Calls, UnderWay(c) PROVE phase[c] = "open"
BY DEF IInv, TypeOK, ResultByStage, UnderWay, phase, Phase

LEMMA PhaseLost ==
    ASSUME NEW c \in Calls, stage[c] = "done", result[c] = "lost"
    PROVE  phase[c] = "unknown"
BY DEF phase, Phase

(* A step inside the call is not seen.                                     *)
LEMMA Silent ==
    ASSUME IInv, NEW c \in Calls, UnderWay(c),
           NEW s \in Stages \ {"idle", "done"}, stage' = [stage EXCEPT ![c] = s],
           UNCHANGED result
    PROVE  phase' = phase
<1>1. ASSUME NEW d \in Calls PROVE Phase(d)' = Phase(d)
  <2>1. CASE d = c
    <3>1. result[c] = "none"
      BY DEF IInv, ResultByStage, UnderWay
    <3>2. stage'[c] = s
      BY DEF IInv, TypeOK
    <3>3. QED
      BY <2>1, <3>1, <3>2 DEF Phase, UnderWay
  <2>2. CASE d # c
    BY <2>2 DEF IInv, TypeOK, Phase
  <2>3. QED
    BY <2>1, <2>2
<1>2. QED
  BY <1>1 DEF phase

(* The return of the call, and what it tells.                              *)
Outcome(how) ==
    CASE how = "ok" -> "answered"
      [] how \in {"refused", "stale"} -> "refused"
      [] how = "lost" -> "unknown"

LEMMA Returning ==
    ASSUME IInv, NEW c \in Calls, UnderWay(c),
           NEW how \in {"ok", "refused", "stale", "lost"}, Finish(c, how)
    PROVE  phase' = [phase EXCEPT ![c] = Outcome(how)]
<1>1. ASSUME NEW d \in Calls, d # c PROVE Phase(d)' = Phase(d)
  BY <1>1 DEF IInv, TypeOK, Phase, Finish
<1>2. Phase(c)' = Outcome(how)
  <2>1. stage'[c] = "done" /\ result'[c] = how
    BY DEF IInv, TypeOK, Finish
  <2>2. QED
    BY <2>1 DEF Phase, Outcome
<1>3. QED
  BY <1>1, <1>2 DEF phase

LEMMA RefuseStep ==
    ASSUME IInv, NEW c \in Calls, UnderWay(c), NEW how \in {"refused", "stale"},
           Finish(c, how), UNCHANGED runs, runs[c] = 0
    PROVE  Remote!Refuse(c)
<1>1. phase' = [phase EXCEPT ![c] = "refused"]
  BY Returning DEF Outcome
<1>2. QED
  BY <1>1, PhaseOpen DEF Remote!Refuse, phase

(* Before the frame is posted, and after a rejection of it, it has not run. *)
LEMMA NotRun ==
    ASSUME IInv, NEW c \in Calls, UnderWay(c),
           ~(request[c] # NoRequest /\ request[c].kind = "frame" /\ request[c].reply = "ok")
    PROVE  runs[c] = 0
BY DEF IInv, RunsByStage, ResultByStage, UnderWay

LEMMA ClientRefines ==
    ASSUME IInv, NEW c \in Calls, Client(c), UNCHANGED runs
    PROVE  phase' = phase \/ Remote!Next
<1>1. UnderWay(c)
  BY DEF Client, Look, Ensure, Connect, Refused, Fail, Initialized, Acknowledged, Store,
     Answered, Rejected, Stale, Drop, Replied, UnderWay
<1>2. CASE Look(c)
  BY <1>1, <1>2, Silent DEF Look
<1>3. CASE Ensure(c)
  BY <1>1, <1>3, Silent DEF Ensure
<1>4. CASE Connect(c)
  BY <1>4 DEF Connect, phase, Phase
<1>5. CASE Refused(c)
  <2>1. Finish(c, "refused") /\ request[c] = NoRequest
    BY <1>5 DEF Refused
  <2>2. QED
    BY <1>1, <2>1, NotRun, RefuseStep DEF Remote!Next
<1>6. CASE Fail(c)
  <2>1. CASE stage[c] = "send"
    <3>1. Finish(c, "lost")
      BY <1>6, <2>1 DEF Fail
    <3>2. phase' = [phase EXCEPT ![c] = "unknown"]
      BY <1>1, <3>1, Returning DEF Outcome
    <3>3. Remote!GiveUp(c)
      BY <1>1, <3>2, PhaseOpen DEF Remote!GiveUp, phase
    <3>4. QED
      BY <3>3 DEF Remote!Next
  <2>2. CASE stage[c] # "send"
    <3>1. Finish(c, "refused") /\ request[c] # NoRequest /\ request[c].kind # "frame"
      BY <1>6, <2>2 DEF Fail, IInv, RequestByStage
    <3>2. QED
      BY <1>1, <3>1, NotRun, RefuseStep DEF Remote!Next
  <2>3. QED
    BY <2>1, <2>2
<1>7. CASE Initialized(c)
  BY <1>1, <1>7, Silent DEF Initialized
<1>8. CASE Acknowledged(c)
  BY <1>1, <1>8, Silent DEF Acknowledged
<1>9. CASE Store(c)
  BY <1>1, <1>9, Silent DEF Store
<1>10. CASE Answered(c)
  <2>1. Finish(c, "ok")
    BY <1>10 DEF Answered
  <2>2. runs[c] = 1
    BY <1>10 DEF Answered, Replied, IInv, RequestByStage, RunsByStage
  <2>3. phase' = [phase EXCEPT ![c] = "answered"]
    BY <1>1, <2>1, Returning DEF Outcome
  <2>4. Remote!Answer(c)
    BY <1>1, <2>2, <2>3, PhaseOpen DEF Remote!Answer, phase
  <2>5. QED
    BY <2>4 DEF Remote!Next
<1>11. CASE Rejected(c)
  <2>1. Finish(c, "refused") /\ request[c].reply # "ok"
    BY <1>11 DEF Rejected, Replied
  <2>2. QED
    BY <1>1, <2>1, NotRun, RefuseStep DEF Remote!Next
<1>12. CASE Stale(c)
  BY <1>1, <1>12, Silent DEF Stale
<1>13. CASE Drop(c)
  <2>1. CASE stage' = [stage EXCEPT ![c] = "look"] /\ UNCHANGED result
    BY <1>1, <2>1, Silent
  <2>2. CASE Finish(c, "stale")
    <3>1. request[c] = NoRequest
      BY <1>13 DEF Drop, IInv, RequestByStage
    <3>2. QED
      BY <1>1, <2>2, <3>1, NotRun, RefuseStep DEF Remote!Next
  <2>3. QED
    BY <1>13, <2>1, <2>2 DEF Drop
<1>14. QED
  BY <1>2, <1>3, <1>4, <1>5, <1>6, <1>7, <1>8, <1>9, <1>10, <1>11, <1>12, <1>13
  DEF Client

LEMMA ServeFrameRefines ==
    ASSUME IInv, NEW c \in Calls, ServeFrame(c)
    PROVE  Remote!Next \/ UNCHANGED <<phase, runs>>
<1>1. phase' = phase
  <2>1. stage' = stage /\ result' = result
    BY DEF ServeFrame
  <2>2. QED
    BY <2>1 DEF phase, Phase
<1>2. CASE Gate(c)
  <2>1. /\ request[c] # NoRequest /\ request[c].kind = "frame"
        /\ request[c].reply = "none"
        /\ runs' = [runs EXCEPT ![c] = runs[c] + 1]
    BY <1>2 DEF ServeFrame, Arrived
  <2>2. runs[c] = 0
    BY <2>1 DEF IInv, RunsByStage
  <2>3. UnderWay(c) \/ (stage[c] = "done" /\ result[c] = "lost")
    BY <2>1 DEF IInv, RequestByStage, UnderWay
  <2>4. phase[c] \in {"open", "unknown"}
    BY <2>3, PhaseOpen, PhaseLost
  <2>5. runs' = [runs EXCEPT ![c] = 1]
    BY <2>1, <2>2
  <2>6. Remote!Run(c)
    BY <1>1, <2>2, <2>4, <2>5 DEF Remote!Run, phase
  <2>7. QED
    BY <2>6 DEF Remote!Next
<1>3. CASE ~Gate(c)
  BY <1>1, <1>3 DEF ServeFrame
<1>4. QED
  BY <1>2, <1>3

LEMMA NextRefines ==
    IInv /\ [Next]_vars => [Remote!Next]_<<phase, runs>>
<1> SUFFICES ASSUME IInv, [Next]_vars PROVE Remote!Next \/ UNCHANGED <<phase, runs>>
  OBVIOUS
<1>1. ASSUME NEW c \in Calls, Begin(c) PROVE Remote!Next
  <2>1. stage[c] = "idle" /\ stage'[c] \in Stages \ {"idle", "done"}
    BY <1>1 DEF Begin, IInv, TypeOK
  <2>2. \A d \in Calls \ {c} : Phase(d)' = Phase(d)
    BY <1>1 DEF Begin, IInv, TypeOK, Phase
  <2>3. Phase(c)' = "open"
    BY <1>1, <2>1 DEF Begin, IInv, ResultByStage, Phase
  <2>4. phase' = [phase EXCEPT ![c] = "open"]
    BY <2>2, <2>3 DEF phase
  <2>5. Remote!Call(c)
    BY <1>1, <2>1, <2>4, PhaseIdle DEF Remote!Call, Begin, phase
  <2>6. QED
    BY <2>5 DEF Remote!Next
<1>2. ASSUME NEW c \in Calls, Client(c) PROVE Remote!Next \/ UNCHANGED <<phase, runs>>
  <2>1. UNCHANGED runs
    BY <1>2 DEF Client, Look, Ensure, Connect, Refused, Fail, Initialized, Acknowledged,
       Store, Answered, Rejected, Stale, Drop
  <2>2. QED
    BY <1>2, <2>1, ClientRefines
<1>3. ASSUME NEW c \in Calls, Worker(c) PROVE Remote!Next \/ UNCHANGED <<phase, runs>>
  <2>1. CASE ServeRefusal(c) \/ ServeInitialize(c) \/ ServeInitialized(c)
    <3>1. stage' = stage /\ result' = result /\ runs' = runs
      BY <2>1 DEF ServeRefusal, ServeInitialize, ServeInitialized
    <3>2. QED
      BY <3>1 DEF phase, Phase
  <2>2. QED
    BY <1>3, <2>1, ServeFrameRefines DEF Worker
<1>4. CASE Stop \/ Start
  BY <1>4 DEF Stop, Start, phase, Phase
<1>5. CASE UNCHANGED vars
  BY <1>5 DEF vars, phase, Phase
<1>6. QED
  BY <1>1, <1>2, <1>3, <1>4, <1>5 DEF Next

(* Every call of forward and ping is a RemoteCall: at most one run, an     *)
(* answer only from a run, a refusal only if it never ran and never will,  *)
(* whatever other calls, restarts and port reuse do in between.            *)
THEOREM ClientImplementsRemoteCall == Spec => ImplementsRemoteCall
<1>1. Init => Remote!Init
  BY DEF Init, Remote!Init, Phase
<1>2. IInv /\ [Next]_vars => [Remote!Next]_<<phase, runs>>
  BY NextRefines
<1>3. QED
  BY <1>1, <1>2, Invariance, PTL DEF Spec, ImplementsRemoteCall, Remote!Spec, phase

---------------------------------------------------------------------------
(* The gate.  Each launch mints a token of its own.                        *)
OwnTokens == \A i, j \in Incarnations : TokenOf[i] = TokenOf[j] => i = j

(* An id that this call was given by the process it is addressed to.  The  *)
(* process that runs still knows it if it is that one.                     *)
Mine(c, id) ==
    /\ id.inc = addressee[c] /\ id.inc <= incarnation
    /\ id.inc = incarnation => id \in known

AskedFor(c) ==
    /\ stage[c] \in {"initialized", "store"} => Mine(c, session[c])
    /\ /\ request[c] # NoRequest
       /\ \/ request[c].kind = "initialize" /\ request[c].reply = "ok"
          \/ request[c].kind = "initialized"
       => Mine(c, request[c].id)

GateInv == ready \subseteq known /\ \A c \in Calls : AskedFor(c)

LEMMA InitGate == Init => GateInv
BY DEF Init, GateInv, AskedFor

(* The client's steps change no process, and hand ids on within a call.    *)
LEMMA ClientKeepsGate ==
    ASSUME IInv, GateInv, NEW c \in Calls, Client(c)
    PROVE  GateInv'
<1>1. /\ UNCHANGED <<incarnation, known, ready, addressee>>
      /\ \A d \in Calls \ {c} : /\ stage'[d] = stage[d] /\ session'[d] = session[d]
                                /\ request'[d] = request[d]
  BY DEF Client, Look, Ensure, Connect, Refused, Fail, Initialized, Acknowledged, Store,
         Answered, Rejected, Stale, Drop, Finish, Replied, IInv, TypeOK
<1>2. \A d \in Calls \ {c} : AskedFor(d)'
  BY <1>1 DEF GateInv, AskedFor, Mine
<1>3. /\ RequestByStage(c) /\ ResultByStage(c)
      /\ AskedFor(c)
  BY DEF IInv, GateInv
<1>4. AskedFor(c)'
  <2>1. CASE Look(c) \/ Ensure(c) \/ Refused(c) \/ Fail(c) \/ Stale(c) \/ Answered(c) \/ Drop(c)
    BY <2>1, <1>1, <1>3 DEF Look, Ensure, Refused, Fail, Stale, Answered, Drop, Finish, Replied,
                            AskedFor, Mine, IInv, TypeOK
  <2>2. CASE Connect(c)
    <3>1. request'[c] = [kind |-> Posts(c), to |-> incarnation, id |-> session[c], reply |-> "none"]
      BY <2>2 DEF Connect, IInv, TypeOK
    <3>2. UNCHANGED <<stage, session>>
      BY <2>2 DEF Connect
    <3>3. QED
      BY <3>1, <3>2, <1>1, <1>3, <2>2 DEF Connect, AskedFor, Mine
  <2>3. CASE Initialized(c)
    <3>1. /\ request[c] # NoRequest /\ request[c].reply = "ok" /\ request[c].kind = "initialize"
          /\ session'[c] = request[c].id /\ request'[c] = NoRequest
      BY <2>3, <1>3 DEF Initialized, Replied, RequestByStage, ResultByStage, IInv, TypeOK
    <3>2. QED
      BY <3>1, <1>1, <1>3 DEF AskedFor, Mine
  <2>4. CASE Acknowledged(c) \/ Store(c)
    <3>1. /\ stage[c] \in {"initialized", "store"} /\ session'[c] = session[c]
          /\ request'[c] \in {request[c], NoRequest}
      BY <2>4 DEF Acknowledged, Store, Replied, IInv, TypeOK
    <3>2. QED
      BY <3>1, <1>1, <1>3 DEF AskedFor, Mine
  <2>5. CASE Rejected(c)
    BY <2>5, <1>1 DEF Rejected, Replied, Finish, AskedFor, IInv, TypeOK
  <2>6. QED
    BY <2>1, <2>2, <2>3, <2>4, <2>5 DEF Client
<1>5. QED
  BY <1>1, <1>2, <1>4 DEF GateInv

(* A reply that assigns nothing adds no id to what a call was given.       *)
LEMMA ReplyKeepsGate ==
    ASSUME IInv, GateInv, NEW c \in Calls, request[c] # NoRequest, NEW r \in Replies,
           Reply(c, r), r = "ok" => request[c].kind # "initialize",
           UNCHANGED <<incarnation, known, stage, addressee, session>>
    PROVE  \A d \in Calls : AskedFor(d)'
<1>1. /\ TypeOK
      /\ \A d \in Calls : AskedFor(d)
  BY DEF IInv, GateInv
<1>2. /\ request'[c].kind = request[c].kind /\ request'[c].id = request[c].id
      /\ request'[c].reply = r
      /\ \A d \in Calls \ {c} : request'[d] = request[d]
  BY <1>1, Replying
<1>3. ASSUME NEW d \in Calls, d # c PROVE AskedFor(d)'
  BY <1>1, <1>2, <1>3 DEF AskedFor, Mine
<1>4. AskedFor(c)'
  BY <1>1, <1>2 DEF AskedFor, Mine
<1>5. QED
  BY <1>3, <1>4

LEMMA IncarnationsAreNumbers ==
    TypeOK => incarnation \in Nat /\ \A c \in Calls : addressee[c] \in Nat
<1> SUFFICES ASSUME TypeOK PROVE incarnation \in Nat /\ \A c \in Calls : addressee[c] \in Nat
  OBVIOUS
<1>1. Incarnations \subseteq Nat
  BY ClientAssumption DEF Incarnations
<1>2. incarnation \in Incarnations /\ addressee \in [Calls -> Incarnations]
  BY DEF TypeOK
<1>3. QED
  BY <1>1, <1>2

LEMMA AuthorizedIsAddressed ==
    ASSUME TypeOK, OwnTokens, NEW c \in Calls, Authorized(c)
    PROVE  addressee[c] = incarnation
BY DEF TypeOK, OwnTokens, Authorized

LEMMA AssignKeepsGate ==
    ASSUME IInv, GateInv, OwnTokens, NEW c \in Calls, ServeInitialize(c)
    PROVE  GateInv'
<1>1. PICK id :
         /\ id.inc = incarnation
         /\ known' = known \cup {id}
         /\ request' = [request EXCEPT ![c].reply = "ok", ![c].id = id]
         /\ UNCHANGED <<incarnation, ready, stage, addressee, session>>
  BY DEF ServeInitialize
<1>2. incarnation \in Nat /\ addressee[c] = incarnation
  BY IncarnationsAreNumbers, AuthorizedIsAddressed DEF ServeInitialize, IInv
<1>3. request[c] \in Requests /\ request \in [Calls -> Requests \cup {NoRequest}]
  BY DEF ServeInitialize, Arrived, IInv, TypeOK
<1>4. request'[c].id = id
  BY <1>1, <1>3 DEF Requests
<1>5. \A d \in Calls \ {c} : request'[d] = request[d]
  BY <1>1, <1>3
<1>6. Mine(c, id)'
  BY <1>1, <1>2 DEF Mine
<1>7. \A d, i : Mine(d, i) => Mine(d, i)'
  BY <1>1 DEF Mine
<1>8. ASSUME NEW d \in Calls, stage'[d] \in {"initialized", "store"}
      PROVE  Mine(d, session[d])'
  <2>1. Mine(d, session[d]) /\ session'[d] = session[d]
    BY <1>1, <1>8 DEF GateInv, AskedFor
  <2>2. QED
    BY <1>7, <2>1
<1>9. ASSUME NEW d \in Calls, request'[d] # NoRequest,
             \/ request'[d].kind = "initialize" /\ request'[d].reply = "ok"
             \/ request'[d].kind = "initialized"
      PROVE  Mine(d, request[d].id)'
  <2>1. CASE d = c
    BY <2>1, <1>4, <1>6
  <2>2. CASE d # c
    <3>1. request'[d] = request[d]
      BY <2>2, <1>5
    <3>2. Mine(d, request[d].id)
      BY <3>1, <1>9 DEF GateInv, AskedFor
    <3>3. QED
      BY <1>7, <3>1, <3>2
  <2>3. QED
    BY <2>1, <2>2
<1>10. QED
  BY <1>1, <1>8, <1>9 DEF GateInv, AskedFor

(* The step that opens the gate: whoever says initialized with the token   *)
(* of this process was given the id by it.                                 *)
LEMMA OpeningKeepsGate ==
    ASSUME IInv, GateInv, OwnTokens, NEW c \in Calls, ServeInitialized(c)
    PROVE  GateInv'
<1>1. /\ request[c] # NoRequest /\ request[c].kind = "initialized"
      /\ ready' = ready \cup {request[c].id} /\ Reply(c, "ok")
      /\ UNCHANGED <<incarnation, known, stage, addressee, session>>
  BY DEF ServeInitialized, Arrived
<1>2. addressee[c] = incarnation
  BY AuthorizedIsAddressed DEF ServeInitialized, IInv
<1>3. request[c].id \in known
  BY <1>1, <1>2 DEF GateInv, AskedFor, Mine
<1>4. QED
  BY <1>1, <1>3, ReplyKeepsGate DEF GateInv

LEMMA WorkerKeepsGate ==
    ASSUME IInv, GateInv, OwnTokens, NEW c \in Calls, Worker(c)
    PROVE  GateInv'
<1>1. CASE ServeRefusal(c)
  BY <1>1, ReplyKeepsGate DEF ServeRefusal, Arrived, GateInv
<1>2. CASE ServeFrame(c)
  <2>1. /\ request[c] # NoRequest /\ request[c].kind = "frame"
        /\ UNCHANGED <<incarnation, known, ready, stage, addressee, session>>
        /\ \/ Reply(c, "ok")
           \/ Reply(c, "not initialized")
    BY <1>2 DEF ServeFrame, Arrived
  <2>2. QED
    BY <2>1, ReplyKeepsGate DEF GateInv
<1>3. QED
  BY <1>1, <1>2, AssignKeepsGate, OpeningKeepsGate DEF Worker

LEMMA GateStep == OwnTokens /\ IInv /\ GateInv /\ [Next]_vars => GateInv'
<1> SUFFICES ASSUME OwnTokens, IInv, GateInv, [Next]_vars PROVE GateInv'
  OBVIOUS
<1>1. ASSUME NEW c \in Calls, Begin(c) PROVE GateInv'
  <2>1. /\ stage[c] = "idle" /\ request[c] = NoRequest
        /\ stage'[c] \notin {"initialized", "store"}
        /\ UNCHANGED <<incarnation, known, ready, session, request>>
        /\ \A d \in Calls \ {c} : stage'[d] = stage[d] /\ addressee'[d] = addressee[d]
    BY <1>1, NoRequestAssumption DEF Begin, IInv, TypeOK, RequestByStage
  <2>2. QED
    BY <2>1 DEF GateInv, AskedFor, Mine
<1>2. CASE Stop
  BY <1>2 DEF Stop, GateInv, AskedFor, Mine
<1>3. CASE Start
  <2>1. /\ incarnation' = incarnation + 1 /\ ready' = {} /\ incarnation \in Nat
        /\ UNCHANGED <<stage, addressee, session, request>>
    BY <1>3, IncarnationsAreNumbers DEF Start, IInv
  <2>2. \A d \in Calls : addressee[d] \in Nat
    BY IncarnationsAreNumbers DEF IInv
  <2>3. QED
    BY <2>1, <2>2 DEF GateInv, AskedFor, Mine
<1>4. CASE UNCHANGED vars
  BY <1>4 DEF vars, GateInv, AskedFor, Mine
<1>5. QED
  BY <1>1, <1>2, <1>3, <1>4, ClientKeepsGate, WorkerKeepsGate DEF Next

(* A session passes the gate of a process only if that process gave it its *)
(* id, for every number of calls and restarts.                             *)
THEOREM ClientReadyWasAssigned == OwnTokens => (Spec => []ReadyWasAssigned)
<1> SUFFICES ASSUME OwnTokens PROVE Spec => []ReadyWasAssigned
  OBVIOUS
<1>1. IInv /\ GateInv /\ [Next]_vars => GateInv'
  BY GateStep
<1>2. GateInv => ReadyWasAssigned
  BY DEF GateInv, ReadyWasAssigned
<1>3. QED
  BY <1>1, <1>2, InitGate, Invariance, PTL DEF Spec

---------------------------------------------------------------------------
(* Stale answers.  A notification that a process acknowledged has made its *)
(* id ready there, and a frame bears the id its call holds.                *)
Opened(c) ==
    /\ /\ request[c] # NoRequest
       /\ request[c].kind = "initialized"
       /\ request[c].reply = "ok"
       /\ request[c].id.inc = incarnation
       => request[c].id \in ready
    /\ stage[c] = "store" /\ session[c].inc = incarnation => session[c] \in ready

Bears(c) == Posting(c) /\ request[c] # NoRequest /\ request[c].kind # "initialize" =>
    request[c].id = session[c]

(* A call that has seen the cache empty, over the process it is addressed  *)
(* to: until a worker stops, every id stored since is ready there.         *)
Watched(c) ==
    /\ UnderWay(c) /\ ~ disturbed[c] /\ c \notin Pings
    /\ alive /\ addressee[c] = incarnation
    /\ attempt[c] = 1 \/ (stage[c] # "look" /\ ~ wasCached[c])

Fresh(c) ==
    /\ addressee[c] <= incarnation
    /\ Watched(c) => /\ cached \in ready \cup {NoId}
                     /\ stage[c] = "send" => session[c] \in ready

(* A rejection is replayed, or there is a reason for it.                   *)
Excused(c) ==
    /\ stage[c] = "idle" => attempt[c] = 0
    /\ \/ stage[c] = "drop"
       \/ stage[c] = "send" /\ request[c] # NoRequest /\ request[c].reply = "not initialized"
       => disturbed[c] \/ (attempt[c] = 0 /\ wasCached[c])
    /\ result[c] = "stale" => disturbed[c]

StaleInv == \A c \in Calls : Opened(c) /\ Bears(c) /\ Fresh(c) /\ Excused(c)

(* Who has no part in a step keeps what it knows, if the ids stored are    *)
(* ready and a worker that stops disturbs it.                              *)
LEMMA OthersKeep ==
    ASSUME NEW d \in Calls, Opened(d), Bears(d), Fresh(d), Excused(d),
           UNCHANGED <<incarnation, alive, stage[d], attempt[d], addressee[d],
                       wasCached[d], session[d], request[d], result[d]>>,
           ready \subseteq ready',
           disturbed[d] => disturbed'[d],
           Watched(d)' => cached' \in ready' \cup {NoId}
    PROVE  Opened(d)' /\ Bears(d)' /\ Fresh(d)' /\ Excused(d)'
<1>1. Opened(d)'
  BY DEF Opened
<1>2. Bears(d)'
  BY DEF Bears
<1>3. Watched(d)' => Watched(d)
  BY DEF Watched, UnderWay
<1>4. Fresh(d)'
  BY <1>3 DEF Fresh
<1>5. Excused(d)'
  BY DEF Excused
<1>6. QED
  BY <1>1, <1>2, <1>4, <1>5

(* No call has begun.                                                      *)
LEMMA InitStale == Init => StaleInv
<1> SUFFICES ASSUME Init, NEW c \in Calls
             PROVE  Opened(c) /\ Bears(c) /\ Fresh(c) /\ Excused(c)
  BY DEF StaleInv
<1>1. stage[c] = "idle" /\ request[c] = NoRequest /\ attempt[c] = 0 /\ result[c] = "none"
  BY DEF Init
<1>2. addressee[c] = 1 /\ incarnation = 1
  BY DEF Init
<1>3. addressee[c] <= incarnation
  BY <1>2
<1>4. QED
  BY <1>1, <1>3 DEF Opened, Bears, Fresh, Watched, UnderWay, Excused

(* Storing an id of the process that runs puts a ready id in the cache;    *)
(* storing any other id disturbs whoever is under way.                     *)
LEMMA StoringIsFresh ==
    ASSUME IInv, StaleInv, NEW c \in Calls, Store(c), NEW d \in Calls
    PROVE  Watched(d)' => cached' \in ready'
<1>1. /\ cached' = session[c] /\ stage[c] = "store" /\ ready' = ready
      /\ UNCHANGED incarnation
  BY DEF Store
<1>2. CASE session[c].inc = incarnation
  BY <1>1, <1>2 DEF StaleInv, Opened
<1>3. CASE session[c].inc # incarnation
  <2>1. disturbed'[d] = (disturbed[d] \/ UnderWay(d))
    BY <1>3 DEF Store, Disturb
  <2>2. UnderWay(d)' => UnderWay(d)
    BY DEF Store, UnderWay, IInv, TypeOK
  <2>3. QED
    BY <2>1, <2>2 DEF Watched
<1>4. QED
  BY <1>2, <1>3

(* The client's own steps: only Store and Drop touch the cache.            *)
LEMMA ClientKeepsStale ==
    ASSUME IInv, GateInv, StaleInv, NEW c \in Calls, Client(c)
    PROVE  StaleInv'
<1>0. TypeOK /\ RequestByStage(c) /\ ResultByStage(c)
  BY DEF IInv
<1>1. /\ UNCHANGED <<incarnation, alive, ready, addressee>>
      /\ \A d \in Calls \ {c} :
            UNCHANGED <<stage[d], attempt[d], wasCached[d], session[d], request[d], result[d]>>
  BY <1>0 DEF Client, Look, Ensure, Connect, Refused, Fail, Initialized, Acknowledged,
         Store, Answered, Rejected, Stale, Drop, Finish, Replied, TypeOK
<1>2. \A d \in Calls : disturbed[d] => disturbed'[d]
  BY <1>0 DEF Client, Look, Ensure, Connect, Refused, Fail, Initialized, Acknowledged,
         Store, Answered, Rejected, Stale, Drop, Disturb, TypeOK
<1>3. UNCHANGED cached \/ Store(c) \/ Drop(c)
  BY DEF Client, Look, Ensure, Connect, Refused, Fail, Initialized, Acknowledged,
         Answered, Rejected, Stale
<1>4. ASSUME NEW d \in Calls, d # c, Watched(d)'
      PROVE  cached' \in ready' \cup {NoId}
  <2>1. CASE UNCHANGED cached
    <3>1. Watched(d)
      BY <1>1, <1>2, <1>4 DEF Watched, UnderWay
    <3>2. QED
      BY <1>1, <2>1, <3>1 DEF StaleInv, Fresh
  <2>2. CASE Store(c)
    BY <1>4, <2>2, StoringIsFresh
  <2>3. CASE Drop(c)
    BY <2>3 DEF Drop
  <2>4. QED
    BY <1>3, <2>1, <2>2, <2>3
<1>5. ASSUME NEW d \in Calls, d # c PROVE Opened(d)' /\ Bears(d)' /\ Fresh(d)' /\ Excused(d)'
  BY <1>1, <1>2, <1>4, <1>5, OthersKeep DEF StaleInv
<1>6. Opened(c) /\ Bears(c) /\ Fresh(c) /\ Excused(c)
  BY DEF StaleInv
<1>7. Opened(c)'
  <2>1. CASE Acknowledged(c)
    <3>1. /\ request[c] # NoRequest /\ request[c].reply = "ok"
          /\ request[c].kind = "initialized" /\ request[c].id = session[c]
          /\ request'[c] = NoRequest /\ session'[c] = session[c]
      BY <1>0, <1>6, <2>1 DEF Acknowledged, Replied, RequestByStage, ResultByStage, Bears,
             TypeOK
    <3>2. QED
      BY <1>1, <1>6, <3>1 DEF Opened
  <2>2. CASE Connect(c)
    <3>1. request'[c].reply = "none" /\ UNCHANGED <<stage, session>>
      BY <1>0, <2>2 DEF Connect, TypeOK
    <3>2. QED
      BY <1>1, <1>6, <3>1 DEF Opened
  <2>3. CASE ~ Acknowledged(c) /\ ~ Connect(c)
    <3>1. stage'[c] # "store" /\ request'[c] \in {request[c], NoRequest}
      BY <1>0, <2>3 DEF Client, Look, Ensure, Refused, Fail, Initialized,
         Store, Answered, Rejected, Stale, Drop, Finish, Replied, TypeOK
    <3>2. QED
      BY <1>1, <1>6, <3>1 DEF Opened
  <2>4. QED
    BY <2>1, <2>2, <2>3
<1>8. Bears(c)'
  <2>1. CASE Connect(c)
    BY <1>0, <2>1 DEF Connect, Bears, TypeOK
  <2>2. CASE Look(c) \/ Ensure(c) \/ Store(c) \/ Refused(c) \/ Fail(c)
    BY <1>0, <2>2 DEF Look, Ensure, Store, Refused, Fail, Finish, Bears, RequestByStage,
           ResultByStage, TypeOK
  <2>3. CASE Drop(c)
    BY <1>0, <2>3 DEF Drop, Finish, Bears, RequestByStage, ResultByStage, TypeOK
  <2>4. CASE Initialized(c) \/ Acknowledged(c) \/ Answered(c) \/ Rejected(c) \/ Stale(c)
    BY <1>0, <2>4 DEF Initialized, Acknowledged, Answered, Rejected, Stale, Replied,
           Bears, TypeOK
  <2>5. QED
    BY <2>1, <2>2, <2>3, <2>4 DEF Client
<1>9. Fresh(c)'
  <2> SUFFICES ASSUME Watched(c)'
               PROVE  /\ cached' \in ready' \cup {NoId}
                      /\ stage'[c] = "send" => session'[c] \in ready'
    BY <1>1, <1>6 DEF Fresh
  <2>1. CASE Look(c)
    <3>1. /\ cached' = cached /\ stage'[c] = "ensure" /\ attempt'[c] = attempt[c]
          /\ wasCached'[c] = (cached # NoId)
      BY <1>0, <2>1 DEF Look, TypeOK
    <3>2. CASE attempt[c] = 1
      BY <1>1, <1>2, <1>6, <2>1, <3>1, <3>2 DEF Look, Fresh, Watched, UnderWay
    <3>3. CASE attempt[c] # 1
      BY <3>1, <3>3 DEF Watched
    <3>4. QED
      BY <3>2, <3>3
  <2>2. CASE Drop(c)
    BY <1>0, <2>2 DEF Drop, Finish, TypeOK
  <2>3. CASE ~ Look(c) /\ ~ Drop(c)
    <3>1. Watched(c)
      <4>1. /\ UnderWay(c) /\ stage[c] # "look"
            /\ attempt'[c] = attempt[c] /\ wasCached'[c] = wasCached[c]
        BY <1>0, <2>3 DEF Client, Ensure, Connect, Refused, Fail, Initialized,
           Acknowledged, Store, Answered, Rejected, Stale, Replied, UnderWay, TypeOK
      <4>2. QED
        BY <1>1, <1>2, <4>1 DEF Watched
    <3>2. CASE Store(c)
      BY <1>0, <2>3, <3>2, StoringIsFresh DEF Store, TypeOK
    <3>3. CASE Ensure(c)
      BY <1>0, <1>1, <1>6, <3>1, <3>3 DEF Ensure, Fresh, TypeOK
    <3>4. CASE ~ Store(c) /\ ~ Ensure(c)
      <4>1. /\ UNCHANGED cached
            /\ stage'[c] = "send" => stage[c] = "send" /\ session'[c] = session[c]
        BY <1>0, <2>3, <3>4 DEF Client, Connect, Refused, Fail, Initialized,
           Acknowledged, Answered, Rejected, Stale, Finish, TypeOK
      <4>2. QED
        BY <1>1, <1>6, <3>1, <4>1 DEF Fresh
    <3>5. QED
      BY <3>2, <3>3, <3>4
  <2>4. QED
    BY <2>1, <2>2, <2>3
<1>10. Excused(c)'
  <2>1. CASE Look(c) \/ Ensure(c) \/ Refused(c) \/ Fail(c) \/ Store(c)
    BY <1>0, <1>2, <1>6, <2>1, NoRequestAssumption
    DEF Look, Ensure, Refused, Fail, Store, Finish, Excused, RequestByStage, ResultByStage,
        TypeOK
  <2>2. CASE Connect(c)
    <3>1. /\ request'[c].reply = "none" /\ Posting(c)
          /\ UNCHANGED <<stage, attempt, wasCached, result, disturbed>>
      BY <1>0, <2>2 DEF Connect, TypeOK
    <3>2. QED
      BY <1>6, <3>1 DEF Excused
  <2>3. CASE Initialized(c) \/ Acknowledged(c) \/ Answered(c) \/ Rejected(c)
    BY <1>0, <1>2, <1>6, <2>3
    DEF Initialized, Acknowledged, Answered, Rejected, Finish, Replied, Excused, TypeOK
  <2>4. CASE Stale(c)
    BY <1>0, <1>2, <1>6, <2>4 DEF Stale, Replied, Excused, TypeOK
  <2>5. CASE Drop(c)
    <3>1. request[c] = NoRequest /\ stage[c] = "drop" /\ UNCHANGED <<wasCached, request, disturbed>>
      BY <1>0, <2>5 DEF Drop, RequestByStage
    <3>2. disturbed[c] \/ (attempt[c] = 0 /\ wasCached[c])
      BY <1>6, <3>1 DEF Excused
    <3>3. CASE /\ attempt[c] = 0 /\ wasCached[c]
               /\ stage' = [stage EXCEPT ![c] = "look"] /\ UNCHANGED result
      BY <1>0, <1>6, <3>1, <3>3 DEF Excused, TypeOK
    <3>4. CASE (attempt[c] = 1 \/ ~wasCached[c]) /\ Finish(c, "stale")
      <4>1. disturbed'[c]
        BY <3>1, <3>2, <3>4
      <4>2. stage'[c] = "done"
        BY <1>0, <3>4 DEF Finish, TypeOK
      <4>3. QED
        BY <4>1, <4>2 DEF Excused
    <3>5. QED
      BY <2>5, <3>3, <3>4 DEF Drop
  <2>6. QED
    BY <2>1, <2>2, <2>3, <2>4, <2>5 DEF Client
<1>11. QED
  BY <1>5, <1>7, <1>8, <1>9, <1>10 DEF StaleInv

(* A step that only changes what a request was answered.                   *)
LEMMA ReplyKeepsStale ==
    ASSUME IInv, StaleInv, NEW c \in Calls, request[c] # NoRequest, NEW r \in Replies,
           Reply(c, r), ready \subseteq ready',
           \/ r \notin {"ok", "not initialized"}
           \/ r = "ok" /\ (request[c].kind = "initialized" => request[c].id \in ready')
           \/ r = "not initialized" /\ request[c].kind = "frame"
              /\ (Watched(c) => session[c] \notin ready),
           r = "not initialized" =>
              alive /\ addressee[c] = incarnation /\ c \notin Pings,
           UNCHANGED <<incarnation, alive, cached, stage, attempt, addressee, wasCached,
                       session, result, disturbed>>
    PROVE  StaleInv'
<1>1. /\ request'[c].kind = request[c].kind /\ request'[c].id = request[c].id
      /\ request'[c].reply = r /\ request'[c] # NoRequest
      /\ \A d \in Calls \ {c} : request'[d] = request[d]
  BY Replying DEF IInv
<1>2. \A d \in Calls : Opened(d) /\ Bears(d) /\ Fresh(d) /\ Excused(d)
  BY DEF StaleInv
<1>3. \A d \in Calls : Watched(d)' <=> Watched(d)
  BY DEF Watched, UnderWay
<1>4. ASSUME NEW d \in Calls PROVE Fresh(d)'
  BY <1>2, <1>3 DEF Fresh
<1>5. ASSUME NEW d \in Calls, d # c PROVE Opened(d)' /\ Bears(d)' /\ Excused(d)'
  BY <1>1, <1>2, <1>5 DEF Opened, Bears, Excused
<1>6. Opened(c)'
  BY <1>1, <1>2 DEF Opened
<1>7. Bears(c)'
  BY <1>1, <1>2 DEF Bears
<1>8. Excused(c)'
  <2>1. CASE r # "not initialized"
    BY <1>1, <1>2, <2>1 DEF Excused
  <2>2. CASE r = "not initialized" /\ stage[c] # "send"
    BY <1>2, <2>2 DEF Excused
  <2>3. CASE r = "not initialized" /\ stage[c] = "send"
    <3>1. ~ Watched(c)
      BY <1>2, <2>3 DEF Fresh
    <3>2. disturbed[c] \/ (attempt[c] = 0 /\ wasCached[c])
      BY <2>3, <3>1 DEF Watched, UnderWay, IInv, TypeOK
    <3>3. QED
      BY <1>2, <2>3, <3>2 DEF Excused
  <2>4. QED
    BY <2>1, <2>2, <2>3
<1>9. QED
  BY <1>4, <1>5, <1>6, <1>7, <1>8 DEF StaleInv

(* The worker's steps: what it acknowledges becomes ready, and it rejects  *)
(* no id that a watched call can hold.                                     *)
LEMMA WorkerKeepsStale ==
    ASSUME IInv, StaleInv, OwnTokens, NEW c \in Calls, Worker(c)
    PROVE  StaleInv'
<1>1. CASE ServeRefusal(c)
  BY <1>1, ReplyKeepsStale DEF ServeRefusal, Arrived
<1>2. CASE ServeInitialize(c)
  <2>1. PICK id :
          /\ request' = [request EXCEPT ![c].reply = "ok", ![c].id = id]
          /\ UNCHANGED <<incarnation, alive, ready, cached, stage, attempt, addressee,
                         wasCached, session, result, disturbed>>
    BY <1>2 DEF ServeInitialize
  <2>2. request[c] \in Requests /\ request[c].kind = "initialize"
    BY <1>2 DEF ServeInitialize, Arrived, IInv, TypeOK
  <2>3. /\ request'[c].kind = "initialize" /\ request'[c].reply = "ok"
        /\ \A d \in Calls \ {c} : request'[d] = request[d]
    BY <2>1, <2>2 DEF IInv, TypeOK
  <2>4. \A d \in Calls : Opened(d) /\ Bears(d) /\ Fresh(d) /\ Excused(d)
    BY DEF StaleInv
  <2>5. ASSUME NEW d \in Calls PROVE Fresh(d)'
    <3>1. Watched(d)' <=> Watched(d)
      BY <2>1 DEF Watched, UnderWay
    <3>2. QED
      BY <2>1, <2>4, <3>1 DEF Fresh
  <2>6. ASSUME NEW d \in Calls PROVE Opened(d)' /\ Bears(d)' /\ Excused(d)'
    <3>1. CASE d = c
      <4>1. Opened(c)' /\ Bears(c)'
        BY <2>1, <2>3, <2>4 DEF Opened, Bears
      <4>2. Excused(c)'
        BY <2>1, <2>3, <2>4 DEF Excused
      <4>3. QED
        BY <3>1, <4>1, <4>2
    <3>2. CASE d # c
      <4>1. UNCHANGED <<incarnation, ready, stage[d], attempt[d], wasCached[d], session[d],
                        request[d], result[d], disturbed[d]>>
        BY <2>1, <2>3, <3>2
      <4>2. Opened(d)'
        BY <2>4, <4>1 DEF Opened
      <4>3. Bears(d)'
        BY <2>4, <4>1 DEF Bears
      <4>4. Excused(d)'
        BY <2>4, <4>1 DEF Excused
      <4>5. QED
        BY <4>2, <4>3, <4>4
    <3>3. QED
      BY <3>1, <3>2
  <2>7. QED
    BY <2>5, <2>6 DEF StaleInv
<1>3. CASE ServeInitialized(c)
  <2>1. /\ request[c] # NoRequest /\ request[c].kind = "initialized"
        /\ ready' = ready \cup {request[c].id} /\ Reply(c, "ok")
        /\ UNCHANGED <<incarnation, alive, cached, stage, attempt, addressee, wasCached,
                       session, result, disturbed>>
    BY <1>3 DEF ServeInitialized, Arrived
  <2>2. QED
    BY <2>1, ReplyKeepsStale
<1>4. CASE ServeFrame(c)
  <2>1. /\ request[c] # NoRequest /\ request[c].kind = "frame" /\ alive
        /\ UNCHANGED <<incarnation, alive, ready, cached, stage, attempt, addressee,
                       wasCached, session, result, disturbed>>
    BY <1>4 DEF ServeFrame, Arrived
  <2>2. CASE Gate(c)
    <3>1. Reply(c, "ok")
      BY <1>4, <2>2 DEF ServeFrame
    <3>2. QED
      BY <2>1, <3>1, ReplyKeepsStale
  <2>3. CASE ~ Gate(c)
    <3>1. Reply(c, "not initialized") /\ c \notin Pings /\ request[c].id \notin ready
      BY <1>4, <2>3 DEF ServeFrame, Gate
    <3>2. addressee[c] = incarnation
      BY <1>4, AuthorizedIsAddressed DEF ServeFrame, IInv
    <3>3. Watched(c) => session[c] \notin ready
      BY <2>1, <3>1 DEF IInv, RequestByStage, StaleInv, Bears, Watched, UnderWay
    <3>4. QED
      BY <2>1, <3>1, <3>2, <3>3, ReplyKeepsStale
  <2>4. QED
    BY <2>2, <2>3
<1>5. QED
  BY <1>1, <1>2, <1>3, <1>4 DEF Worker

(* Every step.  A start leaves no call addressed to the process that runs. *)
LEMMA StaleStep == OwnTokens /\ IInv /\ GateInv /\ StaleInv /\ [Next]_vars => StaleInv'
<1> SUFFICES ASSUME OwnTokens, IInv, GateInv, StaleInv, [Next]_vars PROVE StaleInv'
  OBVIOUS
<1>0. \A d \in Calls : Opened(d) /\ Bears(d) /\ Fresh(d) /\ Excused(d)
  BY DEF StaleInv
<1>1. ASSUME NEW c \in Calls, Begin(c) PROVE StaleInv'
  <2>1. /\ stage[c] = "idle" /\ request[c] = NoRequest /\ result[c] = "none"
        /\ stage'[c] = IF c \in Pings THEN "ensure" ELSE "look"
        /\ UNCHANGED <<incarnation, alive, ready, cached, attempt, wasCached, session,
                       request, result, disturbed>>
        /\ \A d \in Calls \ {c} : stage'[d] = stage[d] /\ addressee'[d] = addressee[d]
    BY <1>1, NoRequestAssumption DEF Begin, IInv, TypeOK, RequestByStage, ResultByStage
  <2>2. attempt[c] = 0
    BY <1>0, <2>1 DEF Excused
  <2>3. addressee'[c] <= incarnation'
    <3>1. PICK i \in 1 .. incarnation : addressee' = [addressee EXCEPT ![c] = i]
      BY <1>1 DEF Begin
    <3>2. addressee'[c] = i
      BY <3>1 DEF IInv, TypeOK
    <3>3. incarnation \in Nat
      BY IncarnationsAreNumbers DEF IInv
    <3>4. i <= incarnation
      BY <3>3
    <3>5. QED
      BY <2>1, <3>2, <3>4
  <2>4. Opened(c)' /\ Bears(c)' /\ Fresh(c)' /\ Excused(c)'
    BY <2>1, <2>2, <2>3 DEF Opened, Bears, Fresh, Watched, Excused
  <2>5. ASSUME NEW d \in Calls, d # c PROVE Opened(d)' /\ Bears(d)' /\ Fresh(d)' /\ Excused(d)'
    BY <1>0, <2>1, <2>5 DEF Opened, Bears, Fresh, Watched, UnderWay, Excused
  <2>6. QED
    BY <2>4, <2>5 DEF StaleInv
<1>2. CASE Stop
  <2>1. /\ alive' = FALSE
        /\ \A d \in Calls : disturbed[d] => disturbed'[d]
        /\ UNCHANGED <<incarnation, ready, cached, stage, attempt, addressee, wasCached,
                       session, request, result>>
    BY <1>2 DEF Stop, Disturb
  <2>2. ASSUME NEW d \in Calls PROVE Opened(d)' /\ Bears(d)' /\ Fresh(d)' /\ Excused(d)'
    BY <1>0, <2>1 DEF Opened, Bears, Fresh, Watched, Excused
  <2>3. QED
    BY <2>2 DEF StaleInv
<1>3. CASE Start
  <2>1. /\ incarnation' = incarnation + 1 /\ incarnation \in Nat
        /\ UNCHANGED <<cached, stage, attempt, addressee, wasCached, session, request,
                       result, disturbed>>
    BY <1>3, IncarnationsAreNumbers DEF Start, IInv
  <2>2. ASSUME NEW d \in Calls PROVE Opened(d)'
    <3>1. /\ stage[d] = "store" => session[d].inc <= incarnation /\ session[d].inc \in Nat
          /\ request[d] # NoRequest /\ request[d].kind = "initialized" =>
                request[d].id.inc <= incarnation /\ request[d].id.inc \in Nat
      BY IncarnationsAreNumbers DEF GateInv, AskedFor, Mine, IInv
    <3>2. QED
      BY <2>1, <3>1 DEF Opened
  <2>3. ASSUME NEW d \in Calls PROVE Fresh(d)'
    BY <2>1, <1>0, IncarnationsAreNumbers DEF Fresh, Watched, IInv
  <2>4. ASSUME NEW d \in Calls PROVE Bears(d)' /\ Excused(d)'
    BY <1>0, <2>1 DEF Bears, Excused
  <2>5. QED
    BY <2>2, <2>3, <2>4 DEF StaleInv
<1>4. CASE UNCHANGED vars
  <2>1. ASSUME NEW d \in Calls PROVE Opened(d)' /\ Bears(d)' /\ Fresh(d)' /\ Excused(d)'
    BY <1>0, <1>4 DEF vars, Opened, Bears, Fresh, Watched, UnderWay, Excused
  <2>2. QED
    BY <2>1 DEF StaleInv
<1>5. QED
  BY <1>1, <1>2, <1>3, <1>4, ClientKeepsStale, WorkerKeepsStale DEF Next

(* A caller hears that its session is stale only if a worker stopped, or a *)
(* dead worker's id was stored, while its call was under way: for any      *)
(* number of calls and restarts, what earlier workers left in the cache is *)
(* recovered from by the one replay.                                       *)
THEOREM ClientStaleOnlyWhenDisturbed == OwnTokens => (Spec => []StaleOnlyWhenDisturbed)
<1> SUFFICES ASSUME OwnTokens PROVE Spec => []StaleOnlyWhenDisturbed
  OBVIOUS
<1>1. IInv /\ GateInv /\ [Next]_vars => GateInv'
  BY GateStep
<1>2. IInv /\ GateInv /\ StaleInv /\ [Next]_vars => StaleInv'
  BY StaleStep
<1>3. StaleInv => StaleOnlyWhenDisturbed
  BY DEF StaleInv, Excused, StaleOnlyWhenDisturbed
<1>4. QED
  BY <1>1, <1>2, <1>3, InitGate, InitStale, Invariance, PTL DEF Spec
===========================================================================
