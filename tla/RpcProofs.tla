------------------------------ MODULE RpcProofs ------------------------------
(* Theorems about a server, from the socket to the methods, for any number *)
(* of requests and sessions, whatever the clients ask and however the      *)
(* server is configured.                                                   *)
EXTENDS MCRpc, FiniteSetTheorems, TLAPS

Steps == {"idle", "admitted", "checking", "dispatching", "done"}

Shapes ==
    /\ step \in [Server!Requests -> Steps]
    /\ assigned \in [Server!Requests -> BOOLEAN]
    /\ done \in [Server!Requests -> Nat]
    /\ key = [r \in Server!Requests |-> key[r]]
    /\ req = [r \in Server!Requests |-> req[r]]
    /\ late = [r \in Server!Requests |-> late[r]]
    /\ sessions \subseteq Server!Sids

(* A session is given out for an initialize, in the order of its number.   *)
Givers == {q \in Server!Requests : assigned[q]}

GivenOut(s) == \E q \in Givers : key[q] = s /\ Server!Peek(req[q].body) = "initialize"

SessionsAreGivenOut ==
    /\ \A q \in Givers : step[q] \notin {"idle", "admitted"}
    /\ \A q \in Givers : key[q] \in Server!Sids /\ key[q] <= Cardinality(Givers)
    /\ \A s \in sessions \cup ended : GivenOut(s)

(* What has ended does not come back.                                      *)
EndedIsOver ==
    /\ sessions \cap ended = {}
    /\ \A r \in Server!Requests : late[r] \subseteq ended

(* Where sessions are required, a request that was let through has one     *)
(* that had not ended when the request was made.                           *)
LetThrough(r) == step[r] \in {"checking", "dispatching"} \/ \E i \in Nat : <<r, i>> \in served

InSession == \A r \in Server!Requests :
    LetThrough(r) /\ Server!Http /\ config.strict => GivenOut(key[r]) /\ key[r] \notin late[r]

(* What was served was served under a key that was opened.                 *)
ServedIsOpen ==
    /\ readyKeys \subseteq openedKeys
    /\ \A r \in Server!Requests, i \in Nat : <<r, i>> \in served =>
          key[r] \in openedKeys /\ step[r] \in {"dispatching", "done"}

ProtocolInv == Shapes /\ SessionsAreGivenOut /\ EndedIsOver /\ InSession /\ ServedIsOpen

-----------------------------------------------------------------------------
LEMMA BeginInv == Server!Init => ProtocolInv
<1> SUFFICES ASSUME Server!Init PROVE ProtocolInv
    OBVIOUS
<1> USE DEF Server!Init
<1>1. Shapes
    BY DEF Shapes, Steps
<1>2. Givers = {}
    BY DEF Givers
<1>3. SessionsAreGivenOut /\ EndedIsOver
    BY <1>2 DEF SessionsAreGivenOut, EndedIsOver
<1>4. InSession /\ ServedIsOpen
    BY DEF InSession, LetThrough, ServedIsOpen
<1> QED BY <1>1, <1>3, <1>4 DEF ProtocolInv

(* What the steps of a request do, as far as sessions are concerned.       *)
Offered(r) == \E q \in Offers :
    \/ Server!Post(r, q) \/ Server!Delete(r, q) \/ Server!Get(r, q) \/ Server!Options(r, q)
    \/ Server!ReadLine(r, q)

LEMMA StepKinds ==
    ASSUME [Server!Next]_serverVars
    PROVE  \/ UNCHANGED serverVars
           \/ \E r \in Server!Requests :
                 \/ step[r] = "idle" /\ Offered(r)
                 \/ Server!FindSession(r) \/ Server!CheckVersion(r)
                 \/ Server!DispatchOne(r) \/ Server!Return(r)
<1>1. CASE Server!Next
  <2>1. PICK r \in Server!Requests :
           \/ step[r] = "idle" /\ Offered(r)
           \/ Server!FindSession(r) \/ Server!CheckVersion(r)
           \/ Server!DispatchOne(r) \/ Server!Return(r)
    BY <1>1, Zenon DEF Server!Next, Offered
  <2> QED BY <2>1
<1>2. CASE UNCHANGED serverVars
    BY <1>2
<1> QED BY <1>1, <1>2

LEMMA OfferMoves ==
    ASSUME NEW r \in Server!Requests, step[r] = "idle", Offered(r)
    PROVE  /\ UNCHANGED <<config, assigned, done, readyKeys, openedKeys, served>>
           /\ \E q \in Offers : req' = [req EXCEPT ![r] = q]
           /\ late' = [late EXCEPT ![r] = ended]
           /\ \/ key' = key /\ step' = [step EXCEPT ![r] = "admitted"]
              \/ key' = key /\ step' = [step EXCEPT ![r] = "done"]
              \/ /\ ~ Server!Http /\ key' = [key EXCEPT ![r] = Stdio]
                 /\ step' = [step EXCEPT ![r] = "dispatching"]
           /\ \/ sessions' = sessions /\ ended' = ended
              \/ \E k \in sessions : sessions' = sessions \ {k} /\ ended' = ended \cup {k}
<1> USE DEF Server!Make, Server!Finish, Server!Kept
<1>1. ASSUME NEW q \in Offers, Server!Post(r, q)
      PROVE  /\ UNCHANGED <<config, assigned, done, readyKeys, openedKeys, served, key, sessions, ended>>
             /\ req' = [req EXCEPT ![r] = q] /\ late' = [late EXCEPT ![r] = ended]
             /\ \/ step' = [step EXCEPT ![r] = "admitted"]
                \/ step' = [step EXCEPT ![r] = "done"]
    BY <1>1 DEF Server!Post
<1>2. ASSUME NEW q \in Offers, Server!Delete(r, q)
      PROVE  /\ UNCHANGED <<config, assigned, done, readyKeys, openedKeys, served, key>>
             /\ req' = [req EXCEPT ![r] = q] /\ late' = [late EXCEPT ![r] = ended]
             /\ step' = [step EXCEPT ![r] = "done"]
             /\ \/ sessions' = sessions /\ ended' = ended
                \/ \E k \in sessions : sessions' = sessions \ {k} /\ ended' = ended \cup {k}
    BY <1>2 DEF Server!Delete, Server!KnownSession
<1>3. ASSUME NEW q \in Offers, Server!Get(r, q) \/ Server!Options(r, q)
      PROVE  /\ UNCHANGED <<config, assigned, done, readyKeys, openedKeys, served, key, sessions, ended>>
             /\ req' = [req EXCEPT ![r] = q] /\ late' = [late EXCEPT ![r] = ended]
             /\ step' = [step EXCEPT ![r] = "done"]
    BY <1>3 DEF Server!Get, Server!Options
<1>4. ASSUME NEW q \in Offers, Server!ReadLine(r, q)
      PROVE  /\ UNCHANGED <<config, assigned, done, readyKeys, openedKeys, served, sessions, ended>>
             /\ req' = [req EXCEPT ![r] = q] /\ late' = [late EXCEPT ![r] = ended]
             /\ ~ Server!Http /\ key' = [key EXCEPT ![r] = Stdio]
             /\ step' = [step EXCEPT ![r] = "dispatching"]
    BY <1>4 DEF Server!ReadLine
<1> QED BY <1>1, <1>2, <1>3, <1>4 DEF Offered

LEMMA FindMoves ==
    ASSUME NEW r \in Server!Requests, Server!FindSession(r)
    PROVE  /\ step[r] = "admitted"
           /\ UNCHANGED <<config, readyKeys, req, done, openedKeys, ended, late, served>>
           /\ \/ /\ Server!Peek(req[r].body) = "initialize"
                 /\ Cardinality(Givers) + 1 \in Server!Sids
                 /\ sessions' = sessions \cup {Cardinality(Givers) + 1}
                 /\ key' = [key EXCEPT ![r] = Cardinality(Givers) + 1]
                 /\ assigned' = [assigned EXCEPT ![r] = TRUE]
                 /\ step' = [step EXCEPT ![r] = "checking"]
              \/ /\ UNCHANGED <<sessions, assigned>>
                 /\ key' = [key EXCEPT ![r] = req[r].header]
                 /\ \/ step' = [step EXCEPT ![r] = "done"]
                    \/ /\ step' = [step EXCEPT ![r] = "checking"]
                       /\ config.strict => req[r].header \in sessions
<1>1. /\ step[r] = "admitted"
      /\ UNCHANGED <<config, readyKeys, req, done, openedKeys, ended, late, served>>
    BY DEF Server!FindSession
<1>2. CASE Server!Peek(req[r].body) = "initialize"
  <2>1. Server!NewSession(r) /\ step' = [step EXCEPT ![r] = "checking"]
    BY <1>2 DEF Server!FindSession
  <2>2. Server!Cardinality(Givers) = Cardinality(Givers)
    BY DEF Cardinality, Server!Cardinality
  <2>3. Givers = {q \in Server!Requests : assigned[q]}
    BY DEF Givers
  <2> QED BY <1>1, <1>2, <2>1, <2>2, <2>3 DEF Server!NewSession
<1>3. CASE Server!Peek(req[r].body) # "initialize"
  <2>1. UNCHANGED <<sessions, assigned>> /\ key' = [key EXCEPT ![r] = req[r].header]
    BY <1>3 DEF Server!FindSession
  <2>2. \/ step' = [step EXCEPT ![r] = "done"]
        \/ /\ step' = [step EXCEPT ![r] = "checking"]
           /\ config.strict => req[r].header \in sessions
    BY <1>3 DEF Server!FindSession, Server!Finish, Server!KnownSession
  <2> QED BY <1>1, <2>1, <2>2
<1> QED BY <1>2, <1>3

LEMMA DispatchMoves ==
    ASSUME NEW r \in Server!Requests, Server!DispatchOne(r)
    PROVE  /\ step[r] = "dispatching"
           /\ UNCHANGED <<config, sessions, step, req, key, assigned, ended, late>>
           /\ done' = [done EXCEPT ![r] = @ + 1]
           /\ \/ /\ readyKeys' = readyKeys \cup {key[r]}
                 /\ openedKeys' = openedKeys \cup {key[r]}
                 /\ served' = served
              \/ /\ UNCHANGED <<readyKeys, openedKeys>>
                 /\ \/ served' = served
                    \/ key[r] \in readyKeys /\ served' = served \cup {<<r, done[r] + 1>>}
<1>1. ASSUME NEW e, Server!Call(r, e)
      PROVE  \/ /\ readyKeys' = readyKeys \cup {key[r]}
                /\ openedKeys' = openedKeys \cup {key[r]}
                /\ served' = served
             \/ /\ UNCHANGED <<readyKeys, openedKeys>>
                /\ \/ served' = served
                   \/ key[r] \in readyKeys /\ served' = served \cup {<<r, done[r] + 1>>}
    BY <1>1 DEF Server!Call, Server!Initialized, Server!Open
<1> QED BY <1>1 DEF Server!DispatchOne

LEMMA OtherMoves ==
    ASSUME NEW r \in Server!Requests, Server!CheckVersion(r) \/ Server!Return(r)
    PROVE  /\ step[r] \in {"checking", "dispatching"}
           /\ UNCHANGED <<config, sessions, readyKeys, req, key, assigned, done, openedKeys,
                           ended, late, served>>
           /\ \/ step' = [step EXCEPT ![r] = "dispatching"]
              \/ step' = [step EXCEPT ![r] = "done"]
BY DEF Server!CheckVersion, Server!Return, Server!Finish, Server!Kept

-----------------------------------------------------------------------------
LEMMA ShapesStay ==
    ASSUME Shapes, [Server!Next]_serverVars
    PROVE  Shapes'
<1> USE DEF Shapes, Steps
<1>1. ASSUME NEW r \in Server!Requests, step[r] = "idle", Offered(r) PROVE Shapes'
    BY <1>1, OfferMoves
<1>2. ASSUME NEW r \in Server!Requests, Server!FindSession(r) PROVE Shapes'
    BY <1>2, FindMoves
<1>3. ASSUME NEW r \in Server!Requests, Server!DispatchOne(r) PROVE Shapes'
    BY <1>3, DispatchMoves
<1>4. ASSUME NEW r \in Server!Requests, Server!CheckVersion(r) \/ Server!Return(r) PROVE Shapes'
    BY <1>4, OtherMoves
<1> QED BY <1>1, <1>2, <1>3, <1>4, StepKinds DEF serverVars

(* A request is made once, and its session found once.                     *)
LEMMA MadeOnce ==
    ASSUME Shapes, [Server!Next]_serverVars, NEW r \in Server!Requests
    PROVE  /\ step[r] # "idle" => req'[r] = req[r] /\ late'[r] = late[r] /\ step'[r] # "idle"
           /\ step[r] \notin {"idle", "admitted"} =>
                 key'[r] = key[r] /\ step'[r] \notin {"idle", "admitted"}
           /\ assigned[r] => assigned'[r]
           /\ config' = config /\ ended \subseteq ended'
<1> USE DEF Shapes
<1>1. ASSUME NEW q \in Server!Requests, step[q] = "idle", Offered(q)
      PROVE  /\ step[r] # "idle" => req'[r] = req[r] /\ late'[r] = late[r] /\ step'[r] = step[r]
             /\ step[r] # "idle" => key'[r] = key[r]
             /\ assigned[r] => assigned'[r]
             /\ config' = config /\ ended \subseteq ended'
    BY <1>1, OfferMoves
<1>2. ASSUME NEW q \in Server!Requests, Server!FindSession(q)
      PROVE  /\ req'[r] = req[r] /\ late'[r] = late[r]
             /\ step[r] # "idle" => step'[r] # "idle"
             /\ step[r] \notin {"idle", "admitted"} => key'[r] = key[r] /\ step'[r] = step[r]
             /\ assigned[r] => assigned'[r]
             /\ config' = config /\ ended' = ended
    BY <1>2, FindMoves
<1>3. ASSUME NEW q \in Server!Requests, Server!DispatchOne(q)
      PROVE  UNCHANGED <<req, late, step, key, assigned, config, ended>>
    BY <1>3, DispatchMoves
<1>4. ASSUME NEW q \in Server!Requests, Server!CheckVersion(q) \/ Server!Return(q)
      PROVE  /\ UNCHANGED <<req, late, key, assigned, config, ended>>
             /\ step'[r] = step[r] \/ step'[r] \notin {"idle", "admitted"}
    BY <1>4, OtherMoves
<1> QED BY <1>1, <1>2, <1>3, <1>4, StepKinds DEF serverVars

LEMMA GivenOutStays ==
    ASSUME Shapes, SessionsAreGivenOut, [Server!Next]_serverVars, NEW s, GivenOut(s)
    PROVE  GivenOut(s)'
<1>1. PICK q \in Givers : key[q] = s /\ Server!Peek(req[q].body) = "initialize"
    BY DEF GivenOut
<1>2. q \in Server!Requests /\ assigned[q] /\ step[q] \notin {"idle", "admitted"}
    BY DEF Givers, SessionsAreGivenOut
<1>3. assigned'[q] /\ key'[q] = key[q] /\ req'[q] = req[q]
    BY <1>2, MadeOnce
<1> QED BY <1>1, <1>2, <1>3 DEF GivenOut, Givers, Server!Peek

-----------------------------------------------------------------------------
(* Every number that was given out is at most the number of those given.   *)
LEMMA GiversAreFinite == IsFiniteSet(Givers) /\ Cardinality(Givers) \in Nat
<1>1. IsFiniteSet(Server!Requests)
    BY FS_Interval, RpcAssumption DEF Server!Requests
<1> QED BY <1>1, FS_Subset, FS_CardinalityType DEF Givers

LEMMA GiversStay ==
    ASSUME Shapes, [Server!Next]_serverVars, assigned' = assigned
    PROVE  Givers' = Givers
BY DEF Givers, Server!Requests

LEMMA GivenOutNext ==
    ASSUME Shapes, SessionsAreGivenOut, [Server!Next]_serverVars
    PROVE  SessionsAreGivenOut'
<1>1. \A s \in sessions \cup ended : GivenOut(s)'
    BY GivenOutStays DEF SessionsAreGivenOut
<1>2. ASSUME NEW q \in Givers
      PROVE  q \in Server!Requests /\ step'[q] \notin {"idle", "admitted"} /\ key'[q] = key[q]
    BY MadeOnce DEF SessionsAreGivenOut, Givers
<1>3. CASE Givers' = Givers /\ sessions' \cup ended' \subseteq sessions \cup ended
  <2>1. \A q \in Givers' : step'[q] \notin {"idle", "admitted"}
    BY <1>2, <1>3
  <2>2. \A q \in Givers' : key'[q] \in Server!Sids /\ key'[q] <= Cardinality(Givers')
    BY <1>2, <1>3 DEF SessionsAreGivenOut
  <2>3. \A s \in sessions' \cup ended' : GivenOut(s)'
    BY <1>1, <1>3
  <2>4. (Server!Sids)' = Server!Sids
    BY DEF Server!Sids
  <2> QED BY <2>1, <2>2, <2>3, <2>4 DEF SessionsAreGivenOut
<1>4. ASSUME NEW r \in Server!Requests, step[r] = "idle", Offered(r)
      PROVE  SessionsAreGivenOut'
  <2>1. assigned' = assigned /\ sessions' \cup ended' \subseteq sessions \cup ended
    BY <1>4, OfferMoves
  <2> QED BY <2>1, GiversStay, <1>3
<1>5. ASSUME NEW r \in Server!Requests, Server!DispatchOne(r) PROVE SessionsAreGivenOut'
    BY <1>5, DispatchMoves, GiversStay, <1>3
<1>6. ASSUME NEW r \in Server!Requests, Server!CheckVersion(r) \/ Server!Return(r)
      PROVE  SessionsAreGivenOut'
    BY <1>6, OtherMoves, GiversStay, <1>3
<1>7. CASE UNCHANGED serverVars
    BY <1>7, GiversStay, <1>3 DEF serverVars
<1>8. ASSUME NEW r \in Server!Requests, Server!FindSession(r), assigned' = assigned
      PROVE  SessionsAreGivenOut'
  <2>1. sessions' \cup ended' \subseteq sessions \cup ended \/ sessions' # sessions
    BY <1>8, FindMoves
  <2>2. assigned[r] = FALSE
    BY <1>8, FindMoves DEF Shapes, SessionsAreGivenOut, Givers
  <2>3. sessions' = sessions
    BY <1>8, <2>2, FindMoves DEF Shapes
  <2> QED BY <1>8, <2>1, <2>3, GiversStay, <1>3
<1>9. ASSUME NEW r \in Server!Requests, Server!FindSession(r), assigned' # assigned
      PROVE  SessionsAreGivenOut'
  <2> DEFINE n == Cardinality(Givers) + 1
  <2>1. /\ step[r] = "admitted" /\ Server!Peek(req[r].body) = "initialize" /\ n \in Server!Sids
        /\ sessions' = sessions \cup {n} /\ key' = [key EXCEPT ![r] = n]
        /\ assigned' = [assigned EXCEPT ![r] = TRUE]
        /\ step' = [step EXCEPT ![r] = "checking"] /\ UNCHANGED <<req, ended>>
    BY <1>9, FindMoves
  <2>2. r \notin Givers
    BY <2>1 DEF SessionsAreGivenOut
  <2>3. Givers' = Givers \cup {r}
    BY <2>1 DEF Givers, Shapes, Server!Requests
  <2>4. Cardinality(Givers') = n
    BY <2>2, <2>3, GiversAreFinite, FS_AddElement
  <2>5. key'[r] = n /\ step'[r] = "checking"
    BY <2>1 DEF Shapes
  <2>6. \A q \in Givers' : step'[q] \notin {"idle", "admitted"}
    BY <1>2, <2>3, <2>5
  <2>7. \A q \in Givers : key[q] \in Server!Sids /\ key[q] <= Cardinality(Givers)
    BY DEF SessionsAreGivenOut
  <2>8. \A q \in Givers' : key'[q] \in Server!Sids /\ key'[q] <= n
    <3> SUFFICES ASSUME NEW q \in Givers' PROVE key'[q] \in Server!Sids /\ key'[q] <= n
        OBVIOUS
    <3>1. CASE q = r
        BY <3>1, <2>1, <2>5, GiversAreFinite
    <3>2. CASE q \in Givers
        BY <3>2, <1>2, <2>7, GiversAreFinite DEF Server!Sids
    <3> QED BY <3>1, <3>2, <2>3
  <2>9. (Server!Sids)' = Server!Sids
    BY DEF Server!Sids
  <2>10. PICK m : m = n
    OBVIOUS
  <2>11. GivenOut(m)'
    <3>1. r \in Givers' /\ key'[r] = m /\ Server!Peek(req'[r].body) = "initialize"
        BY <2>1, <2>3, <2>5, <2>10
    <3> QED BY <3>1 DEF GivenOut, Server!Peek
  <2>12. \A s \in sessions' \cup ended' : GivenOut(s)'
    BY <1>1, <2>1, <2>10, <2>11
  <2> QED BY <2>4, <2>6, <2>8, <2>9, <2>12 DEF SessionsAreGivenOut
<1> QED BY <1>4, <1>5, <1>6, <1>7, <1>8, <1>9, StepKinds

-----------------------------------------------------------------------------
(* The number that is given out next is not one that has ended.            *)
LEMMA NewIsNew ==
    ASSUME SessionsAreGivenOut
    PROVE  Cardinality(Givers) + 1 \notin ended
<1> SUFFICES ASSUME Cardinality(Givers) + 1 \in ended PROVE FALSE
    OBVIOUS
<1>1. PICK q \in Givers : key[q] = Cardinality(Givers) + 1
    BY DEF SessionsAreGivenOut, GivenOut
<1>2. key[q] <= Cardinality(Givers)
    BY DEF SessionsAreGivenOut
<1> QED BY <1>1, <1>2, GiversAreFinite

LEMMA EndedNext ==
    ASSUME Shapes, SessionsAreGivenOut, EndedIsOver, [Server!Next]_serverVars
    PROVE  EndedIsOver'
<1> USE DEF EndedIsOver, Shapes
<1>1. (Server!Requests)' = Server!Requests
    BY DEF Server!Requests
<1>2. ASSUME NEW r \in Server!Requests, step[r] = "idle", Offered(r) PROVE EndedIsOver'
  <2>1. ended \subseteq ended' /\ late' = [late EXCEPT ![r] = ended]
    BY <1>2, OfferMoves
  <2>2. \A q \in Server!Requests : late'[q] \subseteq ended'
    BY <2>1
  <2>3. sessions' \cap ended' = {}
    BY <1>2, OfferMoves
  <2> QED BY <1>1, <2>2, <2>3
<1>3. ASSUME NEW r \in Server!Requests, Server!FindSession(r) PROVE EndedIsOver'
    BY <1>1, <1>3, FindMoves, NewIsNew
<1>4. ASSUME NEW r \in Server!Requests, Server!DispatchOne(r) PROVE EndedIsOver'
    BY <1>1, <1>4, DispatchMoves
<1>5. ASSUME NEW r \in Server!Requests, Server!CheckVersion(r) \/ Server!Return(r)
      PROVE  EndedIsOver'
    BY <1>1, <1>5, OtherMoves
<1>6. CASE UNCHANGED serverVars
    BY <1>1, <1>6 DEF serverVars
<1> QED BY <1>2, <1>3, <1>4, <1>5, <1>6, StepKinds

-----------------------------------------------------------------------------
(* What goes past the gate is asked by a request that is being dispatched, *)
(* under a key whose gate is open.                                         *)
LEMMA ServedMoves ==
    ASSUME Shapes, [Server!Next]_serverVars, NEW r \in Server!Requests, NEW i \in Nat
    PROVE  /\ openedKeys \subseteq openedKeys'
           /\ step[r] \in {"dispatching", "done"} => step'[r] \in {"dispatching", "done"}
           /\ <<r, i>> \in served' \ served =>
                 step[r] = "dispatching" /\ step' = step /\ key[r] \in readyKeys
<1> USE DEF Shapes
<1>1. ASSUME NEW q \in Server!Requests, step[q] = "idle", Offered(q)
      PROVE  /\ openedKeys' = openedKeys /\ served' = served
             /\ step[r] # "idle" => step'[r] = step[r]
    BY <1>1, OfferMoves
<1>2. ASSUME NEW q \in Server!Requests, Server!FindSession(q)
      PROVE  /\ openedKeys' = openedKeys /\ served' = served
             /\ step[r] # "admitted" => step'[r] = step[r]
    BY <1>2, FindMoves
<1>3. ASSUME NEW q \in Server!Requests, Server!DispatchOne(q)
      PROVE  /\ openedKeys \subseteq openedKeys' /\ step' = step
             /\ <<r, i>> \in served' \ served => step[r] = "dispatching" /\ key[r] \in readyKeys
    BY <1>3, DispatchMoves
<1>4. ASSUME NEW q \in Server!Requests, Server!CheckVersion(q) \/ Server!Return(q)
      PROVE  /\ openedKeys' = openedKeys /\ served' = served
             /\ step'[r] = step[r] \/ step'[r] \in {"dispatching", "done"}
    BY <1>4, OtherMoves
<1> QED BY <1>1, <1>2, <1>3, <1>4, StepKinds DEF serverVars

LEMMA ServedNext ==
    ASSUME Shapes, ServedIsOpen, [Server!Next]_serverVars
    PROVE  ServedIsOpen'
<1>1. (Server!Requests)' = Server!Requests
    BY DEF Server!Requests
<1>2. readyKeys' \subseteq openedKeys'
  <2>1. \/ readyKeys' = readyKeys /\ openedKeys' = openedKeys
        \/ \E k : readyKeys' = readyKeys \cup {k} /\ openedKeys' = openedKeys \cup {k}
    BY StepKinds, OfferMoves, FindMoves, DispatchMoves, OtherMoves DEF serverVars
  <2> QED BY <2>1 DEF ServedIsOpen
<1>3. ASSUME NEW r \in Server!Requests, NEW i \in Nat, <<r, i>> \in served'
      PROVE  key'[r] \in openedKeys' /\ step'[r] \in {"dispatching", "done"}
  <2>1. key[r] \in openedKeys /\ step[r] \in {"dispatching", "done"}
    BY <1>3, ServedMoves DEF ServedIsOpen
  <2>2. key'[r] = key[r]
    BY <2>1, MadeOnce
  <2> QED BY <2>1, <2>2, ServedMoves
<1> QED BY <1>1, <1>2, <1>3 DEF ServedIsOpen

-----------------------------------------------------------------------------
(* Over HTTP a request is let through by finding its session, and where    *)
(* sessions are required that is one that is there.                        *)
LEMMA LetThroughNext ==
    ASSUME Shapes, [Server!Next]_serverVars, NEW r \in Server!Requests,
           ~ LetThrough(r), LetThrough(r)', Server!Http, config.strict
    PROVE  key'[r] \in sessions'
<1> USE DEF Shapes
<1>1. step[r] \notin {"checking", "dispatching"}
    BY DEF LetThrough
<1>2. step'[r] \in {"checking", "dispatching"}
    BY <1>1, ServedMoves DEF LetThrough
<1>3. ASSUME NEW q \in Server!Requests, step[q] = "idle", Offered(q) PROVE FALSE
  <2>1. step' = [step EXCEPT ![q] = "admitted"] \/ step' = [step EXCEPT ![q] = "done"]
    BY <1>3, OfferMoves
  <2> QED BY <2>1, <1>1, <1>2
<1>4. ASSUME NEW q \in Server!Requests, Server!FindSession(q) PROVE key'[r] \in sessions'
  <2>1. q = r /\ step'[r] = "checking"
    BY <1>1, <1>2, <1>4, FindMoves
  <2> QED BY <1>4, <2>1, FindMoves
<1>5. ASSUME NEW q \in Server!Requests, Server!DispatchOne(q) PROVE FALSE
    BY <1>1, <1>2, <1>5, DispatchMoves
<1>6. ASSUME NEW q \in Server!Requests, Server!CheckVersion(q) \/ Server!Return(q) PROVE FALSE
    BY <1>1, <1>2, <1>6, OtherMoves
<1>7. step' # step
    BY <1>1, <1>2
<1> QED BY <1>3, <1>4, <1>5, <1>6, <1>7, StepKinds DEF serverVars

LEMMA InSessionNext ==
    ASSUME ProtocolInv, [Server!Next]_serverVars, SessionsAreGivenOut', EndedIsOver'
    PROVE  InSession'
<1> USE DEF ProtocolInv
<1>1. (Server!Requests)' = Server!Requests /\ (Server!Http)' = Server!Http /\ config' = config
  <2>1. config' = config
    BY StepKinds, OfferMoves, FindMoves, DispatchMoves, OtherMoves DEF serverVars
  <2> QED BY <2>1 DEF Server!Requests, Server!Http
<1>2. ASSUME NEW r \in Server!Requests, LetThrough(r)', Server!Http, config.strict
      PROVE  GivenOut(key[r])' /\ key'[r] \notin late'[r]
  <2>1. CASE LetThrough(r)
    <3>1. GivenOut(key[r]) /\ key[r] \notin late[r]
        BY <1>2, <2>1 DEF InSession
    <3>2. step[r] \notin {"idle", "admitted"}
        BY <2>1 DEF LetThrough, ServedIsOpen
    <3>3. key'[r] = key[r] /\ late'[r] = late[r]
        BY <3>2, MadeOnce
    <3>4. PICK k : k = key[r]
        OBVIOUS
    <3>5. GivenOut(k)'
        BY <3>1, <3>4, GivenOutStays
    <3> QED BY <3>1, <3>3, <3>4, <3>5 DEF GivenOut
  <2>2. CASE ~ LetThrough(r)
    <3>1. key'[r] \in sessions'
        BY <1>2, <2>2, LetThroughNext
    <3>2. GivenOut(key[r])'
        BY <3>1 DEF SessionsAreGivenOut
    <3>3. key'[r] \notin late'[r]
        BY <1>1, <3>1 DEF EndedIsOver
    <3> QED BY <3>2, <3>3
  <2> QED BY <2>1, <2>2
<1> QED BY <1>1, <1>2 DEF InSession

-----------------------------------------------------------------------------
LEMMA ProtocolInvHolds == MCSpec => []ProtocolInv
<1>1. MCInit => ProtocolInv
    BY BeginInv DEF MCInit
<1>2. ProtocolInv /\ [MCNext]_<<part, vars, serverVars>> => ProtocolInv'
  <2> SUFFICES ASSUME ProtocolInv, [MCNext]_<<part, vars, serverVars>> PROVE ProtocolInv'
    OBVIOUS
  <2>1. [Server!Next]_serverVars
    BY DEF MCNext
  <2>2. Shapes'
    BY <2>1, ShapesStay DEF ProtocolInv
  <2>3. SessionsAreGivenOut' /\ EndedIsOver'
    BY <2>1, GivenOutNext, EndedNext DEF ProtocolInv
  <2>4. ServedIsOpen'
    BY <2>1, ServedNext DEF ProtocolInv
  <2>5. InSession'
    BY <2>1, <2>3, InSessionNext
  <2> QED BY <2>2, <2>3, <2>4, <2>5 DEF ProtocolInv
<1> QED BY <1>1, <1>2, PTL DEF MCSpec

(* Nothing gets past the gate but what is said in a session whose client   *)
(* has said it is initialized; where sessions are required, that is one    *)
(* this server gave out for an initialize and that had not ended when the  *)
(* request was made: transport/http.py looks the session up before         *)
(* interface/mcp/engine.py looks at the gate, on the thread of the request *)
(* and without a lock over both.                                           *)
THEOREM RpcServedInSession == MCSpec => []ServedInSession
<1>1. ProtocolInv => ServedInSession
  <2> SUFFICES ASSUME ProtocolInv, NEW r \in Server!Requests, NEW i \in 1 .. done[r],
                      <<r, i>> \in served
               PROVE  /\ key[r] \in openedKeys
                      /\ Server!Http /\ config.strict =>
                            GivenOut(key[r]) /\ key[r] \notin late[r]
    BY DEF ServedInSession, Server!ServedInSession, GivenOut, Givers
  <2>1. i \in Nat
    BY DEF ProtocolInv, Shapes
  <2>2. LetThrough(r)
    BY <2>1 DEF LetThrough
  <2> QED BY <2>1, <2>2 DEF ProtocolInv, InSession, ServedIsOpen
<1> QED BY <1>1, ProtocolInvHolds, PTL

-----------------------------------------------------------------------------
(* The answers.  The places of the elements among the first n of a body    *)
(* that have an answer due, and how many there are.                        *)
Places(b, n) == {i \in 1 .. n : Server!Due(b[i])}

LEMMA SameCardinality == ASSUME NEW S PROVE Server!Cardinality(S) = Cardinality(S)
BY DEF Cardinality, Server!Cardinality

LEMMA PlacesAreFinite ==
    ASSUME NEW b, NEW n \in Nat
    PROVE  IsFiniteSet(Places(b, n)) /\ Cardinality(Places(b, n)) \in Nat
<1>1. IsFiniteSet(1 .. n)
    BY FS_Interval
<1> QED BY <1>1, FS_Subset, FS_CardinalityType DEF Places

LEMMA NoPlaces == ASSUME NEW b PROVE Cardinality(Places(b, 0)) = 0
<1>1. Places(b, 0) = {}
    BY DEF Places
<1> QED BY <1>1, FS_EmptySet

LEMMA OnePlaceMore ==
    ASSUME NEW b, NEW n \in Nat
    PROVE  /\ Server!Due(b[n + 1]) => /\ Places(b, n + 1) = Places(b, n) \cup {n + 1}
                                      /\ Cardinality(Places(b, n + 1)) = Cardinality(Places(b, n)) + 1
           /\ ~ Server!Due(b[n + 1]) => Places(b, n + 1) = Places(b, n)
<1>1. Server!Due(b[n + 1]) => Places(b, n + 1) = Places(b, n) \cup {n + 1}
    BY DEF Places
<1>2. n + 1 \notin Places(b, n)
    BY DEF Places
<1>3. ~ Server!Due(b[n + 1]) => Places(b, n + 1) = Places(b, n)
    BY DEF Places
<1> QED BY <1>1, <1>2, <1>3, PlacesAreFinite, FS_AddElement

LEMMA PlaceAmong ==
    ASSUME NEW b, NEW n \in Nat, NEW i \in Places(b, n)
    PROVE  Cardinality(Places(b, i)) \in 1 .. Cardinality(Places(b, n))
<1>1. i \in 1 .. n /\ Places(b, i) \subseteq Places(b, n) /\ i \in Places(b, i)
    BY DEF Places
<1>2. Cardinality(Places(b, i)) <= Cardinality(Places(b, n))
    BY <1>1, PlacesAreFinite, FS_Subset
<1>3. Cardinality(Places(b, i)) # 0
    BY <1>1, PlacesAreFinite, FS_EmptySet
<1> QED BY <1>1, <1>2, <1>3, PlacesAreFinite

-----------------------------------------------------------------------------
(* What an element is answered with.                                       *)
Outcomes == {"result", "invalid params", "internal error", "not found", "parse error",
             "invalid request", "method not found"}

Answers == {"null", "int", "text"} \X Outcomes

LEMMA GatedOutcomes ==
    ASSUME NEW e, e.method \in Server!GatedMethods
    PROVE  Server!Gated(e) \subseteq Outcomes
<1>1. /\ Server!ToolsCall(e) \subseteq Outcomes /\ Server!RouteCall(e) \subseteq Outcomes
      /\ Server!ResourcesRead(e) \subseteq Outcomes /\ Server!RouteRead(e) \subseteq Outcomes
      /\ Server!ToolsList(e) \in Outcomes
    BY DEF Server!ToolsCall, Server!RouteCall, Server!ResourcesRead, Server!RouteRead,
           Server!ToolsList, Server!Forward, Outcomes
<1>2. "result" \in Outcomes
    BY DEF Outcomes
<1> QED BY <1>1, <1>2 DEF Server!Gated, Server!GatedMethods

(* An element is answered once if it has an answer due, and not otherwise. *)
LEMMA ElementAnswered ==
    ASSUME NEW r \in Server!Requests, Server!DispatchOne(r), NEW e,
           e = Server!Batch(r)[done[r] + 1],
           e.id \in {Absent, "null", "int", "text", "bool", "float"}
    PROVE  IF Server!Due(e)
           THEN /\ Server!SafeId(e) \in {"null", "int", "text"}
                /\ \E o \in Outcomes : responses' =
                      [responses EXCEPT ![r] = Append(responses[r], <<Server!SafeId(e), o>>)]
           ELSE responses' = responses
<1>1. ASSUME NEW o \in Outcomes, Server!WellFormed(e), Server!Reply(r, e, o)
      PROVE  IF Server!Due(e)
             THEN responses' = [responses EXCEPT ![r] = Append(responses[r], <<Server!SafeId(e), o>>)]
             ELSE responses' = responses
  <2>1. Server!Due(e) <=> ~ Server!Suppress(e)
    BY <1>1 DEF Server!Due, Server!Suppress
  <2>2. CASE Server!Due(e)
    <3>1. e.id \in {"null", "int", "text"} /\ e.object
        BY <1>1, <2>1, <2>2 DEF Server!Suppress, Server!WellFormed
    <3>2. Server!SafeId(e) = e.id
        BY <3>1 DEF Server!SafeId
    <3> QED BY <1>1, <2>1, <2>2, <3>2 DEF Server!Reply, Server!Answer
  <2>3. CASE ~ Server!Due(e)
    BY <1>1, <2>1, <2>3 DEF Server!Reply
  <2> QED BY <2>2, <2>3
<1>2. Server!SafeId(e) \in {"null", "int", "text"}
    BY DEF Server!SafeId
<1>3. CASE Server!WellFormed(e) /\ e.method \in Server!Methods
  <2>1. Server!Call(r, e)
    BY <1>3 DEF Server!DispatchOne
  <2>2. \E o \in Outcomes : Server!Reply(r, e, o)
    <3>1. Server!Initialize(e) \in Outcomes /\ Server!Ping \in Outcomes
        BY DEF Server!Initialize, Server!Ping, Outcomes
    <3>2. "result" \in Outcomes /\ "invalid params" \in Outcomes
        BY DEF Outcomes
    <3> QED BY <2>1, <3>1, <3>2, GatedOutcomes DEF Server!Call
  <2> QED BY <1>1, <1>2, <1>3, <2>2
<1>4. CASE ~ Server!WellFormed(e)
  <2>1. Server!Due(e) /\ Server!Answer(r, Server!SafeId(e), "invalid request")
    BY <1>4 DEF Server!DispatchOne, Server!Due
  <2>2. "invalid request" \in Outcomes
    BY DEF Outcomes
  <2> QED BY <1>2, <2>1, <2>2 DEF Server!Answer
<1>5. CASE Server!WellFormed(e) /\ e.method \notin Server!Methods
  <2>1. e.method \notin Server!Notifications
    BY <1>5 DEF Server!Methods
  <2>2. IF e.id # Absent THEN Server!Answer(r, e.id, "method not found") ELSE responses' = responses
    BY <1>5 DEF Server!DispatchOne
  <2>3. "method not found" \in Outcomes
    BY DEF Outcomes
  <2>4. Server!Reply(r, e, "method not found")
    BY <2>1, <2>2 DEF Server!Reply, Server!Suppress
  <2> QED BY <1>1, <1>2, <1>5, <2>3, <2>4
<1> QED BY <1>3, <1>4, <1>5

-----------------------------------------------------------------------------
(* The invariant of the answers.                                           *)

Keys == Server!Sids \cup {Absent, Bogus, Stdio}

AnswerShapes ==
    /\ config \in Configs
    /\ readyKeys \subseteq Keys /\ announced \subseteq Server!Sids
    /\ status = [r \in Server!Requests |-> status[r]]
    /\ responses \in [Server!Requests -> Seq(Answers)]

(* What a request names is what a client can know of.                      *)
Named(r) ==
    /\ step[r] # "idle" => req[r] \in Offers
    /\ step[r] = "admitted" => req[r].header \in Keys
    /\ step[r] \in {"checking", "dispatching"} => key[r] \in Keys

(* The answers s are those due for the first n elements of b.              *)
CollectedOf(s, b, n) ==
    /\ Len(s) = Cardinality(Places(b, n))
    /\ \A i \in Places(b, n) : s[Cardinality(Places(b, i))][1] = Server!SafeId(b[i])

(* The answers s to a body that was not refused, with a status.            *)
Whole(code, s, body) ==
    /\ (code = 202) <=> (s = <<>>)
    /\ IF ~ body.parses \/ body.elements = <<>>
       THEN Len(s) = 1 /\ s[1][1] = "null"
       ELSE CollectedOf(s, body.elements, Len(body.elements))

(* How far the answers s to a request q have come, when its thread is at a *)
(* stage and n of its elements were dispatched.                            *)
Progress(at, q, s, n, code) ==
    /\ at \in {"idle", "admitted", "checking"} => s = <<>> /\ n = 0
    /\ at = "dispatching" =>
          n <= Len(q.body.elements) /\ CollectedOf(s, q.body.elements, n)
    /\ at = "done" /\ q.verb = "POST" =>
          IF code \in {200, 202} THEN Whole(code, s, q.body) ELSE s = <<>> /\ n = 0

AnsweredSoFar(r) == Progress(step[r], req[r], responses[r], done[r], status[r])

(* A client is told of a session by the answer to its initialize.          *)
Told ==
    /\ \A s \in announced : \E q \in Givers : key[q] = s
    /\ \A q \in Givers : key[q] \in announced => step[q] = "done" /\ status[q] \in {200, 202}
    /\ \A q1, q2 \in Givers : key[q1] = key[q2] => q1 = q2

AnswerInv ==
    /\ AnswerShapes /\ Told
    /\ \A r \in Server!Requests : Named(r) /\ AnsweredSoFar(r)

-----------------------------------------------------------------------------
(* What the steps of a request do, as far as answers are concerned.        *)

LEMMA OfferAnswers ==
    ASSUME NEW r \in Server!Requests, step[r] = "idle", Offered(r)
    PROVE  /\ UNCHANGED <<responses, announced, done>>
           /\ \E q \in Offers :
                 /\ req' = [req EXCEPT ![r] = q]
                 /\ \/ /\ step' = [step EXCEPT ![r] = "admitted"] /\ key' = key
                       /\ q.header \in announced \cup {Absent, Bogus} /\ status' = status
                    \/ /\ step' = [step EXCEPT ![r] = "done"] /\ key' = key
                       /\ \E code : /\ status' = [status EXCEPT ![r] = code]
                                    /\ q.verb # "POST" \/ code \notin {200, 202}
                    \/ /\ step' = [step EXCEPT ![r] = "dispatching"]
                       /\ key' = [key EXCEPT ![r] = Stdio] /\ status' = status
<1> USE DEF Server!Make, Server!Finish, Server!Kept
<1>1. ASSUME NEW q \in Offers, Server!Post(r, q)
      PROVE  /\ UNCHANGED <<responses, announced, done>> /\ req' = [req EXCEPT ![r] = q]
             /\ key' = key
             /\ \/ /\ step' = [step EXCEPT ![r] = "admitted"]
                   /\ q.header \in announced \cup {Absent, Bogus} /\ status' = status
                \/ /\ step' = [step EXCEPT ![r] = "done"]
                   /\ \E code : /\ status' = [status EXCEPT ![r] = code]
                                /\ q.verb # "POST" \/ code \notin {200, 202}
  <2>1. Server!Guard(q) \notin {200, 202}
    BY DEF Server!Guard
  <2>2. PICK code :
           /\ code \notin {200, 202}
           /\ \/ Server!Finish(r, code)
              \/ step' = [step EXCEPT ![r] = "admitted"] /\ status' = status
    BY <1>1, <2>1 DEF Server!Post
  <2> QED BY <1>1, <2>2 DEF Server!Post
<1>2. ASSUME NEW q \in Offers,
             Server!Delete(r, q) \/ Server!Get(r, q) \/ Server!Options(r, q)
      PROVE  /\ UNCHANGED <<responses, announced, done>> /\ req' = [req EXCEPT ![r] = q]
             /\ key' = key /\ step' = [step EXCEPT ![r] = "done"]
             /\ q.verb # "POST"
             /\ \E code : status' = [status EXCEPT ![r] = code]
    BY <1>2 DEF Server!Delete, Server!Get, Server!Options
<1>3. ASSUME NEW q \in Offers, Server!ReadLine(r, q)
      PROVE  /\ UNCHANGED <<responses, announced, done>> /\ req' = [req EXCEPT ![r] = q]
             /\ step' = [step EXCEPT ![r] = "dispatching"]
             /\ key' = [key EXCEPT ![r] = Stdio] /\ status' = status
    BY <1>3 DEF Server!ReadLine
<1> HIDE DEF Server!Make, Server!Finish, Server!Kept
<1> QED BY <1>1, <1>2, <1>3 DEF Offered

LEMMA FindAnswers ==
    ASSUME NEW r \in Server!Requests, Server!FindSession(r)
    PROVE  /\ UNCHANGED <<responses, announced, done>>
           /\ \/ status' = status /\ step' = [step EXCEPT ![r] = "checking"]
              \/ /\ step' = [step EXCEPT ![r] = "done"] /\ assigned' = assigned
                 /\ \E code : status' = [status EXCEPT ![r] = code] /\ code \notin {200, 202}
<1> DEFINE refused == IF ~ config.strict THEN 0 ELSE IF req[r].header = Absent THEN 400
                      ELSE IF ~ Server!KnownSession(req[r].header) THEN 404 ELSE 0
<1>1. refused \notin {200, 202}
    OBVIOUS
<1>2. \/ status' = status /\ step' = [step EXCEPT ![r] = "checking"]
      \/ Server!Finish(r, refused) /\ assigned' = assigned
    BY DEF Server!FindSession
<1>3. UNCHANGED <<responses, announced, done>>
    BY DEF Server!FindSession
<1> HIDE DEF refused
<1> QED BY <1>1, <1>2, <1>3 DEF Server!Finish

LEMMA CheckAnswers ==
    ASSUME NEW r \in Server!Requests, Server!CheckVersion(r)
    PROVE  /\ step[r] = "checking"
           /\ UNCHANGED <<responses, announced, done>>
           /\ \/ status' = status /\ step' = [step EXCEPT ![r] = "dispatching"]
              \/ /\ step' = [step EXCEPT ![r] = "done"]
                 /\ status' = [status EXCEPT ![r] = 400]
BY DEF Server!CheckVersion, Server!Finish, Server!Kept

LEMMA ReturnAnswers ==
    ASSUME NEW r \in Server!Requests, Server!Return(r)
    PROVE  /\ step[r] = "dispatching" /\ done[r] = Len(req[r].body.elements)
           /\ UNCHANGED done /\ step' = [step EXCEPT ![r] = "done"]
           /\ responses' = [responses EXCEPT ![r] = Server!Replies(r)]
           /\ status' = [status EXCEPT ![r] = IF Server!Replies(r) = <<>> THEN 202 ELSE 200]
           /\ announced' = IF assigned[r] THEN announced \cup {key[r]} ELSE announced
BY DEF Server!Return, Server!Finish, Server!Batch

LEMMA DispatchAnswers ==
    ASSUME NEW r \in Server!Requests, Server!DispatchOne(r)
    PROVE  UNCHANGED <<status, announced>> /\ done[r] < Len(req[r].body.elements)
BY DEF Server!DispatchOne, Server!Batch

-----------------------------------------------------------------------------
LEMMA CollectedNone == ASSUME NEW b PROVE CollectedOf(<<>>, b, 0)
<1>1. Places(b, 0) = {}
    BY DEF Places
<1> QED BY <1>1, NoPlaces DEF CollectedOf

LEMMA CollectedOne ==
    ASSUME NEW b, NEW n \in Nat, NEW s \in Seq(Answers), CollectedOf(s, b, n)
    PROVE  /\ ~ Server!Due(b[n + 1]) => CollectedOf(s, b, n + 1)
           /\ \A x \in Answers : Server!Due(b[n + 1]) /\ x[1] = Server!SafeId(b[n + 1])
                 => CollectedOf(Append(s, x), b, n + 1)
<1>1. CASE ~ Server!Due(b[n + 1])
  <2>1. Places(b, n + 1) = Places(b, n)
    BY <1>1, OnePlaceMore
  <2> QED BY <1>1, <2>1 DEF CollectedOf
<1>2. ASSUME NEW x \in Answers, Server!Due(b[n + 1]), x[1] = Server!SafeId(b[n + 1])
      PROVE  CollectedOf(Append(s, x), b, n + 1)
  <2>1. /\ Places(b, n + 1) = Places(b, n) \cup {n + 1}
        /\ Cardinality(Places(b, n + 1)) = Len(s) + 1
    BY <1>2, OnePlaceMore DEF CollectedOf
  <2>2. Len(Append(s, x)) = Len(s) + 1 /\ Append(s, x)[Len(s) + 1] = x
    OBVIOUS
  <2>3. \A j \in 1 .. Len(s) : Append(s, x)[j] = s[j]
    OBVIOUS
  <2>4. ASSUME NEW i \in Places(b, n)
        PROVE  Append(s, x)[Cardinality(Places(b, i))][1] = Server!SafeId(b[i])
    <3>1. Cardinality(Places(b, i)) \in 1 .. Len(s)
        BY PlaceAmong DEF CollectedOf
    <3>2. s[Cardinality(Places(b, i))][1] = Server!SafeId(b[i])
        BY DEF CollectedOf
    <3> QED BY <2>3, <3>1, <3>2
  <2>5. Append(s, x)[Cardinality(Places(b, n + 1))][1] = Server!SafeId(b[n + 1])
    BY <1>2, <2>1, <2>2
  <2> QED BY <2>1, <2>2, <2>4, <2>5 DEF CollectedOf
<1> QED BY <1>1, <1>2

LEMMA QuietStays ==
    ASSUME NEW q, AnsweredSoFar(q), step'[q] = step[q], req'[q] = req[q],
           responses'[q] = responses[q], done'[q] = done[q], status'[q] = status[q]
    PROVE  AnsweredSoFar(q)'
BY DEF AnsweredSoFar

LEMMA OffersAreBodied ==
    ASSUME NEW q \in Offers
    PROVE  /\ Len(q.body.elements) \in Nat
           /\ \A i \in 1 .. Len(q.body.elements) :
                 q.body.elements[i].id \in {Absent, "null", "int", "text", "bool", "float"}
<1> DEFINE b == q.body.elements
<1>1. b \in Seq({b[i] : i \in DOMAIN b})
    BY OffersAssumption DEF Bodied
<1>2. Len(b) \in Nat /\ DOMAIN b = 1 .. Len(b)
    BY <1>1
<1>3. \A i \in DOMAIN b : b[i].id \in {Absent, "null", "int", "text", "bool", "float"}
    BY OffersAssumption DEF Bodied
<1> QED BY <1>2, <1>3

LEMMA AnsweredNext ==
    ASSUME Shapes, AnswerShapes, [Server!Next]_serverVars, NEW q \in Server!Requests,
           Named(q), AnsweredSoFar(q)
    PROVE  AnsweredSoFar(q)'
<1> USE DEF Shapes, AnswerShapes
<1>1. ASSUME NEW r \in Server!Requests, step[r] = "idle", Offered(r)
      PROVE  AnsweredSoFar(q)'
  <2>1. PICK o \in Offers :
           /\ req' = [req EXCEPT ![r] = o]
           /\ \/ step' = [step EXCEPT ![r] = "admitted"] /\ status' = status
              \/ /\ step' = [step EXCEPT ![r] = "done"]
                 /\ \E code : /\ status' = [status EXCEPT ![r] = code]
                              /\ o.verb # "POST" \/ code \notin {200, 202}
              \/ step' = [step EXCEPT ![r] = "dispatching"] /\ status' = status
    BY <1>1, OfferAnswers
  <2>2. responses' = responses /\ done' = done
    BY <1>1, OfferAnswers
  <2>3. CASE q # r
    BY <2>1, <2>2, <2>3, QuietStays
  <2>4. CASE q = r
    <3>1. responses'[q] = <<>> /\ done'[q] = 0 /\ req'[q] = o
        BY <1>1, <2>1, <2>2, <2>4 DEF AnsweredSoFar, Progress
    <3>2. \/ step'[q] = "admitted"
          \/ step'[q] = "done" /\ (o.verb # "POST" \/ status'[q] \notin {200, 202})
          \/ step'[q] = "dispatching"
        BY <2>1, <2>4
    <3>3. 0 <= Len(o.body.elements) /\ CollectedOf(<<>>, o.body.elements, 0)
        BY OffersAreBodied, CollectedNone
    <3>4. Progress(step'[q], o, <<>>, 0, status'[q])
        BY <3>2, <3>3 DEF Progress
    <3> QED BY <3>1, <3>4 DEF AnsweredSoFar
  <2> QED BY <2>3, <2>4
<1>2. ASSUME NEW r \in Server!Requests, Server!FindSession(r)
      PROVE  AnsweredSoFar(q)'
  <2>1. UNCHANGED <<responses, done, req>> /\ step[r] = "admitted"
    BY <1>2, FindAnswers, FindMoves
  <2>2. \/ status' = status /\ step' = [step EXCEPT ![r] = "checking"]
        \/ /\ step' = [step EXCEPT ![r] = "done"]
           /\ \E code : status' = [status EXCEPT ![r] = code] /\ code \notin {200, 202}
    BY <1>2, FindAnswers
  <2>3. CASE q # r
    BY <2>1, <2>2, <2>3, QuietStays
  <2>4. CASE q = r
    <3>1. responses'[q] = <<>> /\ done'[q] = 0
        BY <2>1, <2>4 DEF AnsweredSoFar, Progress
    <3>2. step'[q] = "checking" \/ (step'[q] = "done" /\ status'[q] \notin {200, 202})
        BY <2>2, <2>4
    <3> QED BY <3>1, <3>2 DEF AnsweredSoFar, Progress
  <2> QED BY <2>3, <2>4
<1>3. ASSUME NEW r \in Server!Requests, Server!CheckVersion(r)
      PROVE  AnsweredSoFar(q)'
  <2>1. UNCHANGED <<responses, done, req>> /\ step[r] = "checking"
    BY <1>3, CheckAnswers, OtherMoves
  <2>2. \/ status' = status /\ step' = [step EXCEPT ![r] = "dispatching"]
        \/ step' = [step EXCEPT ![r] = "done"] /\ status' = [status EXCEPT ![r] = 400]
    BY <1>3, CheckAnswers
  <2>3. CASE q # r
    BY <2>1, <2>2, <2>3, QuietStays
  <2>4. CASE q = r
    <3>1. responses'[q] = <<>> /\ done'[q] = 0 /\ req'[q] = req[q] /\ req[q] \in Offers
        BY <2>1, <2>4 DEF AnsweredSoFar, Progress, Named
    <3>2. step'[q] = "dispatching" \/ (step'[q] = "done" /\ status'[q] = 400)
        BY <2>2, <2>4
    <3>3. Len(req[q].body.elements) >= 0
        BY <3>1, OffersAreBodied
    <3> QED BY <3>1, <3>2, <3>3, CollectedNone DEF AnsweredSoFar, Progress
  <2> QED BY <2>3, <2>4
<1>4. ASSUME NEW r \in Server!Requests, Server!DispatchOne(r)
      PROVE  AnsweredSoFar(q)'
  <2> DEFINE b == req[r].body.elements
             n == done[r]
             e == b[n + 1]
  <2>1. /\ step[r] = "dispatching" /\ UNCHANGED <<step, req, status>>
        /\ done' = [done EXCEPT ![r] = n + 1] /\ n < Len(b)
    BY <1>4, DispatchMoves, DispatchAnswers
  <2>2. CASE q # r
    <3>1. ASSUME NEW x, NEW o, Server!Reply(r, x, o) PROVE responses'[q] = responses[q]
        BY <2>2, <3>1 DEF Server!Reply, Server!Answer
    <3>2. ASSUME NEW x, Server!Call(r, x) PROVE responses'[q] = responses[q]
        BY <3>1, <3>2 DEF Server!Call
    <3>3. ASSUME NEW i, NEW o, Server!Answer(r, i, o) PROVE responses'[q] = responses[q]
        BY <2>2, <3>3 DEF Server!Answer
    <3>4. responses'[q] = responses[q]
        BY <1>4, <3>2, <3>3 DEF Server!DispatchOne
    <3> QED BY <2>1, <2>2, <3>4, QuietStays
  <2>3. CASE q = r
    <3>1. n \in Nat /\ Len(b) \in Nat /\ CollectedOf(responses[r], b, n)
        BY <2>1, <2>3, OffersAreBodied DEF AnsweredSoFar, Progress, Named
    <3>2. e.id \in {Absent, "null", "int", "text", "bool", "float"}
      <4>1. n + 1 \in 1 .. Len(b) /\ req[r] \in Offers
        BY <2>1, <2>3, <3>1 DEF Named
      <4> QED BY <4>1, OffersAreBodied
    <3>3. e = Server!Batch(r)[done[r] + 1]
        BY DEF Server!Batch
    <3>4. responses[r] \in Seq(Answers)
        OBVIOUS
    <3> HIDE DEF b, n, e
    <3>5. CASE Server!Due(e)
      <4>1. PICK o \in Outcomes :
               responses' = [responses EXCEPT ![r] = Append(responses[r], <<Server!SafeId(e), o>>)]
        BY <1>4, <3>2, <3>3, <3>5, ElementAnswered
      <4>2. <<Server!SafeId(e), o>> \in Answers
        BY <1>4, <3>2, <3>3, <3>5, ElementAnswered DEF Answers
      <4>3. responses'[r] = Append(responses[r], <<Server!SafeId(e), o>>)
        BY <4>1
      <4>4. CollectedOf(responses'[r], b, n + 1)
        BY <3>1, <3>4, <3>5, <4>2, <4>3, CollectedOne DEF e
      <4> QED BY <2>1, <2>3, <3>1, <4>4 DEF AnsweredSoFar, Progress, b
    <3>6. CASE ~ Server!Due(e)
      <4>1. responses' = responses
        BY <1>4, <3>2, <3>3, <3>6, ElementAnswered
      <4>2. CollectedOf(responses'[r], b, n + 1)
        BY <3>1, <3>4, <3>6, <4>1, CollectedOne DEF e
      <4> QED BY <2>1, <2>3, <3>1, <4>2 DEF AnsweredSoFar, Progress, b
    <3> QED BY <3>5, <3>6
  <2> QED BY <2>2, <2>3
<1>5. ASSUME NEW r \in Server!Requests, Server!Return(r)
      PROVE  AnsweredSoFar(q)'
  <2> DEFINE s == Server!Replies(r)
  <2>1. /\ step[r] = "dispatching" /\ done[r] = Len(req[r].body.elements)
        /\ UNCHANGED <<req, done>> /\ step' = [step EXCEPT ![r] = "done"]
        /\ responses' = [responses EXCEPT ![r] = s]
        /\ status' = [status EXCEPT ![r] = IF s = <<>> THEN 202 ELSE 200]
    BY <1>5, ReturnAnswers, OtherMoves
  <2>2. CASE q # r
    BY <2>1, <2>2, QuietStays
  <2>3. CASE q = r
    <3>1. CollectedOf(responses[r], req[r].body.elements, Len(req[r].body.elements))
        BY <2>1, <2>3 DEF AnsweredSoFar, Progress
    <3>2. s = IF ~ req[r].body.parses THEN <<<<"null", "parse error">>>>
              ELSE IF req[r].body.elements = <<>> THEN <<<<"null", "invalid request">>>>
              ELSE responses[r]
        BY DEF Server!Replies, Server!Batch
    <3>3. /\ responses'[q] = s /\ status'[q] = IF s = <<>> THEN 202 ELSE 200
          /\ step'[q] = "done" /\ req'[q] = req[r]
        BY <2>1, <2>3
    <3> HIDE DEF s
    <3>4. Whole(IF s = <<>> THEN 202 ELSE 200, s, req[r].body)
      <4>1. CASE ~ req[r].body.parses \/ req[r].body.elements = <<>>
        <5>1. Len(s) = 1 /\ s[1][1] = "null" /\ s # <<>>
            BY <3>2, <4>1
        <5> QED BY <4>1, <5>1 DEF Whole
      <4>2. CASE req[r].body.parses /\ req[r].body.elements # <<>>
        BY <3>1, <3>2, <4>2 DEF Whole
      <4> QED BY <4>1, <4>2
    <3> QED BY <3>3, <3>4 DEF AnsweredSoFar, Progress
  <2> QED BY <2>2, <2>3
<1>6. CASE UNCHANGED serverVars
    BY <1>6, QuietStays DEF serverVars
<1> QED BY <1>1, <1>2, <1>3, <1>4, <1>5, <1>6, StepKinds

-----------------------------------------------------------------------------
LEMMA AnswerShapesNext ==
    ASSUME Shapes, AnswerShapes, SessionsAreGivenOut, [Server!Next]_serverVars,
           \A r \in Server!Requests : Named(r)
    PROVE  AnswerShapes'
<1> USE DEF Shapes, AnswerShapes
<1>1. (Server!Requests)' = Server!Requests /\ (Server!Sids)' = Server!Sids /\ Keys' = Keys
    BY DEF Server!Requests, Server!Sids, Keys
<1>2. ASSUME UNCHANGED <<config, readyKeys, announced, responses>>,
             status' = status \/ \E r, c : status' = [status EXCEPT ![r] = c]
      PROVE  AnswerShapes'
  <2>1. status' = [r \in Server!Requests |-> status'[r]]
    BY <1>2
  <2> QED BY <1>1, <1>2, <2>1
<1>3. ASSUME NEW r \in Server!Requests, step[r] = "idle", Offered(r) PROVE AnswerShapes'
  <2>1. UNCHANGED <<config, readyKeys, announced, responses>>
    BY <1>3, OfferMoves, OfferAnswers
  <2>2. status' = status \/ \E c : status' = [status EXCEPT ![r] = c]
    BY <1>3, OfferAnswers
  <2> QED BY <1>2, <2>1, <2>2
<1>4. ASSUME NEW r \in Server!Requests, Server!FindSession(r) PROVE AnswerShapes'
  <2>1. UNCHANGED <<config, readyKeys, announced, responses>>
    BY <1>4, FindMoves, FindAnswers
  <2>2. status' = status \/ \E c : status' = [status EXCEPT ![r] = c]
    BY <1>4, FindAnswers
  <2> QED BY <1>2, <2>1, <2>2
<1>5. ASSUME NEW r \in Server!Requests, Server!CheckVersion(r) PROVE AnswerShapes'
  <2>1. UNCHANGED <<config, readyKeys, announced, responses>>
    BY <1>5, OtherMoves, CheckAnswers
  <2>2. status' = status \/ \E c : status' = [status EXCEPT ![r] = c]
    BY <1>5, CheckAnswers
  <2> QED BY <1>2, <2>1, <2>2
<1>6. ASSUME NEW r \in Server!Requests, Server!DispatchOne(r) PROVE AnswerShapes'
  <2>1. UNCHANGED <<config, announced, status>> /\ step[r] = "dispatching"
    BY <1>6, DispatchMoves, DispatchAnswers
  <2>2. Named(r)
    OBVIOUS
  <2>3. key[r] \in Keys /\ req[r] \in Offers
    BY <2>1, <2>2 DEF Named
  <2>4. readyKeys' \subseteq readyKeys \cup {key[r]}
    BY <1>6, DispatchMoves
  <2>5. PICK e : e = Server!Batch(r)[done[r] + 1]
    OBVIOUS
  <2>6. e.id \in {Absent, "null", "int", "text", "bool", "float"}
    <3>1. done[r] + 1 \in 1 .. Len(req[r].body.elements)
        BY <1>6, <2>3, DispatchAnswers, OffersAreBodied
    <3> QED BY <2>3, <2>5, <3>1, OffersAreBodied DEF Server!Batch
  <2>7. \/ responses' = responses
        \/ \E x \in Answers : responses' = [responses EXCEPT ![r] = Append(responses[r], x)]
    <3>1. CASE Server!Due(e)
      <4>1. PICK o \in Outcomes :
               responses' = [responses EXCEPT ![r] = Append(responses[r], <<Server!SafeId(e), o>>)]
        BY <1>6, <2>5, <2>6, <3>1, ElementAnswered
      <4>2. <<Server!SafeId(e), o>> \in Answers
        BY <1>6, <2>5, <2>6, <3>1, ElementAnswered DEF Answers
      <4> QED BY <4>1, <4>2
    <3>2. CASE ~ Server!Due(e)
        BY <1>6, <2>5, <2>6, <3>2, ElementAnswered
    <3> QED BY <3>1, <3>2
  <2>8. responses[r] \in Seq(Answers)
    OBVIOUS
  <2>9. \A x \in Answers : Append(responses[r], x) \in Seq(Answers)
    BY <2>8
  <2>10. responses' \in [Server!Requests -> Seq(Answers)]
    BY <2>7, <2>9
  <2> QED BY <1>1, <2>1, <2>3, <2>4, <2>10
<1>7. ASSUME NEW r \in Server!Requests, Server!Return(r) PROVE AnswerShapes'
  <2>1. UNCHANGED <<config, readyKeys>>
    BY <1>7, OtherMoves
  <2>2. status' = [q \in Server!Requests |-> status'[q]]
    BY <1>7, ReturnAnswers
  <2>3. assigned[r] => key[r] \in Server!Sids
    BY DEF SessionsAreGivenOut, Givers
  <2>4. announced' \subseteq Server!Sids
    BY <1>7, <2>3, ReturnAnswers
  <2>5. <<"null", "parse error">> \in Answers /\ <<"null", "invalid request">> \in Answers
    BY DEF Answers, Outcomes
  <2>6. Server!Replies(r) \in Seq(Answers)
    <3>1. responses[r] \in Seq(Answers)
        OBVIOUS
    <3>2. \A x \in Answers : <<x>> \in Seq(Answers)
        OBVIOUS
    <3> QED BY <2>5, <3>1, <3>2 DEF Server!Replies
  <2>7. responses' \in [Server!Requests -> Seq(Answers)]
    BY <1>7, <2>6, ReturnAnswers
  <2> QED BY <1>1, <2>1, <2>2, <2>4, <2>7
<1>8. CASE UNCHANGED serverVars
    BY <1>2, <1>8 DEF serverVars
<1> QED BY <1>3, <1>4, <1>5, <1>6, <1>7, <1>8, StepKinds

LEMMA NamedNext ==
    ASSUME Shapes, AnswerShapes, [Server!Next]_serverVars, NEW q \in Server!Requests, Named(q),
           sessions \subseteq Server!Sids
    PROVE  Named(q)'
<1> USE DEF Shapes, AnswerShapes
<1>1. Keys' = Keys
    BY DEF Keys, Server!Sids
<1>2. ASSUME NEW r \in Server!Requests, step[r] = "idle", Offered(r)
      PROVE  Named(q)'
  <2>1. PICK o \in Offers :
           /\ req' = [req EXCEPT ![r] = o]
           /\ \/ /\ step' = [step EXCEPT ![r] = "admitted"] /\ key' = key
                 /\ o.header \in announced \cup {Absent, Bogus}
              \/ step' = [step EXCEPT ![r] = "done"] /\ key' = key
              \/ step' = [step EXCEPT ![r] = "dispatching"] /\ key' = [key EXCEPT ![r] = Stdio]
    BY <1>2, OfferAnswers
  <2>2. CASE q # r
    BY <1>1, <2>1, <2>2 DEF Named
  <2>3. CASE q = r
    <3>1. req'[q] = o
        BY <2>1, <2>3
    <3>2. \/ step'[q] = "admitted" /\ o.header \in Keys
          \/ step'[q] = "done"
          \/ step'[q] = "dispatching" /\ key'[q] \in Keys
        BY <2>1, <2>3 DEF Keys
    <3> QED BY <1>1, <3>1, <3>2 DEF Named
  <2> QED BY <2>2, <2>3
<1>3. ASSUME NEW r \in Server!Requests, Server!FindSession(r)
      PROVE  Named(q)'
  <2>1. UNCHANGED req /\ step[r] = "admitted"
    BY <1>3, FindMoves
  <2>2. CASE q # r
    <3>1. step'[q] = step[q] /\ key'[q] = key[q]
        BY <1>3, <2>2, FindMoves
    <3> QED BY <1>1, <2>1, <3>1 DEF Named
  <2>3. CASE q = r
    <3>1. step'[q] \in {"checking", "done"}
        BY <1>3, <2>3, FindMoves
    <3>2. key'[q] \in Keys
        BY <1>3, <2>1, <2>3, FindMoves DEF Named, Keys
    <3> QED BY <1>1, <2>1, <2>3, <3>1, <3>2 DEF Named
  <2> QED BY <2>2, <2>3
<1>4. ASSUME NEW r \in Server!Requests, Server!DispatchOne(r)
      PROVE  Named(q)'
    BY <1>1, <1>4, DispatchMoves DEF Named
<1>5. ASSUME NEW r \in Server!Requests, Server!CheckVersion(r) \/ Server!Return(r)
      PROVE  Named(q)'
  <2>1. UNCHANGED <<req, key>> /\ step[r] \in {"checking", "dispatching"}
    BY <1>5, OtherMoves
  <2>2. step'[q] = step[q] \/ (q = r /\ step'[q] \in {"dispatching", "done"})
    BY <1>5, OtherMoves
  <2> QED BY <1>1, <2>1, <2>2 DEF Named
<1>6. CASE UNCHANGED serverVars
    BY <1>1, <1>6 DEF serverVars, Named
<1> QED BY <1>2, <1>3, <1>4, <1>5, <1>6, StepKinds

(* A client is told one session by one answer.                             *)
LEMMA ToldNext ==
    ASSUME Shapes, AnswerShapes, SessionsAreGivenOut, Told, [Server!Next]_serverVars
    PROVE  Told'
<1>1. ASSUME NEW q \in Givers
      PROVE  q \in Server!Requests /\ key'[q] = key[q] /\ step[q] \notin {"idle", "admitted"}
    BY MadeOnce DEF SessionsAreGivenOut, Givers
<1>2. CASE /\ Givers' = Givers /\ announced' = announced
           /\ \A q \in Givers : step[q] = "done" =>
                 step'[q] = "done" /\ status'[q] = status[q]
    BY <1>1, <1>2 DEF Told
<1>3. ASSUME NEW r \in Server!Requests, step[r] = "idle", Offered(r)
      PROVE  Told'
  <2>1. Givers' = Givers /\ announced' = announced
    BY <1>3, OfferMoves, OfferAnswers, GiversStay
  <2>2. \A q \in Givers : q \in Server!Requests /\ q # r
    BY <1>1, <1>3
  <2>3. \A q \in Server!Requests \ {r} : step'[q] = step[q] /\ status'[q] = status[q]
    BY <1>3, OfferAnswers DEF Shapes, AnswerShapes
  <2> QED BY <1>2, <2>1, <2>2, <2>3
<1>4. ASSUME NEW r \in Server!Requests, Server!FindSession(r), assigned' = assigned
      PROVE  Told'
  <2>1. Givers' = Givers /\ announced' = announced /\ step[r] = "admitted"
    BY <1>4, FindMoves, FindAnswers, GiversStay
  <2>2. \A q \in Givers : q \in Server!Requests /\ q # r
    BY <1>1, <2>1
  <2>3. \A q \in Server!Requests \ {r} : step'[q] = step[q] /\ status'[q] = status[q]
    <3>1. status' = status \/ \E c : status' = [status EXCEPT ![r] = c]
        BY <1>4, FindAnswers
    <3>2. \E at : step' = [step EXCEPT ![r] = at]
        BY <1>4, FindAnswers
    <3> QED BY <3>1, <3>2 DEF Shapes, AnswerShapes
  <2> QED BY <1>2, <2>1, <2>2, <2>3
<1>5. ASSUME NEW r \in Server!Requests, Server!FindSession(r), assigned' # assigned
      PROVE  Told'
  <2> DEFINE n == Cardinality(Givers) + 1
  <2>1. /\ step[r] = "admitted" /\ key' = [key EXCEPT ![r] = n]
        /\ assigned' = [assigned EXCEPT ![r] = TRUE] /\ UNCHANGED <<status, announced>>
        /\ step' = [step EXCEPT ![r] = "checking"]
    BY <1>5, FindMoves, FindAnswers
  <2>2. Givers' = Givers \cup {r} /\ r \notin Givers /\ key'[r] = n
    BY <2>1 DEF Givers, SessionsAreGivenOut, Server!Requests, Shapes
  <2>3. \A q \in Givers : key[q] # n
    <3>1. \A q \in Givers : key[q] \in Nat /\ key[q] <= Cardinality(Givers)
        BY DEF SessionsAreGivenOut, Server!Sids
    <3> QED BY <3>1, GiversAreFinite
  <2>4. n \notin announced
    BY <2>3 DEF Told
  <2>5. \A q \in Givers : key'[q] = key[q] /\ step'[q] = step[q] /\ status'[q] = status[q]
    BY <1>1, <2>1, <2>2 DEF Shapes, AnswerShapes
  <2> HIDE DEF n
  <2>6. \A s \in announced' : \E q \in Givers' : key'[q] = s
    BY <2>1, <2>2, <2>5 DEF Told
  <2>7. \A q \in Givers' : key'[q] \in announced' => step'[q] = "done" /\ status'[q] \in {200, 202}
    BY <2>1, <2>2, <2>4, <2>5 DEF Told
  <2>8. \A q1, q2 \in Givers' : key'[q1] = key'[q2] => q1 = q2
    BY <2>2, <2>3, <2>5 DEF Told
  <2> QED BY <2>6, <2>7, <2>8 DEF Told
<1>6. ASSUME NEW r \in Server!Requests, Server!CheckVersion(r)
      PROVE  Told'
  <2>1. Givers' = Givers /\ announced' = announced /\ step[r] = "checking"
    BY <1>6, OtherMoves, CheckAnswers, GiversStay
  <2>2. \A q \in Server!Requests \ {r} : step'[q] = step[q] /\ status'[q] = status[q]
    <3>1. status' = status \/ \E c : status' = [status EXCEPT ![r] = c]
        BY <1>6, CheckAnswers
    <3>2. \E at : step' = [step EXCEPT ![r] = at]
        BY <1>6, CheckAnswers
    <3> QED BY <3>1, <3>2 DEF Shapes, AnswerShapes
  <2>3. \A q \in Givers : step[q] = "done" => step'[q] = "done" /\ status'[q] = status[q]
    BY <1>1, <2>1, <2>2
  <2> QED BY <1>2, <2>1, <2>3
<1>7. ASSUME NEW r \in Server!Requests, Server!DispatchOne(r)
      PROVE  Told'
  <2>1. Givers' = Givers /\ UNCHANGED <<announced, step, status>>
    BY <1>7, DispatchMoves, DispatchAnswers, GiversStay
  <2> QED BY <1>2, <2>1
<1>8. ASSUME NEW r \in Server!Requests, Server!Return(r)
      PROVE  Told'
  <2>1. Givers' = Givers /\ step[r] = "dispatching" /\ step' = [step EXCEPT ![r] = "done"]
    BY <1>8, OtherMoves, ReturnAnswers, GiversStay
  <2>2. PICK c \in {200, 202} : status' = [status EXCEPT ![r] = c]
    BY <1>8, ReturnAnswers
  <2>3. \/ announced' = announced
        \/ r \in Givers /\ announced' = announced \cup {key[r]}
    BY <1>8, ReturnAnswers DEF Givers
  <2>4. step'[r] = "done" /\ status'[r] \in {200, 202}
    BY <2>1, <2>2 DEF Shapes, AnswerShapes
  <2>5. \A q \in Server!Requests \ {r} : step'[q] = step[q] /\ status'[q] = status[q]
    BY <2>1, <2>2 DEF Shapes, AnswerShapes
  <2>6. \A s \in announced' : \E q \in Givers' : key'[q] = s
    BY <1>1, <2>1, <2>3 DEF Told
  <2>7. ASSUME NEW q \in Givers', key'[q] \in announced'
        PROVE  step'[q] = "done" /\ status'[q] \in {200, 202}
    <3>1. q \in Givers /\ key[q] \in announced' /\ q \in Server!Requests
        BY <1>1, <2>1, <2>7
    <3>2. CASE q = r
        BY <2>4, <3>2
    <3>3. CASE q # r
        BY <2>3, <2>5, <3>1, <3>3 DEF Told
    <3> QED BY <3>2, <3>3
  <2>8. \A q1, q2 \in Givers' : key'[q1] = key'[q2] => q1 = q2
    BY <1>1, <2>1 DEF Told
  <2> QED BY <2>6, <2>7, <2>8 DEF Told
<1>9. CASE UNCHANGED serverVars
  <2>1. Givers' = Givers /\ UNCHANGED <<announced, step, status>>
    BY <1>9, GiversStay DEF serverVars
  <2> QED BY <1>2, <2>1
<1> QED BY <1>3, <1>4, <1>5, <1>6, <1>7, <1>8, <1>9, StepKinds

-----------------------------------------------------------------------------
LEMMA BeginAnswers == Server!Init => AnswerInv
<1> SUFFICES ASSUME Server!Init PROVE AnswerInv
    OBVIOUS
<1> USE DEF Server!Init
<1>1. AnswerShapes
    BY DEF AnswerShapes
<1>2. Told
    BY DEF Told, Givers
<1>3. ASSUME NEW r \in Server!Requests PROVE Named(r) /\ AnsweredSoFar(r)
    BY DEF Named, AnsweredSoFar, Progress
<1> QED BY <1>1, <1>2, <1>3 DEF AnswerInv

LEMMA AnswerInvHolds == MCSpec => []AnswerInv
<1>1. MCInit => AnswerInv
    BY BeginAnswers DEF MCInit
<1>2. ProtocolInv /\ AnswerInv /\ [MCNext]_<<part, vars, serverVars>> => AnswerInv'
  <2> SUFFICES ASSUME ProtocolInv, AnswerInv, [MCNext]_<<part, vars, serverVars>>
               PROVE  AnswerInv'
    OBVIOUS
  <2>1. [Server!Next]_serverVars
    BY DEF MCNext
  <2>2. /\ Shapes /\ SessionsAreGivenOut /\ sessions \subseteq Server!Sids
        /\ AnswerShapes /\ Told /\ \A r \in Server!Requests : Named(r) /\ AnsweredSoFar(r)
    BY DEF ProtocolInv, Shapes, AnswerInv
  <2>3. AnswerShapes'
    BY <2>1, <2>2, AnswerShapesNext
  <2>4. Told'
    BY <2>1, <2>2, ToldNext
  <2>5. \A r \in Server!Requests : Named(r)' /\ AnsweredSoFar(r)'
    BY <2>1, <2>2, NamedNext, AnsweredNext
  <2>6. (Server!Requests)' = Server!Requests
    BY DEF Server!Requests
  <2> QED BY <2>3, <2>4, <2>5, <2>6 DEF AnswerInv
<1> QED BY <1>1, <1>2, ProtocolInvHolds, PTL DEF MCSpec

(* The answers to a body are the ones its elements have due, each once, in *)
(* their order and under their ids, and a request that is refused has had  *)
(* no effect but a session that nobody was told: rpc/router.py dispatches  *)
(* a frame element by element, and transport/http.py gives the session out *)
(* before it looks at the protocol version.                                *)
THEOREM RpcAnsweredOnce == MCSpec => []AnsweredOnce
<1>1. ProtocolInv /\ AnswerInv => Server!TypeOK
  <2> SUFFICES ASSUME ProtocolInv, AnswerInv PROVE Server!TypeOK
    OBVIOUS
  <2>1. /\ config \in Configs /\ sessions \in SUBSET Server!Sids
        /\ readyKeys \in SUBSET (Server!Sids \cup {Absent, Bogus, Stdio})
    BY DEF ProtocolInv, AnswerInv, Shapes, AnswerShapes, Keys
  <2>2. ASSUME NEW r \in Server!Requests
        PROVE  /\ step[r] \in {"idle", "admitted", "checking", "dispatching", "done"}
               /\ assigned[r] => key[r] \in Server!Sids
    BY DEF ProtocolInv, Shapes, Steps, SessionsAreGivenOut, Givers
  <2>3. ASSUME NEW r \in Server!Requests, NEW i \in DOMAIN responses[r]
        PROVE  responses[r][i][1] \in Server!Ids \ {Absent, "bool", "float"}
    <3>1. responses[r] \in Seq(Answers)
        BY DEF AnswerInv, AnswerShapes
    <3>2. responses[r][i] \in Answers
        BY <3>1
    <3>3. responses[r][i][1] \in {"null", "int", "text"}
        BY <3>2 DEF Answers
    <3> QED BY <3>3, OffersAssumption DEF Server!Ids
  <2> QED BY <2>1, <2>2, <2>3 DEF Server!TypeOK
<1>2. ProtocolInv /\ AnswerInv => Server!AnsweredOnce
  <2> SUFFICES ASSUME ProtocolInv, AnswerInv, NEW r \in Server!Requests,
                      step[r] = "done", req[r].verb = "POST"
               PROVE  IF status[r] \in {200, 202}
                      THEN /\ (status[r] = 202) <=> (responses[r] = <<>>)
                           /\ IF ~ req[r].body.parses \/ Server!Batch(r) = <<>>
                              THEN Len(responses[r]) = 1 /\ responses[r][1][1] = "null"
                              ELSE Server!Collected(r, Len(Server!Batch(r)))
                      ELSE /\ responses[r] = <<>> /\ done[r] = 0
                           /\ assigned[r] => key[r] \notin announced
    BY DEF Server!AnsweredOnce
  <2>1. AnsweredSoFar(r) /\ Told
    BY DEF AnswerInv
  <2>2. CASE status[r] \in {200, 202}
    <3>1. Whole(status[r], responses[r], req[r].body)
        BY <2>1, <2>2 DEF AnsweredSoFar, Progress
    <3>2. ASSUME NEW n, CollectedOf(responses[r], req[r].body.elements, n)
          PROVE  Server!Collected(r, n)
      <4>1. \A i : Server!DuePlaces(r, i) = Places(req[r].body.elements, i)
        BY DEF Server!DuePlaces, Places, Server!Batch
      <4> QED BY <3>2, <4>1, SameCardinality DEF CollectedOf, Server!Collected, Server!Batch
    <3> QED BY <2>2, <3>1, <3>2 DEF Whole, Server!Batch
  <2>3. CASE status[r] \notin {200, 202}
    <3>1. responses[r] = <<>> /\ done[r] = 0
        BY <2>1, <2>3 DEF AnsweredSoFar, Progress
    <3>2. assigned[r] => key[r] \notin announced
        BY <2>1, <2>3 DEF Told, Givers
    <3> QED BY <2>3, <3>1, <3>2
  <2> QED BY <2>2, <2>3
<1> QED BY <1>1, <1>2, ProtocolInvHolds, AnswerInvHolds, PTL DEF AnsweredOnce
=============================================================================
