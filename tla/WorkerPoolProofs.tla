------------------------- MODULE WorkerPoolProofs -------------------------
(* Theorems about WorkerPool, for every set of ids, opens and closers and  *)
(* every cap.                                                              *)
EXTENDS WorkerPool, FiniteSetTheorems, TLAPS

(* A registered record carries its own id, and its open has not yet passed *)
(* the point where it gives the registration up.                           *)
RegisteredBySid == \A x \in Ids : sessions[x] # NoOpen =>
    /\ sid[sessions[x]] = x
    /\ call[sessions[x]] \in {"reserved", "copied", "spawned", "ready", "open", "failed"}

(* A process exists only after the spawn, and is dead on the error paths.  *)
ProcessByStage == \A o \in Opens :
    /\ call[o] \in {"new", "shared", "refused", "reserved", "copied"} => proc[o] = "none"
    /\ call[o] \in {"failed", "discarded", "killed", "raised"} => ~ Running(o)
    /\ call[o] \in {"spawned", "ready", "open", "cancelled"} => proc[o] # "none"

IInv == TypeOK /\ RegisteredBySid /\ ProcessByStage /\ NoOrphan

(* The initial state satisfies the inductive invariant.                    *)
LEMMA InitIInv == Init => IInv
<1> SUFFICES ASSUME Init PROVE IInv
    OBVIOUS
<1> USE PoolAssumption DEF Init
<1>1. TypeOK
    BY DEF TypeOK, Stages, InFlight
<1>2. RegisteredBySid /\ ProcessByStage /\ NoOrphan
    BY DEF RegisteredBySid, ProcessByStage, NoOrphan, Running
<1> QED BY <1>1, <1>2 DEF IInv

(* Every step keeps the type invariant.                                    *)
LEMMA NextTypeOK == TypeOK /\ [Next]_vars => TypeOK'
<1> SUFFICES ASSUME TypeOK, [Next]_vars PROVE TypeOK'
    OBVIOUS
<1> USE PoolAssumption DEF TypeOK, InFlight, Stages
<1>1. ASSUME NEW o \in Opens, NEW want \in Ids \cup {NoId},
             OpenBusy(o, want) \/ OpenShared(o, want)
      PROVE  TypeOK'
    BY <1>1 DEF OpenBusy, OpenShared
<1>2. ASSUME NEW o \in Opens, NEW want \in Ids \cup {NoId}, OpenLimit(o, want)
      PROVE  TypeOK'
    BY <1>2 DEF OpenLimit, ReapedSessions, ReapedScratch
<1>3. ASSUME NEW o \in Opens, NEW want \in Ids \cup {NoId}, OpenReserve(o, want)
      PROVE  TypeOK'
    <2>1. PICK x \in ReservableIds(want) :
             /\ sessions' = [ReapedSessions EXCEPT ![x] = o]
             /\ sid' = [sid EXCEPT ![o] = x]
        BY <1>3 DEF OpenReserve
    <2>2. x \in Ids
        BY <1>3, <2>1 DEF OpenReserve, MustReserve, ReservableIds
    <2> QED BY <1>3, <2>1, <2>2 DEF OpenReserve, ReapedSessions, ReapedScratch
<1>4. ASSUME NEW o \in Opens,
             Materialize(o) \/ MaterializeFails(o) \/ Spawn(o) \/ SpawnFails(o)
      PROVE  TypeOK'
    BY <1>4 DEF Materialize, MaterializeFails, Spawn, SpawnFails
<1>5. ASSUME NEW o \in Opens,
             HandshakeOk(o) \/ HandshakeEof(o) \/ HandshakeTimeout(o)
      PROVE  TypeOK'
    BY <1>5 DEF HandshakeOk, HandshakeEof, HandshakeTimeout
<1>6. ASSUME NEW o \in Opens, Discard(o) PROVE TypeOK'
    BY <1>6 DEF Discard, DiscardId
<1>7. ASSUME NEW o \in Opens, CleanupAndRaise(o) \/ Publish(o) \/ KillCancelled(o)
      PROVE  TypeOK'
    BY <1>7 DEF CleanupAndRaise, Publish, KillCancelled
<1>8. ASSUME NEW o \in Opens, WorkerReady(o) \/ WorkerExits(o) PROVE TypeOK'
    BY <1>8 DEF WorkerReady, WorkerExits
<1>9. ASSUME NEW c \in Closers, NEW x \in Ids, ClosePop(c, x) PROVE TypeOK'
    BY <1>9 DEF ClosePop
<1>10. ASSUME NEW c \in Closers, CloseAllPop(c) PROVE TypeOK'
    BY <1>10 DEF CloseAllPop, RegisteredIds
<1>11. ASSUME NEW c \in Closers, NEW o \in Opens, CloserTerminate(c, o) PROVE TypeOK'
    BY <1>11 DEF CloserTerminate
<1>12. ASSUME NEW c \in Closers, CloserCleanup(c) PROVE TypeOK'
    BY <1>12 DEF CloserCleanup
<1>13. ASSUME NEW x \in Ids, GetDead(x) PROVE TypeOK'
    BY <1>13 DEF GetDead, DiscardId
<1>14. CASE Reap
    BY <1>14 DEF Reap, ReapedSessions, ReapedScratch
<1>15. CASE UNCHANGED vars
    BY <1>15 DEF vars
<1> QED
    BY <1>1, <1>2, <1>3, <1>4, <1>5, <1>6, <1>7, <1>8, <1>9, <1>10, <1>11,
       <1>12, <1>13, <1>14, <1>15
    DEF Next, OpenCall, OpenStep, WorkerStep, CloserCall, CloserStep

(* Every step keeps the facts that tie a registration to its open.         *)
LEMMA NextRegisteredBySid ==
    TypeOK /\ RegisteredBySid /\ [Next]_vars => RegisteredBySid'
<1> SUFFICES ASSUME TypeOK, RegisteredBySid, [Next]_vars PROVE RegisteredBySid'
    OBVIOUS
<1> USE PoolAssumption DEF TypeOK, RegisteredBySid, InFlight, Stages
<1>1. ASSUME NEW o \in Opens, NEW want \in Ids \cup {NoId},
             OpenBusy(o, want) \/ OpenShared(o, want)
      PROVE  RegisteredBySid'
    BY <1>1 DEF OpenBusy, OpenShared
<1>2. ASSUME NEW o \in Opens, NEW want \in Ids \cup {NoId}, OpenLimit(o, want)
      PROVE  RegisteredBySid'
    BY <1>2 DEF OpenLimit, MustReserve, ReapedSessions
<1>3. ASSUME NEW o \in Opens, NEW want \in Ids \cup {NoId}, OpenReserve(o, want)
      PROVE  RegisteredBySid'
    <2>1. PICK x \in ReservableIds(want) :
             /\ sessions' = [ReapedSessions EXCEPT ![x] = o]
             /\ sid' = [sid EXCEPT ![o] = x]
        BY <1>3 DEF OpenReserve
    <2>2. x \in Ids /\ call[o] = "new"
        BY <1>3, <2>1 DEF OpenReserve, MustReserve, ReservableIds
    <2>3. call' = [call EXCEPT ![o] = "reserved"]
        BY <1>3 DEF OpenReserve
    <2> QED BY <2>1, <2>2, <2>3 DEF ReapedSessions
<1>4. ASSUME NEW o \in Opens,
             Materialize(o) \/ MaterializeFails(o) \/ Spawn(o) \/ SpawnFails(o)
      PROVE  RegisteredBySid'
    BY <1>4 DEF Materialize, MaterializeFails, Spawn, SpawnFails
<1>5. ASSUME NEW o \in Opens,
             HandshakeOk(o) \/ HandshakeEof(o) \/ HandshakeTimeout(o)
      PROVE  RegisteredBySid'
    BY <1>5 DEF HandshakeOk, HandshakeEof, HandshakeTimeout
<1>6. ASSUME NEW o \in Opens, Discard(o) PROVE RegisteredBySid'
    BY <1>6 DEF Discard, DiscardId
<1>7. ASSUME NEW o \in Opens, CleanupAndRaise(o) \/ Publish(o) \/ KillCancelled(o)
      PROVE  RegisteredBySid'
    BY <1>7 DEF CleanupAndRaise, Publish, KillCancelled, StillRegistered
<1>8. ASSUME NEW o \in Opens, WorkerReady(o) \/ WorkerExits(o) PROVE RegisteredBySid'
    BY <1>8 DEF WorkerReady, WorkerExits
<1>9. ASSUME NEW c \in Closers, CloserCall(c) \/ CloserStep(c) PROVE RegisteredBySid'
    BY <1>9 DEF CloserCall, CloserStep, ClosePop, CloseAllPop, CloserTerminate,
                CloserCleanup
<1>10. ASSUME NEW x \in Ids, GetDead(x) PROVE RegisteredBySid'
    BY <1>10 DEF GetDead, DiscardId
<1>11. CASE Reap
    BY <1>11 DEF Reap, ReapedSessions
<1>12. CASE UNCHANGED vars
    BY <1>12 DEF vars
<1> QED
    BY <1>1, <1>2, <1>3, <1>4, <1>5, <1>6, <1>7, <1>8, <1>9, <1>10, <1>11, <1>12
    DEF Next, OpenCall, OpenStep, WorkerStep

(* Every step keeps the facts that tie a process to its open's stage.      *)
LEMMA NextProcessByStage ==
    TypeOK /\ ProcessByStage /\ RegisteredBySid /\ [Next]_vars => ProcessByStage'
<1> SUFFICES ASSUME TypeOK, ProcessByStage, RegisteredBySid, [Next]_vars
             PROVE  ProcessByStage'
    OBVIOUS
<1> USE PoolAssumption DEF TypeOK, ProcessByStage, InFlight, Stages, Running
<1>1. ASSUME NEW o \in Opens, OpenCall(o) PROVE ProcessByStage'
    BY <1>1 DEF OpenCall, OpenBusy, OpenShared, OpenLimit, OpenReserve, MustReserve
<1>2. ASSUME NEW o \in Opens, OpenStep(o), ~ Discard(o) PROVE ProcessByStage'
    BY <1>2 DEF OpenStep, Materialize, MaterializeFails, Spawn, SpawnFails,
                HandshakeOk, HandshakeEof, HandshakeTimeout, CleanupAndRaise,
                Publish, KillCancelled
<1>3. ASSUME NEW o \in Opens, Discard(o) PROVE ProcessByStage'
    BY <1>3 DEF Discard, DiscardId
<1>4. ASSUME NEW o \in Opens, WorkerStep(o) PROVE ProcessByStage'
    BY <1>4 DEF WorkerStep, WorkerReady, WorkerExits
<1>5. ASSUME NEW c \in Closers, CloserCall(c) \/ CloserStep(c) PROVE ProcessByStage'
    BY <1>5 DEF CloserCall, CloserStep, ClosePop, CloseAllPop, CloserTerminate,
                CloserCleanup
<1>6. ASSUME NEW x \in Ids, GetDead(x) PROVE ProcessByStage'
    BY <1>6 DEF GetDead, DiscardId
<1>7. CASE Reap
    BY <1>7 DEF Reap
<1>8. CASE UNCHANGED vars
    BY <1>8 DEF vars
<1> QED
    BY <1>1, <1>2, <1>3, <1>4, <1>5, <1>6, <1>7, <1>8 DEF Next

(* No step loses track of a running worker: an open that reserves an id    *)
(* finds it free or dead, an open that is no longer registered kills its   *)
(* own worker, and a closer holds what it popped until it has killed it.   *)
LEMMA NextNoOrphan == IInv /\ [Next]_vars => NoOrphan'
<1> SUFFICES ASSUME IInv, [Next]_vars, TypeOK',
                    NEW q \in Opens, Running(q)'
             PROVE  \/ Registered(q)'
                    \/ call'[q] \in {"spawned", "ready", "cancelled"}
                    \/ \E c \in Closers : q \in victims'[c]
    BY NextTypeOK DEF IInv, NoOrphan
<1> USE PoolAssumption DEF IInv, TypeOK, InFlight, Stages
<1> DEFINE Held == \/ Registered(q)
                   \/ call[q] \in {"spawned", "ready", "cancelled"}
                   \/ \E c \in Closers : q \in victims[c]
<1>0. Running(q) => Held
    BY DEF NoOrphan
<1>1. ASSUME NEW o \in Opens, NEW want \in Ids \cup {NoId},
             OpenBusy(o, want) \/ OpenShared(o, want)
      PROVE  Held'
    BY <1>0, <1>1 DEF OpenBusy, OpenShared, Running, Registered
<1>2. ASSUME NEW o \in Opens, NEW want \in Ids \cup {NoId}, OpenLimit(o, want)
      PROVE  Held'
    BY <1>0, <1>2 DEF OpenLimit, MustReserve, ReapedSessions, DeadIds, Running, Registered
<1>3. ASSUME NEW o \in Opens, NEW want \in Ids \cup {NoId}, OpenReserve(o, want)
      PROVE  Held'
    <2>1. PICK x \in ReservableIds(want) :
             /\ sessions' = [ReapedSessions EXCEPT ![x] = o]
             /\ sid' = [sid EXCEPT ![o] = x]
        BY <1>3 DEF OpenReserve
    <2>2. x \in Ids /\ call[o] = "new"
        BY <1>3, <2>1 DEF OpenReserve, MustReserve, ReservableIds
    <2>3. /\ call' = [call EXCEPT ![o] = "reserved"]
          /\ UNCHANGED <<proc, victims>>
        BY <1>3 DEF OpenReserve
    <2>4. Running(q)
        BY <2>3 DEF Running
    <2>5. q # o
        BY <2>2, <2>4 DEF ProcessByStage, Running
    <2>6. sessions[x] = NoOpen \/ proc[sessions[x]] = "exited"
        <3>1. CASE want = NoId
            BY <2>1, <3>1 DEF ReservableIds, RegisteredBySid
        <3>2. CASE want \in Ids
            BY <1>3, <2>1, <3>2 DEF ReservableIds, OpenReserve, MustReserve, IsAlive
        <3> QED BY <3>1, <3>2
    <2>7. CASE Registered(q)
        <3>1. PICK y \in Ids : sessions[y] = q
            BY <2>7 DEF Registered
        <3>2. y # x
            BY <2>4, <2>6, <3>1 DEF Running
        <3>3. ReapedSessions[y] = q
            BY <2>4, <3>1 DEF ReapedSessions, DeadIds, Running
        <3>4. sessions'[y] = q
            BY <2>1, <2>2, <3>2, <3>3 DEF ReapedSessions
        <3> QED BY <3>4 DEF Registered
    <2>8. CASE ~ Registered(q)
        BY <1>0, <2>2, <2>3, <2>4, <2>5, <2>8
    <2> QED BY <2>7, <2>8
<1>4. ASSUME NEW o \in Opens, OpenStep(o), ~ Discard(o), ~ Publish(o) PROVE Held'
    BY <1>0, <1>4 DEF OpenStep, Materialize, MaterializeFails, Spawn, SpawnFails,
                HandshakeOk, HandshakeEof, HandshakeTimeout, CleanupAndRaise,
                KillCancelled, Running, Registered, ProcessByStage
<1>5. ASSUME NEW o \in Opens, Publish(o) PROVE Held'
    BY <1>0, <1>5 DEF Publish, StillRegistered, Running, Registered
<1>6. ASSUME NEW o \in Opens, Discard(o) PROVE Held'
    BY <1>0, <1>6 DEF Discard, DiscardId, Running, Registered, ProcessByStage
<1>7. ASSUME NEW o \in Opens, WorkerStep(o) PROVE Held'
    BY <1>0, <1>7 DEF WorkerStep, WorkerReady, WorkerExits, Running, Registered
<1>8. ASSUME NEW c \in Closers, NEW x \in Ids, ClosePop(c, x) PROVE Held'
    BY <1>0, <1>8 DEF ClosePop, CloserIdle, Running, Registered
<1>9. ASSUME NEW c \in Closers, CloseAllPop(c) PROVE Held'
    BY <1>0, <1>9 DEF CloseAllPop, CloserIdle, RegisteredIds, Running, Registered
<1>10. ASSUME NEW c \in Closers, CloserStep(c) PROVE Held'
    BY <1>0, <1>10 DEF CloserStep, CloserTerminate, CloserCleanup, Running, Registered
<1>11. ASSUME NEW x \in Ids, GetDead(x) PROVE Held'
    BY <1>0, <1>11 DEF GetDead, DiscardId, IsAlive, Running, Registered
<1>12. CASE Reap
    BY <1>0, <1>12 DEF Reap, ReapedSessions, DeadIds, Running, Registered
<1>13. CASE UNCHANGED vars
    BY <1>0, <1>13 DEF vars, Running, Registered
<1> QED
    BY <1>1, <1>2, <1>3, <1>4, <1>5, <1>6, <1>7, <1>8, <1>9, <1>10, <1>11,
       <1>12, <1>13
    DEF Next, OpenCall, CloserCall

-----------------------------------------------------------------------------
LEMMA NextIInv == IInv /\ [Next]_vars => IInv'
<1> SUFFICES ASSUME IInv, [Next]_vars PROVE IInv'
    OBVIOUS
<1>1. TypeOK'
    BY NextTypeOK DEF IInv
<1>2. RegisteredBySid'
    BY NextRegisteredBySid DEF IInv
<1>3. ProcessByStage'
    BY NextProcessByStage DEF IInv
<1>4. NoOrphan'
    BY NextNoOrphan
<1> QED BY <1>1, <1>2, <1>3, <1>4 DEF IInv

LEMMA SpecIInv == Spec => []IInv
<1> QED BY InitIInv, NextIInv, PTL DEF Spec

(* Type correctness.                                                       *)
THEOREM PoolTypeOK == Spec => []TypeOK
<1>1. IInv => TypeOK
    BY DEF IInv
<1> QED BY <1>1, SpecIInv, PTL

(* The pool never loses a worker process: whatever closes, crashes, reaps, *)
(* failures and reopenings of the same id interleave.                      *)
THEOREM PoolNoOrphan == Spec => []NoOrphan
<1>1. IInv => NoOrphan
    BY DEF IInv
<1> QED BY <1>1, SpecIInv, PTL

-----------------------------------------------------------------------------
(* The cap.  Only a reservation adds a registered id, and only one.        *)
LEMMA ReserveRespectsCap ==
    ASSUME TypeOK, CapRespected,
           NEW o \in Opens, NEW want \in Ids \cup {NoId}, OpenReserve(o, want)
    PROVE  CapRespected'
<1> USE PoolAssumption
<1> DEFINE Kept == {x \in Ids : ReapedSessions[x] # NoOpen}
<1>1. PICK x \in ReservableIds(want) : sessions' = [ReapedSessions EXCEPT ![x] = o]
    BY DEF OpenReserve
<1>2. x \in Ids
    BY <1>1 DEF OpenReserve, MustReserve, ReservableIds
<1>3. RegisteredIds' = Kept \cup {x}
    BY <1>1, <1>2 DEF RegisteredIds, ReapedSessions, TypeOK
<1>4. IsFiniteSet(Kept) /\ Cardinality(Kept) \in Nat
    BY FS_Subset, FS_CardinalityType
<1> HIDE DEF Kept
<1>5. Cardinality(RegisteredIds') \in {Cardinality(Kept), Cardinality(Kept) + 1}
    BY <1>3, <1>4, FS_AddElement
<1>6. MaxWorkers # 0 => Cardinality(Kept) < MaxWorkers
    BY <1>4 DEF OpenReserve, AtCap, Kept
<1> QED BY <1>4, <1>5, <1>6 DEF CapRespected

LEMMA FewerRegistered ==
    ASSUME TypeOK, CapRespected, RegisteredIds' \subseteq RegisteredIds
    PROVE  CapRespected'
<1> USE PoolAssumption
<1>1. IsFiniteSet(RegisteredIds)
    BY FS_Subset DEF RegisteredIds
<1>2. Cardinality(RegisteredIds') <= Cardinality(RegisteredIds)
    BY <1>1, FS_Subset
<1>3. Cardinality(RegisteredIds) \in Nat /\ Cardinality(RegisteredIds') \in Nat
    BY <1>1, FS_Subset, FS_CardinalityType
<1> QED BY <1>2, <1>3 DEF CapRespected

(* No interleaving registers more sessions than the cap.                   *)
THEOREM PoolCapRespected == Spec => []CapRespected
<1>1. Init => CapRespected
    <2> SUFFICES ASSUME Init PROVE CapRespected
        OBVIOUS
    <2>1. RegisteredIds = {}
        BY DEF Init, RegisteredIds
    <2> QED BY <2>1, FS_EmptySet, PoolAssumption DEF CapRespected
<1>2. IInv /\ CapRespected /\ [Next]_vars => CapRespected'
    <2> SUFFICES ASSUME IInv, CapRespected, [Next]_vars PROVE CapRespected'
        OBVIOUS
    <2>1. CASE \E o \in Opens, want \in Ids \cup {NoId} : OpenReserve(o, want)
        BY <2>1, ReserveRespectsCap DEF IInv
    <2>2. CASE ~ \E o \in Opens, want \in Ids \cup {NoId} : OpenReserve(o, want)
        <3>1. \/ UNCHANGED sessions
              \/ sessions' = ReapedSessions
              \/ \E x \in Ids : sessions' = [sessions EXCEPT ![x] = NoOpen]
              \/ sessions' = [x \in Ids |-> NoOpen]
            <4>1. CASE \E o \in Opens : OpenCall(o)
                BY <2>2, <4>1 DEF OpenCall, OpenBusy, OpenShared, OpenLimit
            <4>2. CASE \E o \in Opens : OpenStep(o) /\ ~ Discard(o)
                BY <4>2 DEF OpenStep, Materialize, MaterializeFails, Spawn, SpawnFails,
                    HandshakeOk, HandshakeEof, HandshakeTimeout, CleanupAndRaise,
                    Publish, KillCancelled
            <4>3. CASE \E o \in Opens : Discard(o)
                BY <4>3 DEF Discard, DiscardId, IInv, TypeOK, InFlight
            <4>4. CASE \E o \in Opens : WorkerStep(o)
                BY <4>4 DEF WorkerStep, WorkerReady, WorkerExits
            <4>5. CASE \E c \in Closers : CloserCall(c) \/ CloserStep(c)
                BY <4>5 DEF CloserCall, CloserStep, ClosePop, CloseAllPop,
                    CloserTerminate, CloserCleanup
            <4>6. CASE \E x \in Ids : GetDead(x)
                BY <4>6 DEF GetDead, DiscardId
            <4>7. CASE Reap \/ UNCHANGED vars
                BY <4>7 DEF Reap, vars
            <4> QED BY <4>1, <4>2, <4>3, <4>4, <4>5, <4>6, <4>7 DEF Next
        <3>2. RegisteredIds' \subseteq RegisteredIds
            BY <3>1 DEF RegisteredIds, ReapedSessions, IInv, TypeOK
        <3> QED BY <3>2, FewerRegistered DEF IInv
    <2> QED BY <2>1, <2>2
<1> QED BY <1>1, <1>2, SpecIInv, PTL DEF Spec

-----------------------------------------------------------------------------
(* Only a reservation registers a record, and only that of a new call.     *)
LEMMA RegistrationIsNew ==
    ASSUME IInv, [Next]_vars, NEW x \in Ids, sessions'[x] \notin {NoOpen, sessions[x]}
    PROVE  /\ sessions'[x] \in Opens
           /\ call[sessions'[x]] = "new"
           /\ sessions[x] # NoOpen => proc[sessions[x]] = "exited"
<1> USE PoolAssumption DEF IInv, TypeOK, InFlight, Stages
<1>1. CASE \E o \in Opens, want \in Ids \cup {NoId} : OpenReserve(o, want)
    <2>1. PICK o \in Opens, want \in Ids \cup {NoId} : OpenReserve(o, want)
        BY <1>1
    <2>2. PICK y \in ReservableIds(want) : sessions' = [ReapedSessions EXCEPT ![y] = o]
        BY <2>1 DEF OpenReserve
    <2>3. y \in Ids /\ call[o] = "new"
        BY <2>1, <2>2 DEF OpenReserve, MustReserve, ReservableIds
    <2>4. x = y
        BY <2>2, <2>3 DEF ReapedSessions
    <2>5. sessions'[x] = o
        BY <2>2, <2>3, <2>4 DEF ReapedSessions
    <2>6. sessions[x] # NoOpen => proc[sessions[x]] = "exited"
        BY <2>1, <2>2, <2>4
        DEF ReservableIds, RegisteredBySid, OpenReserve, MustReserve, IsAlive
    <2> QED BY <2>3, <2>5, <2>6
<1>2. CASE ~ \E o \in Opens, want \in Ids \cup {NoId} : OpenReserve(o, want)
    <2>1. CASE \E o \in Opens : OpenCall(o)
        BY <1>2, <2>1 DEF OpenCall, OpenBusy, OpenShared, OpenLimit, ReapedSessions
    <2>2. CASE \E o \in Opens : OpenStep(o)
        BY <2>2 DEF OpenStep, Materialize, MaterializeFails, Spawn, SpawnFails,
            HandshakeOk, HandshakeEof, HandshakeTimeout, CleanupAndRaise, Discard,
            DiscardId, Publish, KillCancelled
    <2>3. CASE \E o \in Opens : WorkerStep(o)
        BY <2>3 DEF WorkerStep, WorkerReady, WorkerExits
    <2>4. CASE \E c \in Closers : CloserCall(c) \/ CloserStep(c)
        BY <2>4 DEF CloserCall, CloserStep, ClosePop, CloseAllPop, CloserTerminate,
            CloserCleanup
    <2>5. CASE \E y \in Ids : GetDead(y)
        BY <2>5 DEF GetDead, DiscardId
    <2>6. CASE Reap \/ UNCHANGED vars
        BY <2>6 DEF Reap, ReapedSessions, vars
    <2> QED BY <2>1, <2>2, <2>3, <2>4, <2>5, <2>6 DEF Next
<1> QED BY <1>1, <1>2

(* A live registered session is never replaced directly by another open.   *)
THEOREM PoolNoTakeover == Spec => NoTakeover
<1>1. IInv /\ [Next]_vars =>
        [\A x \in Ids :
            sessions[x] # NoOpen /\ sessions'[x] \notin {NoOpen, sessions[x]} =>
                proc[sessions[x]] = "exited"]_vars
    BY RegistrationIsNew
<1> QED BY <1>1, SpecIInv, PTL DEF Spec, NoTakeover

(* Once idb_close, a reap or a discard has taken a record out of the map,  *)
(* it never comes back, and its open never reports success.                *)
THEOREM PoolClosedStaysClosed == Spec => ClosedStaysClosed
<1> DEFINE Stays(o) == call[o] \in InFlight \cup {"open"} /\ ~ Registered(o) =>
                          /\ ~ Registered(o)'
                          /\ call[o] # "open" => call'[o] # "open"
<1>1. IInv /\ [Next]_vars => [\A o \in Opens : Stays(o)]_vars
    <2> SUFFICES ASSUME IInv, [Next]_vars, NEW o \in Opens,
                        call[o] \in InFlight \cup {"open"}, ~ Registered(o)
                 PROVE  /\ ~ Registered(o)'
                        /\ call[o] # "open" => call'[o] # "open"
        OBVIOUS
    <2>1. ~ Registered(o)'
        <3> SUFFICES ASSUME NEW x \in Ids, sessions'[x] = o PROVE FALSE
            BY DEF Registered
        <3>1. sessions[x] # o
            BY DEF Registered
        <3> QED BY <3>1, RegistrationIsNew, PoolAssumption DEF InFlight
    <2>2. ASSUME call[o] # "open", call'[o] = "open" PROVE FALSE
        <3>1. \E p \in Opens : Publish(p)
            <4> USE <2>2 DEF IInv, TypeOK, Stages
            <4>1. CASE \E p \in Opens : OpenCall(p)
                BY <4>1 DEF OpenCall, OpenBusy, OpenShared, OpenLimit, OpenReserve
            <4>2. CASE \E p \in Opens : OpenStep(p)
                BY <4>2 DEF OpenStep, Materialize, MaterializeFails, Spawn, SpawnFails,
                    HandshakeOk, HandshakeEof, HandshakeTimeout, CleanupAndRaise,
                    Discard, KillCancelled
            <4>3. CASE \E p \in Opens : WorkerStep(p)
                BY <4>3 DEF WorkerStep, WorkerReady, WorkerExits
            <4>4. CASE \E c \in Closers : CloserCall(c) \/ CloserStep(c)
                BY <4>4 DEF CloserCall, CloserStep, ClosePop, CloseAllPop,
                    CloserTerminate, CloserCleanup
            <4>5. CASE (\E x \in Ids : GetDead(x)) \/ Reap \/ UNCHANGED vars
                BY <4>5 DEF GetDead, Reap, vars
            <4> QED BY <4>1, <4>2, <4>3, <4>4, <4>5 DEF Next
        <3> QED BY <2>2, <3>1
                DEF Publish, StillRegistered, Registered, InFlight, IInv, TypeOK
    <2> QED BY <2>1, <2>2
<1> QED BY <1>1, SpecIInv, PTL DEF Spec, ClosedStaysClosed
-----------------------------------------------------------------------------
(* The directories.  A call takes an id once, and what a closer popped is  *)
(* a record that had an id and that no id names any more.                  *)
NewHasNoId == \A o \in Opens : call[o] = "new" => sid[o] = NoId

Popped(c) == (victims[c] \cup {cleaning[c]}) \ {NoOpen}

PoppedIsOut == \A c \in Closers : \A o \in Popped(c) :
    call[o] \notin {"new", "shared", "refused"} /\ ~ Registered(o)

Alone(o) == \A p \in Opens \ {o} : sid[p] # sid[o] \/ call[p] = "shared"

(* From the copy to the end, a registered record that has its id for       *)
(* itself has the directory of that name.                                  *)
CopyInPlace == \A o \in Opens :
    call[o] \in {"copied", "spawned", "ready", "open"} /\ Registered(o) /\ Alone(o) =>
        scratch[sid[o]] = o

ScratchInv == NewHasNoId /\ PoppedIsOut /\ NoScratchLeak /\ CopyInPlace

(* Every step keeps the directories in place.  The facts about one open    *)
(* and one closer are shown for each step that can disturb them.           *)
LEMMA NextNewHasNoId == TypeOK /\ NewHasNoId /\ [Next]_vars => NewHasNoId'
<1> SUFFICES ASSUME TypeOK, NewHasNoId, [Next]_vars PROVE NewHasNoId'
    OBVIOUS
<1> USE DEF TypeOK, NewHasNoId, Stages
<1>1. ASSUME NEW o \in Opens, OpenCall(o) PROVE NewHasNoId'
    BY <1>1 DEF OpenCall, OpenBusy, OpenShared, OpenLimit, OpenReserve, MustReserve
<1>2. ASSUME NEW o \in Opens, OpenStep(o) \/ WorkerStep(o) PROVE NewHasNoId'
    BY <1>2 DEF OpenStep, Materialize, MaterializeFails, Spawn, SpawnFails,
        HandshakeOk, HandshakeEof, HandshakeTimeout, CleanupAndRaise, Discard,
        Publish, KillCancelled, WorkerStep, WorkerReady, WorkerExits
<1>3. ASSUME NEW c \in Closers, CloserCall(c) \/ CloserStep(c) PROVE NewHasNoId'
    BY <1>3 DEF CloserCall, CloserStep, ClosePop, CloseAllPop, CloserTerminate,
        CloserCleanup
<1>4. CASE (\E x \in Ids : GetDead(x)) \/ Reap \/ UNCHANGED vars
    BY <1>4 DEF GetDead, Reap, vars
<1> QED BY <1>1, <1>2, <1>3, <1>4 DEF Next

(* A call that has an id keeps it, and does not become a new one again.    *)
LEMMA IdIsKept ==
    ASSUME TypeOK, [Next]_vars, NEW o \in Opens, call[o] # "new"
    PROVE  /\ sid'[o] = sid[o]
           /\ call'[o] # "new"
           /\ call'[o] \in {"shared", "refused"} => call[o] = call'[o]
<1> USE DEF TypeOK, Stages
<1>1. ASSUME NEW p \in Opens, OpenCall(p)
      PROVE  call'[o] = call[o] /\ sid'[o] = sid[o]
    BY <1>1 DEF OpenCall, OpenBusy, OpenShared, OpenLimit, OpenReserve, MustReserve
<1>2. ASSUME NEW p \in Opens, OpenStep(p)
      PROVE  /\ UNCHANGED sid
             /\ call'[o] = call[o] \/ call'[o] \notin {"new", "shared", "refused"}
    BY <1>2 DEF OpenStep, Materialize, MaterializeFails, Spawn, SpawnFails,
        HandshakeOk, HandshakeEof, HandshakeTimeout, CleanupAndRaise, Discard,
        Publish, KillCancelled
<1>3. ASSUME NEW p \in Opens, WorkerStep(p) PROVE UNCHANGED <<call, sid>>
    BY <1>3 DEF WorkerStep, WorkerReady, WorkerExits
<1>4. ASSUME NEW c \in Closers, CloserCall(c) \/ CloserStep(c)
      PROVE  UNCHANGED <<call, sid>>
    BY <1>4 DEF CloserCall, CloserStep, ClosePop, CloseAllPop, CloserTerminate,
        CloserCleanup
<1>5. CASE (\E x \in Ids : GetDead(x)) \/ Reap \/ UNCHANGED vars
    BY <1>5 DEF GetDead, Reap, vars
<1> QED BY <1>1, <1>2, <1>3, <1>4, <1>5 DEF Next

(* A record of a call that is no longer new does not come back.            *)
LEMMA OutStaysOut ==
    ASSUME IInv, [Next]_vars, NEW o \in Opens, call[o] # "new", ~ Registered(o)
    PROVE  ~ Registered(o)'
<1> SUFFICES ASSUME NEW x \in Ids, sessions'[x] = o PROVE FALSE
    BY DEF Registered
<1>1. sessions[x] # o
    BY DEF Registered
<1> QED BY <1>1, RegistrationIsNew, PoolAssumption

(* A closer pops only what was registered, and nothing registers it again.*)
LEMMA NextPoppedIsOut ==
    ASSUME IInv, PoppedIsOut, [Next]_vars
    PROVE  PoppedIsOut'
<1> USE PoolAssumption DEF IInv, TypeOK
<1> SUFFICES ASSUME NEW c \in Closers, NEW o \in Popped(c)'
             PROVE  call'[o] \notin {"new", "shared", "refused"} /\ ~ Registered(o)'
    BY DEF PoppedIsOut
<1>1. o \in Opens
    BY NextTypeOK DEF Popped
<1>2. CASE o \in Popped(c)
    BY <1>1, <1>2, IdIsKept, OutStaysOut DEF PoppedIsOut
<1>3. CASE o \notin Popped(c)
    <2>1. \/ \E x \in Ids : ClosePop(c, x)
          \/ CloseAllPop(c)
        <3>1. ASSUME NEW p \in Opens, OpenCall(p) \/ OpenStep(p) \/ WorkerStep(p)
              PROVE  Popped(c)' = Popped(c)
            BY <3>1 DEF OpenCall, OpenBusy, OpenShared, OpenLimit, OpenReserve,
                OpenStep, Materialize, MaterializeFails, Spawn, SpawnFails,
                HandshakeOk, HandshakeEof, HandshakeTimeout, CleanupAndRaise, Discard,
                Publish, KillCancelled, WorkerStep, WorkerReady, WorkerExits, Popped
        <3>2. ASSUME NEW d \in Closers, CloserStep(d) PROVE Popped(c)' \subseteq Popped(c)
            BY <3>2 DEF CloserStep, CloserTerminate, CloserCleanup, Popped
        <3>3. ASSUME NEW d \in Closers, d # c, CloserCall(d)
              PROVE  Popped(c)' = Popped(c)
            BY <3>3 DEF CloserCall, ClosePop, CloseAllPop, Popped
        <3>4. ASSUME (\E x \in Ids : GetDead(x)) \/ Reap \/ UNCHANGED vars
              PROVE  Popped(c)' = Popped(c)
            BY <3>4 DEF GetDead, Reap, vars, Popped
        <3> HIDE DEF TypeOK
        <3> QED BY <1>3, <3>1, <3>2, <3>3, <3>4 DEF Next, CloserCall
    <2>2. PICK x \in Ids : sessions[x] = o
        BY <1>3, <2>1 DEF ClosePop, CloseAllPop, RegisteredIds, Popped
    <2>3. call'[o] \notin {"new", "shared", "refused"}
        BY <1>1, <2>1, <2>2 DEF ClosePop, CloseAllPop, RegisteredBySid
    <2>4. ~ Registered(o)'
        <3>1. \A y \in Ids : sessions[y] = o => y = x
            BY <1>1, <2>2 DEF RegisteredBySid
        <3>2. CASE CloseAllPop(c)
            BY <1>1, <3>2 DEF CloseAllPop, Registered
        <3>3. ASSUME NEW z \in Ids, ClosePop(c, z) PROVE ~ Registered(o)'
            <4>1. z = x
                BY <1>1, <1>3, <3>1, <3>3 DEF ClosePop, Popped
            <4> QED BY <1>1, <3>1, <3>3, <4>1 DEF ClosePop, Registered
        <3> QED BY <2>1, <3>2, <3>3
    <2> QED BY <2>3, <2>4
<1> QED BY <1>2, <1>3

(* Who answers for the directory of an id.                                 *)
Held(x) ==
    \/ sessions[x] # NoOpen
    \/ \E o \in Opens : sid[o] = x /\ call[o] \in InFlight
    \/ \E c \in Closers : \E o \in Popped(c) : o \in Opens /\ sid[o] = x

(* A leaked directory is one that nobody answers for.                      *)
LEMMA LeakIsUnheld ==
    TypeOK => (NoScratchLeak <=> \A x \in Ids : scratch[x] # NoOpen => Held(x))
BY PoolAssumption DEF TypeOK, NoScratchLeak, Held, Popped

(* Whatever still answered for a directory either goes on doing so, or     *)
(* hands it over, or removes it.                                           *)
LEMMA NextNoScratchLeak ==
    ASSUME IInv, NewHasNoId, NoScratchLeak, [Next]_vars
    PROVE  NoScratchLeak'
<1> USE PoolAssumption
<1>0. TypeOK'
    BY NextTypeOK DEF IInv
<1> SUFFICES ASSUME NEW x \in Ids, scratch'[x] # NoOpen PROVE Held(x)'
    BY <1>0, LeakIsUnheld DEF Held, Popped, NoScratchLeak
<1>a. scratch[x] # NoOpen => Held(x)
    BY LeakIsUnheld DEF IInv
<1>1. ASSUME NEW o \in Opens, OpenCall(o) PROVE Held(x)'
    <2>1. /\ UNCHANGED <<victims, cleaning>>
          /\ \A p \in Opens \ {o} : call'[p] = call[p] /\ sid'[p] = sid[p]
          /\ call[o] = "new"
        BY <1>1 DEF OpenCall, OpenBusy, OpenShared, OpenLimit, OpenReserve,
            MustReserve, IInv, TypeOK
    <2>2. sid[o] = NoId
        BY <2>1 DEF NewHasNoId
    <2>3. scratch[x] # NoOpen /\ (sessions[x] # NoOpen => sessions'[x] # NoOpen)
        <3>1. CASE \E want \in Ids \cup {NoId} :
                    OpenBusy(o, want) \/ OpenShared(o, want)
            BY <3>1 DEF OpenBusy, OpenShared
        <3>2. CASE \E want \in Ids \cup {NoId} : OpenLimit(o, want)
            BY <3>2 DEF OpenLimit, ReapedSessions, ReapedScratch
        <3>3. ASSUME NEW want \in Ids \cup {NoId}, OpenReserve(o, want)
              PROVE  scratch[x] # NoOpen /\ (sessions[x] # NoOpen => sessions'[x] # NoOpen)
            <4>1. scratch[x] # NoOpen /\ x \notin DeadIds
                BY <3>3 DEF OpenReserve, ReapedScratch
            <4>2. PICK y : sessions' = [ReapedSessions EXCEPT ![y] = o]
                BY <3>3 DEF OpenReserve
            <4> QED BY <4>1, <4>2 DEF ReapedSessions
        <3> QED BY <1>1, <3>1, <3>2, <3>3 DEF OpenCall
    <2>4. CASE sessions[x] # NoOpen
        BY <2>3, <2>4 DEF Held
    <2>5. ASSUME NEW p \in Opens, sid[p] = x, call[p] \in InFlight PROVE Held(x)'
        BY <2>1, <2>5 DEF Held, InFlight
    <2>6. ASSUME NEW c \in Closers, NEW p \in Popped(c), p \in Opens, sid[p] = x
          PROVE  Held(x)'
        <3>1. p \in Popped(c)' /\ sid'[p] = x
            BY <2>1, <2>2, <2>6 DEF Popped
        <3> QED BY <2>6, <3>1 DEF Held
    <2> QED BY <1>a, <2>3, <2>4, <2>5, <2>6 DEF Held
<1>2. ASSUME NEW o \in Opens, OpenStep(o) PROVE Held(x)'
    <2>1. /\ UNCHANGED <<sid, victims, cleaning>>
          /\ \A p \in Opens \ {o} : call'[p] = call[p]
        BY <1>2 DEF OpenStep, Materialize, MaterializeFails, Spawn, SpawnFails,
            HandshakeOk, HandshakeEof, HandshakeTimeout, CleanupAndRaise, Discard,
            Publish, KillCancelled, IInv, TypeOK
    <2>2. CASE sid[o] = x /\ call'[o] \in InFlight
        BY <2>1, <2>2 DEF Held
    <2>3. CASE sid[o] # x
        <3>1. scratch'[x] = scratch[x] /\ sessions'[x] = sessions[x]
            BY <1>2, <2>3 DEF OpenStep, Materialize, MaterializeFails, Spawn, SpawnFails,
                HandshakeOk, HandshakeEof, HandshakeTimeout, CleanupAndRaise, Discard,
                DiscardId, Publish, KillCancelled, IInv, TypeOK
        <3>2. \A p \in Opens : sid[p] = x => call'[p] = call[p]
            BY <2>1, <2>3
        <3> QED BY <1>a, <2>1, <3>1, <3>2 DEF Held, Popped
    <2>4. CASE sid[o] = x /\ call'[o] \notin InFlight
        <3>1. CASE Publish(o)
            <4>1. sessions[x] = o /\ UNCHANGED sessions
                BY <2>4, <3>1 DEF Publish, StillRegistered, InFlight, IInv, TypeOK
            <4> QED BY <4>1 DEF Held
        <3>2. CASE CleanupAndRaise(o)
            BY <2>4, <3>2 DEF CleanupAndRaise, IInv, TypeOK
        <3> QED BY <1>2, <2>4, <3>1, <3>2 DEF OpenStep, Materialize, MaterializeFails,
                Spawn, SpawnFails, HandshakeOk, HandshakeEof, HandshakeTimeout, Discard,
                KillCancelled, InFlight, IInv, TypeOK
    <2> QED BY <2>2, <2>3, <2>4
<1>3. ASSUME NEW o \in Opens, WorkerStep(o) PROVE Held(x)'
    BY <1>3, <1>a DEF WorkerStep, WorkerReady, WorkerExits, Held, Popped
<1>4. ASSUME NEW c \in Closers, CloserCall(c) PROVE Held(x)'
    <2>1. /\ UNCHANGED <<call, sid, scratch, cleaning>>
          /\ \A d \in Closers : victims[d] \subseteq victims'[d]
        BY <1>4 DEF CloserCall, ClosePop, CloseAllPop, CloserIdle, IInv, TypeOK
    <2>2. CASE sessions'[x] = sessions[x]
        <3>1. \A d \in Closers : Popped(d) \subseteq Popped(d)'
            BY <2>1 DEF Popped
        <3> QED BY <1>a, <2>1, <2>2, <3>1 DEF Held
    <2>3. CASE sessions'[x] # sessions[x]
        <3>1. sessions[x] \in Opens /\ sid[sessions[x]] = x
            BY <1>4, <2>3 DEF CloserCall, ClosePop, CloseAllPop, IInv, TypeOK,
                RegisteredBySid
        <3>2. sessions[x] \in victims'[c]
            BY <1>4, <2>3, <3>1 DEF CloserCall, ClosePop, CloseAllPop, RegisteredIds,
                IInv, TypeOK
        <3>3. PICK o \in Opens : o = sessions[x]
            BY <3>1
        <3>4. o \in Popped(c)' /\ sid'[o] = x
            BY <2>1, <3>1, <3>2, <3>3 DEF Popped
        <3> QED BY <3>4 DEF Held
    <2> QED BY <2>2, <2>3
<1>5. ASSUME NEW c \in Closers, CloserStep(c) PROVE Held(x)'
    <2>1. CASE \E o \in Opens : CloserTerminate(c, o)
        <3>1. /\ UNCHANGED <<sessions, call, sid, scratch>>
              /\ \A d \in Closers : Popped(d) \subseteq Popped(d)'
            BY <2>1 DEF CloserTerminate, Popped, IInv, TypeOK
        <3> QED BY <1>a, <3>1 DEF Held
    <2>2. CASE CloserCleanup(c)
        <3>1. UNCHANGED <<sessions, call, sid, victims>> /\ scratch[x] # NoOpen
            BY <2>2 DEF CloserCleanup, IInv, TypeOK
        <3>2. \A d \in Closers : \A o \in Popped(d) :
                sid[o] = x => o \in Popped(d)'
            BY <2>2 DEF CloserCleanup, Popped, IInv, TypeOK
        <3> QED BY <1>a, <3>1, <3>2 DEF Held
    <2> QED BY <1>5, <2>1, <2>2 DEF CloserStep
<1>6. ASSUME NEW y \in Ids, GetDead(y) PROVE Held(x)'
    <2>1. /\ UNCHANGED <<call, sid, victims, cleaning>>
          /\ scratch[x] # NoOpen /\ sessions'[x] = sessions[x]
        BY <1>6 DEF GetDead, DiscardId, IInv, TypeOK
    <2> QED BY <1>a, <2>1 DEF Held, Popped
<1>7. CASE Reap
    <2>1. /\ UNCHANGED <<call, sid, victims, cleaning>>
          /\ scratch[x] # NoOpen /\ sessions'[x] = sessions[x]
        BY <1>7 DEF Reap, ReapedSessions, ReapedScratch, IInv, TypeOK
    <2> QED BY <1>a, <2>1 DEF Held, Popped
<1>8. CASE UNCHANGED vars
    BY <1>8, <1>a DEF vars, Held, Popped
<1> QED BY <1>1, <1>2, <1>3, <1>4, <1>5, <1>6, <1>7, <1>8 DEF Next

(* A record that has its id for itself already had it before the step.     *)
LEMMA AloneBefore ==
    ASSUME TypeOK, NewHasNoId, [Next]_vars,
           NEW o \in Opens, sid[o] \in Ids, sid'[o] = sid[o], Alone(o)'
    PROVE  Alone(o)
<1> SUFFICES ASSUME NEW p \in Opens \ {o}, sid[p] = sid[o], call[p] # "shared"
             PROVE  FALSE
    BY DEF Alone
<1>1. call[p] # "new"
    BY PoolAssumption DEF NewHasNoId
<1>2. sid'[p] = sid[p] /\ call'[p] # "shared"
    BY <1>1, IdIsKept
<1> QED BY <1>2 DEF Alone

(* Only the open itself writes the directory of an id it has alone, and    *)
(* who removes a directory has unregistered its record first.              *)
LEMMA NextCopyInPlace ==
    ASSUME IInv, NewHasNoId, PoppedIsOut, CopyInPlace, [Next]_vars
    PROVE  CopyInPlace'
<1> USE PoolAssumption
<1> SUFFICES ASSUME NEW o \in Opens, Registered(o)', Alone(o)',
                    call'[o] \in {"copied", "spawned", "ready", "open"}
             PROVE  scratch'[sid'[o]] = o
    BY DEF CopyInPlace
<1>1. call[o] \in {"reserved", "copied", "spawned", "ready", "open"}
    <2> USE DEF IInv, TypeOK
    <2>1. ASSUME NEW p \in Opens, OpenCall(p) PROVE call'[o] = call[o]
        BY <2>1 DEF OpenCall, OpenBusy, OpenShared, OpenLimit, OpenReserve
    <2>2. ASSUME NEW p \in Opens, OpenStep(p)
          PROVE  call[o] \in {"reserved", "copied", "spawned", "ready", "open"}
        BY <2>2 DEF OpenStep, Materialize, MaterializeFails, Spawn, SpawnFails,
            HandshakeOk, HandshakeEof, HandshakeTimeout, CleanupAndRaise, Discard,
            Publish, KillCancelled
    <2>3. ASSUME NEW p \in Opens, WorkerStep(p) PROVE call' = call
        BY <2>3 DEF WorkerStep, WorkerReady, WorkerExits
    <2>4. ASSUME NEW c \in Closers, CloserCall(c) \/ CloserStep(c) PROVE call' = call
        BY <2>4 DEF CloserCall, CloserStep, ClosePop, CloseAllPop, CloserTerminate,
            CloserCleanup
    <2>5. CASE (\E y \in Ids : GetDead(y)) \/ Reap \/ UNCHANGED vars
        BY <2>5 DEF GetDead, Reap, vars
    <2> HIDE DEF TypeOK
    <2> QED BY <2>1, <2>2, <2>3, <2>4, <2>5 DEF Next
<1>2. Registered(o)
    BY <1>1, OutStaysOut
<1>3. PICK x \in Ids : sessions[x] = o /\ sid[o] = x /\ sid'[o] = x
    BY <1>1, <1>2, IdIsKept DEF Registered, RegisteredBySid, IInv
<1>4. sessions'[x] = o
    <2>1. RegisteredBySid'
        BY NextIInv DEF IInv
    <2> QED BY <1>3, <2>1 DEF Registered, RegisteredBySid
<1>5. Alone(o)
    BY <1>3, AloneBefore DEF IInv
<1>6. call[o] # "reserved" => scratch[x] = o
    BY <1>1, <1>2, <1>3, <1>5 DEF CopyInPlace
<1>7. ASSUME NEW p \in Opens, OpenCall(p) PROVE scratch'[x] = o
    <2>1. call'[o] = call[o] /\ p # o
        BY <1>1, <1>7 DEF OpenCall, OpenBusy, OpenShared, OpenLimit, OpenReserve,
            MustReserve, IInv, TypeOK
    <2>2. CASE UNCHANGED scratch
        BY <1>6, <2>1, <2>2
    <2>3. ASSUME x \notin DeadIds, scratch' = ReapedScratch PROVE scratch'[x] = o
        BY <1>6, <2>1, <2>3 DEF ReapedScratch
    <2>4. ASSUME NEW want \in Ids \cup {NoId}, OpenLimit(p, want)
          PROVE  x \notin DeadIds /\ scratch' = ReapedScratch
        BY <1>4, <2>4 DEF OpenLimit, ReapedSessions
    <2>5. ASSUME NEW want \in Ids \cup {NoId}, OpenReserve(p, want)
          PROVE  x \notin DeadIds /\ scratch' = ReapedScratch
        <3>1. PICK y : sessions' = [ReapedSessions EXCEPT ![y] = p]
            BY <2>5 DEF OpenReserve
        <3> QED BY <1>4, <2>1, <2>5, <3>1 DEF OpenReserve, ReapedSessions
    <2> QED BY <1>7, <2>2, <2>3, <2>4, <2>5 DEF OpenCall, OpenBusy, OpenShared
<1>8. ASSUME NEW p \in Opens, OpenStep(p) PROVE scratch'[x] = o
    <2>1. CASE p = o
        BY <1>1, <1>3, <1>6, <1>8, <2>1 DEF OpenStep, Materialize, MaterializeFails,
            Spawn, SpawnFails, HandshakeOk, HandshakeEof, HandshakeTimeout,
            CleanupAndRaise, Discard, Publish, KillCancelled, IInv, TypeOK
    <2>2. CASE p # o
        <3>1. call[p] # "shared" /\ call'[o] = call[o]
            BY <1>8, <2>2 DEF OpenStep, Materialize, MaterializeFails, Spawn,
                SpawnFails, HandshakeOk, HandshakeEof, HandshakeTimeout,
                CleanupAndRaise, Discard, Publish, KillCancelled, IInv, TypeOK
        <3>2. sid[p] # x
            BY <1>3, <1>5, <2>2, <3>1 DEF Alone
        <3>3. scratch'[x] = scratch[x]
            BY <1>8, <3>2 DEF OpenStep, Materialize, MaterializeFails, Spawn,
                SpawnFails, HandshakeOk, HandshakeEof, HandshakeTimeout,
                CleanupAndRaise, Discard, DiscardId, Publish, KillCancelled, IInv, TypeOK
        <3> QED BY <1>6, <3>1, <3>3
    <2> QED BY <2>1, <2>2
<1>9. ASSUME NEW p \in Opens, WorkerStep(p) PROVE scratch'[x] = o
    BY <1>6, <1>9 DEF WorkerStep, WorkerReady, WorkerExits
<1>10. ASSUME NEW c \in Closers, CloserCall(c) \/ CloserStep(c) PROVE scratch'[x] = o
    <2>1. call' = call
        BY <1>10 DEF CloserCall, CloserStep, ClosePop, CloseAllPop, CloserTerminate,
            CloserCleanup
    <2>2. CASE UNCHANGED scratch
        BY <1>6, <2>1, <2>2
    <2>3. CASE CloserCleanup(c)
        <3>1. PICK q \in Opens : q = cleaning[c]
            BY <2>3 DEF CloserCleanup, IInv, TypeOK
        <3>2. q # o /\ call[q] # "shared"
            BY <1>2, <3>1 DEF PoppedIsOut, Popped
        <3>3. sid[q] # x
            BY <1>3, <1>5, <3>2 DEF Alone
        <3> QED BY <1>6, <2>1, <2>3, <3>1, <3>3 DEF CloserCleanup, IInv, TypeOK
    <2> QED BY <1>10, <2>2, <2>3 DEF CloserCall, CloserStep, ClosePop, CloseAllPop,
            CloserTerminate
<1>11. ASSUME NEW y \in Ids, GetDead(y) PROVE scratch'[x] = o
    <2>1. y # x
        BY <1>4, <1>11 DEF GetDead, DiscardId, IInv, TypeOK
    <2> QED BY <1>6, <1>11, <2>1 DEF GetDead, DiscardId, IInv, TypeOK
<1>12. CASE Reap
    BY <1>3, <1>4, <1>6, <1>12 DEF Reap, ReapedSessions, ReapedScratch
<1>13. CASE UNCHANGED vars
    BY <1>3, <1>6, <1>13 DEF vars
<1> QED BY <1>3, <1>7, <1>8, <1>9, <1>10, <1>11, <1>12, <1>13 DEF Next

(* Nothing exists yet.                                                     *)
LEMMA InitScratchInv == Init => ScratchInv
<1> SUFFICES ASSUME Init PROVE ScratchInv
    OBVIOUS
<1> USE PoolAssumption DEF Init
<1>1. NewHasNoId
    BY DEF NewHasNoId
<1>2. PoppedIsOut
    BY DEF PoppedIsOut, Popped
<1>3. NoScratchLeak
    BY DEF NoScratchLeak
<1>4. CopyInPlace
    BY DEF CopyInPlace
<1> QED BY <1>1, <1>2, <1>3, <1>4 DEF ScratchInv

(* No directory is left behind, whatever calls interleave and whenever a   *)
(* worker dies, and an open session that reused nobody's id has its copy.  *)
THEOREM PoolScratchIsHeld == Spec => []ScratchIsHeld
<1>1. IInv /\ ScratchInv /\ [Next]_vars => ScratchInv'
    <2> SUFFICES ASSUME IInv, ScratchInv, [Next]_vars PROVE ScratchInv'
        OBVIOUS
    <2>1. NewHasNoId' /\ PoppedIsOut'
        BY NextNewHasNoId, NextPoppedIsOut DEF ScratchInv, IInv
    <2>2. NoScratchLeak' /\ CopyInPlace'
        BY NextNoScratchLeak, NextCopyInPlace DEF ScratchInv
    <2> QED BY <2>1, <2>2 DEF ScratchInv
<1>2. ScratchInv => ScratchIsHeld
    BY DEF ScratchInv, ScratchIsHeld, CopyInPlace, CopyStaysUnlessReused, Ready, Alone
<1> QED BY <1>1, <1>2, InitScratchInv, SpecIInv, PTL DEF Spec
-----------------------------------------------------------------------------
(* The refinement.  What a step does to the callers' view of the pool.     *)
View == <<sessions, [o \in Opens |-> Outcome(o)], [o \in Opens |-> Worker(o)]>>

(* The view counts its places as the pool does.                            *)
LEMMA TakenCounts == \A S : Pool!Cardinality(S) = Cardinality(S)
BY DEF Pool!Cardinality, Cardinality

(* A new pool shows its callers nothing.                                   *)
LEMMA InitRefines == Init => Pool!Init
BY DEF Init, Pool!Init, Outcome, Worker, Running, InFlight

(* The dead of the view are those that the pool reaps.                     *)
LEMMA DeadAreReaped ==
    ASSUME TypeOK
    PROVE  Pool!Dead = DeadIds /\ Pool!Without(Pool!Dead) = ReapedSessions
<1>1. \A x \in Ids : sessions[x] # NoOpen =>
        ([o \in Opens |-> Worker(o)][sessions[x]] = "exited" <=> proc[sessions[x]] = "exited")
    BY DEF TypeOK, Worker, Running
<1>2. Pool!Dead = DeadIds
    BY <1>1 DEF Pool!Dead, DeadIds
<1> QED BY <1>2 DEF Pool!Without, ReapedSessions

(* The view of a step that changes the stage of one call alone.            *)
LEMMA ViewOfStage ==
    ASSUME TypeOK, NEW o \in Opens, NEW to, call' = [call EXCEPT ![o] = to], proc' = proc
    PROVE  /\ [p \in Opens |-> Outcome(p)]' =
                [[p \in Opens |-> Outcome(p)] EXCEPT ![o] = IF to \in InFlight THEN "opening" ELSE to]
           /\ [p \in Opens |-> Worker(p)]' = [p \in Opens |-> Worker(p)]
BY DEF TypeOK, Outcome, Worker, Running

(* The view of a step that ends the process of one open alone.             *)
LEMMA ViewOfExit ==
    ASSUME TypeOK, NEW o \in Opens, UNCHANGED sessions,
           proc' = [proc EXCEPT ![o] = "exited"],
           \A p \in Opens : Outcome(p)' = Outcome(p), proc[o] # "none"
    PROVE  Pool!Exit(o) \/ UNCHANGED View
<1>1. [p \in Opens |-> Outcome(p)]' = [p \in Opens |-> Outcome(p)]
    OBVIOUS
<1>2. [p \in Opens |-> Worker(p)]' = [[p \in Opens |-> Worker(p)] EXCEPT ![o] = "exited"]
    BY DEF TypeOK, Worker, Running
<1>3. CASE Running(o)
    BY <1>1, <1>2, <1>3 DEF Pool!Exit, Worker
<1>4. CASE ~ Running(o)
    <2>1. Worker(o) = "exited"
        BY <1>4 DEF TypeOK, Worker, Running
    <2> QED BY <1>1, <1>2, <2>1 DEF View
<1> QED BY <1>3, <1>4

(* Calls that share or are refused.                                        *)
LEMMA TurnedAwayRefines ==
    ASSUME IInv, NEW o \in Opens, NEW want \in Ids \cup {NoId},
           OpenBusy(o, want) \/ OpenShared(o, want) \/ OpenLimit(o, want)
    PROVE  Pool!RefuseBusy(o) \/ Pool!Share(o) \/ Pool!RefuseFull(o)
<1> USE PoolAssumption DEF IInv
<1>1. call[o] = "new" /\ Outcome(o) = "new"
    BY DEF OpenBusy, OpenShared, OpenLimit, MustReserve, Outcome, InFlight
<1>2. CASE OpenBusy(o, want)
    <2>1. want \in Ids /\ sessions[want] \in Opens /\ Outcome(sessions[want]) = "opening"
        BY <1>2 DEF OpenBusy, TypeOK, RegisteredBySid, Ready, Outcome, InFlight
    <2>2. /\ [p \in Opens |-> Outcome(p)]' = [[p \in Opens |-> Outcome(p)] EXCEPT ![o] = "refused"]
          /\ [p \in Opens |-> Worker(p)]' = [p \in Opens |-> Worker(p)]
        BY <1>2, ViewOfStage DEF OpenBusy, InFlight
    <2> QED BY <1>1, <1>2, <2>1, <2>2 DEF OpenBusy, Pool!RefuseBusy, Pool!Tell
<1>3. CASE OpenShared(o, want)
    <2>1. want \in Ids /\ sessions[want] \in Opens /\ sessions[want] # NoOpen
        BY <1>3 DEF OpenShared, TypeOK
    <2>2. Outcome(sessions[want]) = "open" /\ Worker(sessions[want]) = "running"
        BY <1>3, <2>1 DEF OpenShared, TypeOK, ProcessByStage, Ready, IsAlive, Outcome, Worker,
                          Running, InFlight
    <2>3. /\ [p \in Opens |-> Outcome(p)]' = [[p \in Opens |-> Outcome(p)] EXCEPT ![o] = "shared"]
          /\ [p \in Opens |-> Worker(p)]' = [p \in Opens |-> Worker(p)]
        BY <1>3, ViewOfStage DEF OpenShared, InFlight
    <2> QED BY <1>1, <1>3, <2>1, <2>2, <2>3 DEF OpenShared, Pool!Share, Pool!Tell
<1>4. CASE OpenLimit(o, want)
    <2>1. sessions' = Pool!Without(Pool!Dead)
        BY <1>4, DeadAreReaped DEF OpenLimit
    <2>2. MaxWorkers # 0 /\ Pool!Taken(sessions') >= MaxWorkers
        <3>1. sessions' = ReapedSessions /\ AtCap
            BY <1>4 DEF OpenLimit
        <3>2. Pool!Taken(sessions') = Cardinality({x \in Ids : ReapedSessions[x] # NoOpen})
            BY ONLY <3>1, TakenCounts DEF Pool!Taken
        <3> HIDE DEF IInv
        <3> QED BY ONLY <3>1, <3>2 DEF AtCap
    <2>3. /\ [p \in Opens |-> Outcome(p)]' = [[p \in Opens |-> Outcome(p)] EXCEPT ![o] = "refused"]
          /\ [p \in Opens |-> Worker(p)]' = [p \in Opens |-> Worker(p)]
        BY <1>4, ViewOfStage DEF OpenLimit, InFlight
    <2> QED BY <1>1, <2>1, <2>2, <2>3 DEF Pool!RefuseFull, Pool!Tell
<1> QED BY <1>2, <1>3, <1>4

(* A reservation claims a free place, or that of a dead session.           *)
LEMMA ReserveRefines ==
    ASSUME IInv, CapRespected, NEW o \in Opens, NEW want \in Ids \cup {NoId}, OpenReserve(o, want)
    PROVE  Pool!Claim(o)
<1> USE PoolAssumption DEF IInv
<1>1. PICK x \in ReservableIds(want) : sessions' = [ReapedSessions EXCEPT ![x] = o]
    BY DEF OpenReserve
<1>2. x \in Ids /\ call[o] = "new" /\ Outcome(o) = "new"
    BY <1>1 DEF OpenReserve, MustReserve, ReservableIds, Outcome, InFlight
<1>3. ReapedSessions[x] = NoOpen
    <2>1. CASE sessions[x] = NoOpen
        BY <1>2, <2>1 DEF ReapedSessions
    <2>2. CASE sessions[x] # NoOpen
        <3>1. want \in Ids /\ x = want
            BY <1>1, <1>2, <2>2 DEF ReservableIds, RegisteredBySid, TypeOK
        <3>2. proc[sessions[x]] = "exited"
            BY <2>2, <3>1 DEF OpenReserve, MustReserve, IsAlive
        <3> QED BY <1>2, <2>2, <3>2 DEF ReapedSessions, DeadIds
    <2> QED BY <2>1, <2>2
<1>4. MaxWorkers # 0 => Pool!Taken(sessions') <= MaxWorkers
    <2>1. CapRespected'
        BY ReserveRespectsCap
    <2>2. Pool!Taken(sessions') = Cardinality(RegisteredIds')
        BY ONLY TakenCounts DEF RegisteredIds, Pool!Taken
    <2> QED BY ONLY <2>1, <2>2 DEF CapRespected
<1>5. /\ [p \in Opens |-> Outcome(p)]' = [[p \in Opens |-> Outcome(p)] EXCEPT ![o] = "opening"]
      /\ [p \in Opens |-> Worker(p)]' = [p \in Opens |-> Worker(p)]
    BY ViewOfStage DEF OpenReserve, InFlight
<1>6. Pool!Without(Pool!Dead) = ReapedSessions
    BY DeadAreReaped
<1> HIDE DEF IInv
<1> QED BY <1>1, <1>2, <1>3, <1>4, <1>5, <1>6 DEF Pool!Claim, Pool!Tell

(* The steps of an open between its reservation and its return.            *)
LEMMA OpeningRefines ==
    ASSUME IInv, NEW o \in Opens, OpenStep(o)
    PROVE  Pool!Next \/ UNCHANGED View
<1> USE PoolAssumption DEF IInv
<1> DEFINE Quiet == \/ Materialize(o) \/ MaterializeFails(o) \/ SpawnFails(o)
                    \/ HandshakeOk(o) \/ HandshakeEof(o)
<1>1. CASE Quiet \/ (Publish(o) /\ ~ StillRegistered(o))
    <2>1. \E to \in InFlight : call' = [call EXCEPT ![o] = to]
        BY <1>1 DEF Materialize, MaterializeFails, SpawnFails, HandshakeOk, HandshakeEof, Publish,
                    InFlight
    <2>2. proc' = proc /\ sessions' = sessions /\ call[o] \in InFlight
        BY <1>1 DEF Materialize, MaterializeFails, SpawnFails, HandshakeOk, HandshakeEof, Publish,
                    InFlight
    <2>3. Outcome(o) = "opening"
        BY <2>2 DEF Outcome
    <2> QED BY <2>1, <2>2, <2>3, ViewOfStage DEF View
<1>2. CASE Spawn(o)
    <2>1. proc[o] = "none" /\ call[o] = "copied" /\ Outcome(o) = "opening"
        BY <1>2 DEF Spawn, ProcessByStage, Outcome, InFlight
    <2>2. Worker(o) = "none"
        BY <2>1 DEF Worker, Running
    <2>3. [p \in Opens |-> Outcome(p)]' = [p \in Opens |-> Outcome(p)]
        BY <1>2, <2>1 DEF Spawn, Outcome, InFlight, TypeOK
    <2>4. [p \in Opens |-> Worker(p)]' = [[p \in Opens |-> Worker(p)] EXCEPT ![o] = "running"]
        BY <1>2 DEF Spawn, Worker, Running, TypeOK
    <2>5. Pool!Start(o)
        BY <1>2, <2>1, <2>2, <2>3, <2>4 DEF Spawn, Pool!Start
    <2> QED BY <2>5 DEF Pool!Next
<1>3. CASE HandshakeTimeout(o) \/ KillCancelled(o)
    <2>1. /\ proc' = [proc EXCEPT ![o] = "exited"] /\ UNCHANGED sessions
          /\ call[o] \in {"spawned", "cancelled"}
          /\ \E to \in InFlight : call' = [call EXCEPT ![o] = to]
        BY <1>3 DEF HandshakeTimeout, KillCancelled, InFlight
    <2>2. proc[o] # "none"
        BY <2>1 DEF ProcessByStage
    <2>3. \A p \in Opens : Outcome(p)' = Outcome(p)
        BY <2>1 DEF Outcome, TypeOK, InFlight
    <2> QED BY <2>1, <2>2, <2>3, ViewOfExit DEF Pool!Next
<1>4. CASE Discard(o)
    <2>1. sid[o] \in Ids /\ call[o] = "failed"
        BY <1>4 DEF Discard, TypeOK, InFlight
    <2> DEFINE S == {sid[o]}
               K == {sessions[sid[o]]}
    <2>2. sessions' = Pool!Without(S)
        BY <1>4, <2>1 DEF Discard, DiscardId, Pool!Without, TypeOK
    <2>3. [p \in Opens |-> Outcome(p)]' = [p \in Opens |-> Outcome(p)]
        BY <1>4, <2>1 DEF Discard, Outcome, InFlight, TypeOK
    <2>4. [p \in Opens |-> Worker(p)]' = [p \in Opens |->
            IF p \in K /\ [q \in Opens |-> Worker(q)][p] = "running" THEN "exited"
            ELSE [q \in Opens |-> Worker(q)][p]]
        BY <1>4 DEF Discard, DiscardId, Worker, Running, TypeOK
    <2>5. Pool!Leave(S, K)
        BY <2>2, <2>3, <2>4 DEF Pool!Leave
    <2>6. S \in SUBSET Ids /\ K \in SUBSET {sessions[x] : x \in S}
        BY <2>1
    <2> HIDE DEF S, K
    <2> QED BY <2>5, <2>6 DEF Pool!Next
<1>5. CASE CleanupAndRaise(o)
    <2>1. /\ call[o] \in {"discarded", "killed"} /\ UNCHANGED <<sessions, proc>>
          /\ call' = [call EXCEPT ![o] = "raised"]
        BY <1>5 DEF CleanupAndRaise
    <2>2. Outcome(o) = "opening" /\ ~ Pool!Holds(o)
        BY <2>1 DEF Outcome, InFlight, Pool!Holds, RegisteredBySid, TypeOK
    <2>3. Worker(o) # "running"
        BY <2>1 DEF ProcessByStage, Worker, Running, TypeOK
    <2>4. /\ [p \in Opens |-> Outcome(p)]' = [[p \in Opens |-> Outcome(p)] EXCEPT ![o] = "raised"]
          /\ [p \in Opens |-> Worker(p)]' = [p \in Opens |-> Worker(p)]
        BY <2>1, ViewOfStage DEF InFlight
    <2>5. Pool!Raise(o)
        BY <2>1, <2>2, <2>3, <2>4 DEF Pool!Raise, Pool!Tell
    <2> QED BY <2>5 DEF Pool!Next
<1>6. CASE Publish(o) /\ StillRegistered(o)
    <2>1. /\ call[o] = "ready" /\ UNCHANGED <<sessions, proc>>
          /\ call' = [call EXCEPT ![o] = "open"]
        BY <1>6 DEF Publish
    <2>2. Outcome(o) = "opening" /\ Pool!Holds(o)
        BY <1>6, <2>1 DEF Outcome, InFlight, Pool!Holds, StillRegistered, TypeOK
    <2>3. Worker(o) # "none"
        BY <2>1 DEF ProcessByStage, Worker, Running, TypeOK
    <2>4. /\ [p \in Opens |-> Outcome(p)]' = [[p \in Opens |-> Outcome(p)] EXCEPT ![o] = "open"]
          /\ [p \in Opens |-> Worker(p)]' = [p \in Opens |-> Worker(p)]
        BY <2>1, ViewOfStage DEF InFlight
    <2>5. Pool!Publish(o)
        BY <2>1, <2>2, <2>3, <2>4 DEF Pool!Publish, Pool!Tell
    <2> QED BY <2>5 DEF Pool!Next
<1> QED BY <1>1, <1>2, <1>3, <1>4, <1>5, <1>6 DEF OpenStep

(* Sessions leave without their workers: popped by a closer, or reaped.    *)
LEMMA LeavingRefines ==
    ASSUME TypeOK, NEW S \in SUBSET Ids, sessions' = Pool!Without(S), UNCHANGED <<call, proc>>
    PROVE  Pool!Next
<1>1. Pool!Leave(S, {})
    BY DEF Pool!Leave, Outcome, Worker, Running
<1> QED BY <1>1 DEF Pool!Next

LEMMA AroundRefines ==
    ASSUME IInv,
           \/ \E c \in Closers : CloserCall(c) \/ CloserStep(c)
           \/ \E x \in Ids : GetDead(x)
           \/ Reap
    PROVE  Pool!Next \/ UNCHANGED View
<1> USE PoolAssumption DEF IInv
<1>1. ASSUME NEW c \in Closers, NEW x \in Ids, ClosePop(c, x) PROVE Pool!Next
    <2>1. sessions' = Pool!Without({x}) /\ UNCHANGED <<call, proc>>
        BY <1>1 DEF ClosePop, Pool!Without, TypeOK
    <2> QED BY <2>1, LeavingRefines
<1>2. ASSUME NEW c \in Closers, CloseAllPop(c) PROVE Pool!Next
    <2>1. sessions' = Pool!Without(Ids) /\ UNCHANGED <<call, proc>>
        BY <1>2 DEF CloseAllPop, Pool!Without
    <2> QED BY <2>1, LeavingRefines
<1>3. ASSUME NEW c \in Closers, CloserCleanup(c) PROVE UNCHANGED View
    BY <1>3 DEF CloserCleanup, View, Outcome, Worker, Running
<1>4. ASSUME NEW c \in Closers, NEW o \in Opens, CloserTerminate(c, o)
      PROVE  Pool!Next \/ UNCHANGED View
    <2>1. UNCHANGED <<sessions, call>> /\ \A p \in Opens : Outcome(p)' = Outcome(p)
        BY <1>4 DEF CloserTerminate, Outcome
    <2>2. CASE Running(o)
        <3>1. proc' = [proc EXCEPT ![o] = "exited"] /\ proc[o] # "none"
            BY <1>4, <2>2 DEF CloserTerminate, Running
        <3> QED BY <2>1, <3>1, ViewOfExit DEF Pool!Next
    <2>3. CASE ~ Running(o)
        <3>1. proc' = proc
            BY <1>4, <2>3 DEF CloserTerminate, TypeOK
        <3> QED BY <2>1, <3>1 DEF View, Outcome, Worker, Running
    <2> QED BY <2>2, <2>3
<1>5. ASSUME NEW x \in Ids, GetDead(x) PROVE Pool!Next
    <2>1. sessions' = Pool!Without({x}) /\ call' = call
        BY <1>5 DEF GetDead, DiscardId, Pool!Without, TypeOK
    <2>2. proc' = proc
        BY <1>5 DEF GetDead, DiscardId, IsAlive, Running, TypeOK
    <2> QED BY <2>1, <2>2, LeavingRefines
<1>6. CASE Reap
    <2>1. sessions' = Pool!Without(DeadIds) /\ UNCHANGED <<call, proc>>
        BY <1>6, DeadAreReaped DEF Reap
    <2>2. DeadIds \in SUBSET Ids
        BY DEF DeadIds
    <2> QED BY <2>1, <2>2, LeavingRefines
<1> QED BY <1>1, <1>2, <1>3, <1>4, <1>5, <1>6 DEF CloserCall, CloserStep

(* A worker may come up unseen, and ends as the view lets it.              *)
LEMMA WorkerRefines ==
    ASSUME IInv, NEW o \in Opens, WorkerStep(o)
    PROVE  Pool!Next \/ UNCHANGED View
<1> USE DEF IInv
<1>1. CASE WorkerReady(o)
    <2>1. UNCHANGED <<sessions, call>> /\ \A p \in Opens : Worker(p)' = Worker(p)
        BY <1>1 DEF WorkerReady, Worker, Running, TypeOK
    <2> QED BY <2>1 DEF View, Outcome
<1>2. CASE WorkerExits(o)
    <2>1. /\ UNCHANGED sessions /\ proc' = [proc EXCEPT ![o] = "exited"] /\ proc[o] # "none"
          /\ \A p \in Opens : Outcome(p)' = Outcome(p)
        BY <1>2 DEF WorkerExits, Running, Outcome
    <2> QED BY <2>1, ViewOfExit DEF Pool!Next
<1> QED BY <1>1, <1>2 DEF WorkerStep

(* The pool is a SessionPool: in whatever way opens, closes, crashes and   *)
(* reaps interleave, its callers see no more than the five things a        *)
(* SessionPool may tell them, and each only when it may.                   *)
THEOREM PoolImplementsSessionPool == Spec => ImplementsSessionPool
<1>1. IInv /\ CapRespected /\ [Next]_vars => [Pool!Next]_View
    <2> SUFFICES ASSUME IInv, CapRespected, [Next]_vars PROVE Pool!Next \/ UNCHANGED View
        OBVIOUS
    <2>1. ASSUME NEW o \in Opens, OpenCall(o) PROVE Pool!Next
        BY <2>1, TurnedAwayRefines, ReserveRefines DEF OpenCall, Pool!Next
    <2>2. CASE UNCHANGED vars
        BY <2>2 DEF vars, View, Outcome, Worker, Running
    <2> QED BY <2>1, <2>2, OpeningRefines, WorkerRefines, AroundRefines DEF Next
<1> QED
    BY <1>1, InitRefines, SpecIInv, PoolCapRespected, PTL
    DEF Spec, ImplementsSessionPool, Pool!Spec, Pool!vars, View
=============================================================================
