------------------------ MODULE WorkerProcessProofs ------------------------
(* Theorems about WorkerProcess, for every set of clients, requests and    *)
(* ids and every assignment of ids to requests.                            *)
EXTENDS WorkerProcess, SequenceTheorems, TLAPS

(* Nobody is forgotten: while the worker runs, a thread waits for a job if *)
(* and only if the job is queued, and no thread waits for two.             *)
QueueIsWaiting ==
    /\ jobs \in Seq(Requests) /\ IsInjective(jobs)
    /\ main = "running" => jobs # <<>>
    /\ main # "exited" => \A r \in Requests : stage[r] = "queued" <=> r \in ToSet(jobs)

(* The token of an id is some request's that bears it and was dispatched.  *)
TokensAreNamed == \A i \in RpcIds : tokens[i] # NoRequest =>
    IdOf[tokens[i]] = i /\ stage[tokens[i]] # "none"

(* A request that shares its id with nobody has a token while it is live.  *)
TokenIsLive == main # "exited" =>
    \A r \in Requests : Alone(r) => (Live(r) <=> tokens[IdOf[r]] = r)

IInv == TypeOK /\ QueueIsWaiting /\ TokensAreNamed /\ TokenIsLive /\ CancelHitsItsRequest

---------------------------------------------------------------------------
USE DEF MainStages, WatchStages, Stages, Outcomes, process, registry

(* Nothing has begun.                                                      *)
LEMMA InitIInv == Init => IInv
<1> SUFFICES ASSUME Init PROVE IInv
    OBVIOUS
<1> USE WorkerAssumption DEF Init
<1>e. jobs \in Seq(Requests) /\ ToSet(jobs) = {} /\ IsInjective(jobs)
    BY DEF ToSet, IsInjective
<1>1. TypeOK
    BY <1>e DEF TypeOK
<1>2. QueueIsWaiting
    BY <1>e DEF QueueIsWaiting
<1>3. TokensAreNamed /\ TokenIsLive /\ CancelHitsItsRequest
    BY DEF TokensAreNamed, TokenIsLive, CancelHitsItsRequest, Live
<1> QED BY <1>1, <1>2, <1>3 DEF IInv

(* A request whose id nobody shares now was never one of two: no stage     *)
(* goes back to none.                                                      *)
LEMMA NobodyReturns ==
    ASSUME TypeOK, [Next]_vars, NEW r \in Requests, stage[r] # "none",
           QueueIsWaiting
    PROVE  stage'[r] # "none"
<1> USE DEF TypeOK
<1>1. ASSUME NEW q \in Requests, Accept(q) \/ RequestStep(q) PROVE stage'[r] # "none"
    BY <1>1 DEF Accept, RequestStep, Dispatch, Enqueue, Refuse, Close, Reply
<1>2. CASE MainStep
    BY <1>2 DEF MainStep, Listen, Ready, Pump, Empty, Take, Run, Unwatch, Join, Unlisten,
        Exit, Lose
<1>3. CASE \/ OpenFails \/ Interrupt \/ ParentDies \/ WatchStep \/ UNCHANGED vars
           \/ \E c \in Clients, i \in RpcIds : Cancel(c, i)
    BY <1>3 DEF OpenFails, Interrupt, ParentDies, WatchStep, Poll, Recheck, Fire, Cancel, vars
<1> QED BY <1>1, <1>2, <1>3 DEF Next

LEMMA AloneBefore ==
    ASSUME TypeOK, QueueIsWaiting, [Next]_vars, NEW r \in Requests, Alone(r)'
    PROVE  Alone(r)
BY NobodyReturns DEF Alone

(* The queue: what is taken from its head and put at its end.              *)
LEMMA QueueEnds ==
    ASSUME NEW s \in Seq(Requests), IsInjective(s)
    PROVE  /\ s # <<>> => /\ Head(s) \in Requests /\ Tail(s) \in Seq(Requests)
                          /\ IsInjective(Tail(s))
                          /\ ToSet(Tail(s)) = ToSet(s) \ {Head(s)}
           /\ \A r \in Requests \ ToSet(s) :
                 /\ Append(s, r) \in Seq(Requests)
                 /\ IsInjective(Append(s, r))
                 /\ ToSet(Append(s, r)) = ToSet(s) \cup {r}
<1>1. ASSUME s # <<>>
      PROVE  /\ Head(s) \in Requests /\ Tail(s) \in Seq(Requests)
             /\ IsInjective(Tail(s))
             /\ ToSet(Tail(s)) = ToSet(s) \ {Head(s)}
    <2>1. /\ Len(s) \in Nat \ {0} /\ Head(s) = s[1] /\ Tail(s) \in Seq(Requests)
          /\ Len(Tail(s)) = Len(s) - 1
          /\ \A i \in 1 .. Len(Tail(s)) : Tail(s)[i] = s[i + 1]
        BY <1>1
    <2>2. IsInjective(Tail(s))
        <3> SUFFICES ASSUME NEW i \in 1 .. Len(Tail(s)), NEW j \in 1 .. Len(Tail(s)),
                            Tail(s)[i] = Tail(s)[j]
                     PROVE  i = j
            BY <2>1 DEF IsInjective
        <3>1. i + 1 \in DOMAIN s /\ j + 1 \in DOMAIN s /\ s[i + 1] = s[j + 1]
            BY <2>1
        <3>2. i + 1 = j + 1
            BY <3>1 DEF IsInjective
        <3> QED BY <2>1, <3>2
    <2>3. ASSUME NEW x \in ToSet(Tail(s)) PROVE x \in ToSet(s) \ {Head(s)}
        <3>1. PICK i \in 1 .. Len(Tail(s)) : Tail(s)[i] = x
            BY <2>1 DEF ToSet
        <3>2. i + 1 \in DOMAIN s /\ 1 \in DOMAIN s /\ s[i + 1] = x /\ i + 1 # 1
            BY <2>1, <3>1
        <3>3. s[i + 1] # s[1]
            BY <3>2 DEF IsInjective
        <3> QED BY <2>1, <3>2, <3>3 DEF ToSet
    <2>4. ASSUME NEW x \in ToSet(s) \ {Head(s)} PROVE x \in ToSet(Tail(s))
        <3>1. PICK i \in 1 .. Len(s) : s[i] = x
            BY DEF ToSet
        <3>2. i # 1 /\ i - 1 \in 1 .. Len(Tail(s)) /\ (i - 1) + 1 = i
            BY <2>1, <3>1
        <3>3. Tail(s)[i - 1] = s[(i - 1) + 1]
            BY <2>1, <3>2
        <3>4. i - 1 \in DOMAIN Tail(s) /\ x = Tail(s)[i - 1]
            BY <2>1, <3>1, <3>2, <3>3
        <3> QED BY <3>4 DEF ToSet
    <2> QED BY <2>1, <2>2, <2>3, <2>4
<1>2. ASSUME NEW r \in Requests \ ToSet(s)
      PROVE  /\ Append(s, r) \in Seq(Requests)
             /\ IsInjective(Append(s, r))
             /\ ToSet(Append(s, r)) = ToSet(s) \cup {r}
    <2>1. /\ Len(s) \in Nat /\ Append(s, r) \in Seq(Requests)
          /\ DOMAIN Append(s, r) = 1 .. Len(s) + 1 /\ DOMAIN s = 1 .. Len(s)
          /\ \A i \in 1 .. Len(s) : Append(s, r)[i] = s[i]
          /\ Append(s, r)[Len(s) + 1] = r
        OBVIOUS
    <2>2. IsInjective(Append(s, r))
        BY <2>1 DEF IsInjective, ToSet
    <2>3. ToSet(Append(s, r)) = ToSet(s) \cup {r}
        <3>1. ASSUME NEW x \in ToSet(Append(s, r)) PROVE x \in ToSet(s) \cup {r}
            BY <2>1 DEF ToSet
        <3>2. ASSUME NEW x \in ToSet(s) PROVE x \in ToSet(Append(s, r))
            BY <2>1 DEF ToSet
        <3>3. r \in ToSet(Append(s, r))
            BY <2>1 DEF ToSet
        <3> QED BY <3>1, <3>2, <3>3
    <2> QED BY <2>1, <2>2, <2>3
<1> QED BY <1>1, <1>2

---------------------------------------------------------------------------
(* The steps that touch neither a request nor the registry.                *)
Quiet ==
    /\ UNCHANGED <<jobs, stage, registry, outcome, wanted>>
    /\ main = "exited" => main' = "exited"
    /\ main' = "running" => main = "running" \/ jobs # <<>>

(* Every step is quiet, or one of those that the invariant is about.       *)
LEMMA StepKinds ==
    ASSUME TypeOK, [Next]_vars
    PROVE  \/ Quiet \/ Run \/ Exit
           \/ \E r \in Requests : Accept(r) \/ RequestStep(r)
           \/ \E c \in Clients, i \in RpcIds : Cancel(c, i)
<1>1. CASE MainStep \/ OpenFails \/ Interrupt
    BY <1>1 DEF MainStep, Listen, Ready, Pump, Empty, Take, Unwatch, Join, Unlisten,
        OpenFails, Interrupt, MainGoes, Quiet
<1>2. CASE ParentDies \/ WatchStep \/ UNCHANGED vars
    BY <1>2 DEF ParentDies, WatchStep, Poll, Recheck, Fire, vars, Quiet
<1> QED BY <1>1, <1>2 DEF Next

LEMMA TypeStep ==
    ASSUME TypeOK, QueueIsWaiting, [Next]_vars
    PROVE  TypeOK'
<1> USE WorkerAssumption
<1>1. CASE Run
    <2>1. jobs # <<>> /\ jobs \in Seq(Requests) /\ IsInjective(jobs) /\ jobs' = Tail(jobs)
        BY <1>1 DEF Run, MainGoes, QueueIsWaiting
    <2>2. Head(jobs) \in Requests /\ IsInjective(Tail(jobs)) /\ ToSet(Tail(jobs)) \subseteq Requests
        BY <2>1, QueueEnds DEF TypeOK
    <2>3. IsInjective(jobs') /\ ToSet(jobs') \subseteq Requests
        BY <2>1, <2>2
    <2>4. stage' \in [Requests -> Stages] /\ outcome' \in [Requests -> Outcomes]
        <3>1. PICK how \in {"result", "error", "thrown"} :
                outcome' = [outcome EXCEPT ![Head(jobs)] = how]
            BY <1>1 DEF Run
        <3>2. stage' = [stage EXCEPT ![Head(jobs)] = "done"]
            BY <1>1 DEF Run
        <3>3. stage \in [Requests -> Stages] /\ outcome \in [Requests -> Outcomes]
            BY DEF TypeOK
        <3> QED BY <2>2, <3>1, <3>2, <3>3
    <2>5. UNCHANGED <<parent, stopped, watch, cancelWatch, tokens, tripped, wanted>>
        BY <1>1 DEF Run
    <2>6. main' \in MainStages
        BY <1>1 DEF Run, MainGoes
    <2> QED BY <2>3, <2>4, <2>5, <2>6 DEF TypeOK
<1>2. ASSUME NEW r \in Requests, Enqueue(r), main # "exited" PROVE TypeOK'
    <2>1. /\ jobs \in Seq(Requests) /\ IsInjective(jobs) /\ r \notin ToSet(jobs)
          /\ jobs' = Append(jobs, r)
        BY <1>2 DEF Enqueue, QueueIsWaiting
    <2>2. ToSet(Append(jobs, r)) = ToSet(jobs) \cup {r} /\ IsInjective(Append(jobs, r))
        BY <2>1, QueueEnds
    <2>3. IsInjective(jobs') /\ ToSet(jobs') \subseteq Requests
        BY <2>1, <2>2 DEF TypeOK
    <2> QED BY <1>2, <2>3 DEF Enqueue, TypeOK
<1>3. ASSUME NEW r \in Requests, Accept(r) \/ Dispatch(r) \/ Refuse(r) \/ Close(r) \/ Reply(r)
      PROVE  TypeOK'
    <2>1. UNCHANGED <<parent, main, stopped, jobs, watch, cancelWatch, tripped, wanted>>
        BY <1>3 DEF Accept, Dispatch, Refuse, Close, Reply
    <2>2. stage' \in [Requests -> Stages]
        BY <1>3 DEF Accept, Dispatch, Refuse, Close, Reply, TypeOK
    <2>3. outcome' \in [Requests -> Outcomes]
        BY <1>3 DEF Accept, Dispatch, Refuse, Close, Reply, TypeOK
    <2>4. tokens' \in [RpcIds -> Requests \cup {NoRequest}]
        <3>1. \/ tokens' = tokens \/ tokens' = [tokens EXCEPT ![IdOf[r]] = r]
              \/ tokens' = [tokens EXCEPT ![IdOf[r]] = NoRequest]
            BY <1>3 DEF Accept, Dispatch, Refuse, Close, Reply
        <3>2. tokens \in [RpcIds -> Requests \cup {NoRequest}]
            BY DEF TypeOK
        <3> QED BY <3>1, <3>2
    <2> QED BY <2>1, <2>2, <2>3, <2>4 DEF TypeOK
<1>4. ASSUME NEW c \in Clients, NEW i \in RpcIds, Cancel(c, i) PROVE TypeOK'
    BY <1>4 DEF Cancel, Trip, TypeOK
<1>5. CASE Exit
    BY <1>5 DEF Exit, MainGoes, Lose, TypeOK
<1>6. CASE \/ Listen \/ Ready \/ Pump \/ Empty \/ Take \/ Unwatch \/ Join \/ Unlisten
           \/ OpenFails \/ Interrupt
    BY <1>6 DEF Listen, Ready, Pump, Empty, Take, Unwatch, Join, Unlisten, OpenFails,
        Interrupt, MainGoes, TypeOK
<1>7. CASE ParentDies \/ WatchStep \/ UNCHANGED vars
    BY <1>7 DEF ParentDies, WatchStep, Poll, Recheck, Fire, vars, TypeOK
<1> QED
    BY <1>1, <1>2, <1>3, <1>4, <1>5, <1>6, <1>7 DEF Next, MainStep, RequestStep

LEMMA QueueStep ==
    ASSUME TypeOK, QueueIsWaiting, [Next]_vars
    PROVE  QueueIsWaiting'
<1>1. CASE Quiet
    BY <1>1 DEF Quiet, QueueIsWaiting
<1>2. CASE Run
    <2>1. /\ jobs # <<>> /\ jobs \in Seq(Requests) /\ IsInjective(jobs)
          /\ \A r \in Requests : stage[r] = "queued" <=> r \in ToSet(jobs)
          /\ main' = "pumping" /\ jobs' = Tail(jobs)
          /\ stage' = [stage EXCEPT ![Head(jobs)] = "done"]
        BY <1>2 DEF Run, MainGoes, QueueIsWaiting
    <2>2. /\ Head(jobs) \in Requests /\ Tail(jobs) \in Seq(Requests)
          /\ IsInjective(Tail(jobs)) /\ ToSet(Tail(jobs)) = ToSet(jobs) \ {Head(jobs)}
        BY <2>1, QueueEnds
    <2>3. ASSUME NEW r \in Requests PROVE stage'[r] = "queued" <=> r \in ToSet(Tail(jobs))
        BY <2>1, <2>2 DEF TypeOK
    <2>4. IsInjective(jobs') /\ ToSet(jobs') = ToSet(Tail(jobs)) /\ jobs' \in Seq(Requests)
        BY <2>1, <2>2
    <2> QED BY <2>1, <2>3, <2>4 DEF QueueIsWaiting
<1>3. CASE Exit
    BY <1>3 DEF Exit, MainGoes, QueueIsWaiting
<1>4. ASSUME NEW r \in Requests, main # "exited", Enqueue(r) PROVE QueueIsWaiting'
    <2>1. /\ jobs \in Seq(Requests) /\ IsInjective(jobs)
          /\ \A q \in Requests : stage[q] = "queued" <=> q \in ToSet(jobs)
          /\ stage[r] # "queued" /\ r \notin ToSet(jobs)
          /\ main' = main /\ jobs' = Append(jobs, r)
          /\ stage' = [stage EXCEPT ![r] = "queued"]
        BY <1>4 DEF Enqueue, QueueIsWaiting
    <2>2. /\ Append(jobs, r) \in Seq(Requests) /\ IsInjective(Append(jobs, r))
          /\ ToSet(Append(jobs, r)) = ToSet(jobs) \cup {r}
        BY <2>1, QueueEnds
    <2>3. ASSUME NEW q \in Requests PROVE stage'[q] = "queued" <=> q \in ToSet(Append(jobs, r))
        BY <2>1, <2>2 DEF TypeOK
    <2>4. Append(jobs, r) # <<>>
        BY <2>1
    <2>5. /\ IsInjective(jobs') /\ ToSet(jobs') = ToSet(Append(jobs, r))
          /\ jobs' \in Seq(Requests) /\ jobs' # <<>>
        BY <2>1, <2>2, <2>4
    <2> QED BY <2>3, <2>5 DEF QueueIsWaiting
<1>5. ASSUME NEW r \in Requests, Accept(r) \/ Dispatch(r) \/ Refuse(r) \/ Close(r) \/ Reply(r)
      PROVE  QueueIsWaiting'
    BY <1>5 DEF Accept, Dispatch, Refuse, Close, Reply, QueueIsWaiting, TypeOK
<1>6. ASSUME NEW c \in Clients, NEW i \in RpcIds, Cancel(c, i) PROVE QueueIsWaiting'
    BY <1>6 DEF Cancel, QueueIsWaiting
<1> QED BY <1>1, <1>2, <1>3, <1>4, <1>5, <1>6, StepKinds DEF RequestStep

LEMMA TokensStep ==
    ASSUME TypeOK, QueueIsWaiting, TokensAreNamed, [Next]_vars
    PROVE  TokensAreNamed'
<1> SUFFICES ASSUME NEW i \in RpcIds, tokens'[i] # NoRequest
             PROVE  IdOf[tokens'[i]] = i /\ stage'[tokens'[i]] # "none"
    BY DEF TokensAreNamed
<1>1. CASE tokens'[i] = tokens[i]
    <2>1. tokens[i] \in Requests /\ IdOf[tokens[i]] = i /\ stage[tokens[i]] # "none"
        BY <1>1 DEF TypeOK, TokensAreNamed
    <2>2. stage'[tokens[i]] # "none"
        BY <2>1, NobodyReturns
    <2> QED BY <1>1, <2>1, <2>2
<1>2. ASSUME NEW r \in Requests, Dispatch(r) \/ Close(r), tokens'[i] # tokens[i]
      PROVE  i = IdOf[r] /\ tokens'[i] = r /\ stage'[r] # "none"
    BY <1>2 DEF Dispatch, Close, TypeOK
<1>3. ASSUME tokens' # tokens PROVE \E r \in Requests : Dispatch(r) \/ Close(r)
    BY <1>3, StepKinds DEF Quiet, Run, Exit, Accept, RequestStep, Enqueue, Refuse, Reply, Cancel
<1> QED BY <1>1, <1>2, <1>3

LEMMA LiveStep ==
    ASSUME TypeOK, QueueIsWaiting, TokensAreNamed, TokenIsLive, [Next]_vars
    PROVE  TokenIsLive'
<1> SUFFICES ASSUME main' # "exited", NEW r \in Requests, Alone(r)'
             PROVE  Live(r)' <=> tokens'[IdOf[r]] = r
    BY DEF TokenIsLive
<1> USE WorkerAssumption
<1>t. stage \in [Requests -> Stages] /\ tokens \in [RpcIds -> Requests \cup {NoRequest}]
    BY DEF TypeOK
<1> USE <1>t
<1>1. main # "exited" /\ Alone(r)
    BY AloneBefore, StepKinds DEF Quiet, Run, Exit, MainGoes, Accept, RequestStep, Cancel
<1>2. Live(r) <=> tokens[IdOf[r]] = r
    BY <1>1 DEF TokenIsLive
<1>3. CASE Quiet
    BY <1>2, <1>3 DEF Quiet, Live
<1>4. CASE Run
    <2>1. Head(jobs) \in Requests /\ stage[Head(jobs)] = "queued"
        <3>1. jobs # <<>> /\ jobs \in Seq(Requests) /\ IsInjective(jobs)
            BY <1>4 DEF Run, MainGoes, QueueIsWaiting
        <3>2. Head(jobs) \in Requests
            BY <3>1, QueueEnds
        <3>3. Head(jobs) = jobs[1] /\ 1 \in DOMAIN jobs
            BY <3>1
        <3>4. Head(jobs) \in ToSet(jobs)
            BY <3>3 DEF ToSet
        <3> QED BY <1>1, <3>2, <3>4 DEF QueueIsWaiting
    <2>2. stage' = [stage EXCEPT ![Head(jobs)] = "done"] /\ tokens' = tokens
        BY <1>4 DEF Run
    <2> QED BY <1>2, <2>1, <2>2 DEF Live
<1>5. CASE Exit
    BY <1>5 DEF Exit, MainGoes
<1>6. ASSUME NEW q \in Requests, Accept(q) \/ RequestStep(q)
      PROVE  Live(r)' <=> tokens'[IdOf[r]] = r
    <2>1. CASE q = r
        BY <1>2, <1>6, <2>1 DEF Accept, RequestStep, Dispatch, Enqueue, Refuse, Close, Reply, Live
    <2>2. CASE q # r
        <3>1. stage'[r] = stage[r] /\ (tokens' = tokens \/ stage'[q] # "none")
            BY <1>6, <2>2 DEF Accept, RequestStep, Dispatch, Enqueue, Refuse, Close, Reply
        <3>2. stage'[q] # "none" => IdOf[q] # IdOf[r]
            BY <2>2 DEF Alone
        <3>3. tokens'[IdOf[r]] = tokens[IdOf[r]]
            BY <1>6, <3>1, <3>2 DEF Accept, RequestStep, Dispatch, Enqueue, Refuse, Close, Reply
        <3> QED BY <1>2, <3>1, <3>3 DEF Live
    <2> QED BY <2>1, <2>2
<1>7. ASSUME NEW c \in Clients, NEW i \in RpcIds, Cancel(c, i)
      PROVE  Live(r)' <=> tokens'[IdOf[r]] = r
    BY <1>2, <1>7 DEF Cancel, Live
<1> QED BY <1>3, <1>4, <1>5, <1>6, <1>7, StepKinds

(* The token under the id that a notification names is its request's: who  *)
(* shares the id with nobody has it while live, and only then.             *)
LEMMA CancelStep ==
    ASSUME IInv, [Next]_vars
    PROVE  CancelHitsItsRequest'
<1> SUFFICES ASSUME NEW r \in Requests, Alone(r)'
             PROVE  r \in tripped' <=> r \in wanted'
    BY DEF CancelHitsItsRequest
<1>1. Alone(r) /\ (r \in tripped <=> r \in wanted)
    BY AloneBefore DEF IInv, CancelHitsItsRequest
<1>2. CASE UNCHANGED <<tripped, wanted>>
    BY <1>1, <1>2
<1>3. ASSUME NEW c \in Clients, NEW i \in RpcIds, Cancel(c, i)
      PROVE  r \in tripped' <=> r \in wanted'
    <2> USE <1>3
    <2>1. main # "exited"
        BY DEF Cancel, Serving
    <2>2. PICK q \in Requests : ClientOf[q] = c /\ IdOf[q] = i /\ stage[q] # "none"
        BY DEF Cancel
    <2>3. /\ r \in tripped' <=> r \in tripped \/ (tokens[i] # NoRequest /\ r = tokens[i])
          /\ r \in wanted' <=> r \in wanted \/ (Live(r) /\ ClientOf[r] = c /\ IdOf[r] = i)
        BY DEF Cancel, Trip
    <2>4. CASE IdOf[r] = i
        <3>1. q = r
            BY <1>1, <2>2, <2>4 DEF Alone
        <3>2. Live(r) <=> tokens[i] = r
            BY <1>1, <2>1, <2>4 DEF IInv, TokenIsLive
        <3>3. r # NoRequest
            BY WorkerAssumption
        <3> QED BY <1>1, <2>2, <2>3, <2>4, <3>1, <3>2, <3>3
    <2>5. CASE IdOf[r] # i
        <3>1. tokens[i] = NoRequest \/ IdOf[tokens[i]] = i
            BY DEF IInv, TokensAreNamed
        <3> QED BY <1>1, <2>3, <2>5, <3>1
    <2> QED BY <2>4, <2>5
<1> QED
    BY <1>2, <1>3, StepKinds DEF IInv, Quiet, Run, Exit, Accept, RequestStep, Dispatch, Enqueue,
        Refuse, Close, Reply

LEMMA Inductive == Spec => []IInv
<1>1. IInv /\ [Next]_vars => IInv'
    BY TypeStep, QueueStep, TokensStep, LiveStep, CancelStep DEF IInv
<1> QED BY InitIInv, <1>1, PTL DEF Spec

---------------------------------------------------------------------------
(* As long as the worker runs, the threads that wait for the main thread   *)
(* are those whose job is queued, each for one job (worker_main.py:41-43): *)
(* nobody waits for a job that is not there.                               *)
THEOREM ProcessQueueIsWaiting == Spec => []QueueIsWaiting
<1>1. IInv => QueueIsWaiting
    BY DEF IInv
<1> QED BY Inductive, <1>1, PTL

(* A cancellation trips the token of the live request it names and no      *)
(* other, until another client has used the same id (context.py:5-7).      *)
THEOREM ProcessCancelHitsItsRequest == Spec => []CancelHitsItsRequest
<1>1. IInv => CancelHitsItsRequest
    BY DEF IInv
<1> QED BY Inductive, <1>1, PTL
============================================================================
