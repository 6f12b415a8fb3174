--------------------------- MODULE ServicesProofs ---------------------------
(* The services of Services, for every program, repository and database    *)
(* and every bound: the bounded walk of a call graph is consistent, exact  *)
(* and whole; a sweep is honest about what it found; the database is sound *)
(* after any sequence of calls; and the tracers of data flow agree.        *)
EXTENDS Services, WellFoundedInduction, FiniteSetTheorems, TLAPS

-----------------------------------------------------------------------------
(* The call graph.                                                         *)

Entries == Targets \X Nat

Waiting(q) == {q[k][1] : k \in DOMAIN q}

Distinct(q) == \A i, j \in DOMAIN q : q[i][1] = q[j][1] => i = j

(* What is known of the functions that have left the queue.  A missing     *)
(* call stays missing either because its function is not being expanded,   *)
(* and never will be again, or because the ceiling keeps its target out.   *)
Walked(f) == f \in nodes /\ f \notin Waiting(queue)

NothingElided == \A f \in Targets, t \in Targets :
    Walked(f) /\ HasBody(f) /\ t \in Elems(callees[f]) =>
        <<f, t>> \in edges \/ (f = current[1] /\ t \in Elems(rest))

SomethingElided == \E f \in Targets, t \in Targets :
    /\ Walked(f) /\ HasBody(f) /\ t \in Elems(callees[f])
    /\ <<f, t>> \notin edges
    /\ \/ rest # <<>> => f # current[1]
       \/ t \notin nodes /\ Cardinality(nodes) >= maxNodes

QueueInv ==
    /\ scheduled = nodes
    /\ Root \in nodes
    /\ Waiting(queue) \subseteq nodes
    /\ Distinct(queue)

CurrentInv == rest # <<>> =>
    /\ Walked(current[1])
    /\ HasBody(current[1])
    /\ Elems(rest) \subseteq Elems(callees[current[1]])

EdgeInv == \A f, t \in Targets : <<f, t>> \in edges =>
    /\ Walked(f) /\ t \in nodes
    /\ HasBody(f) /\ t \in Elems(callees[f])

CeilingInv == IsFiniteSet(nodes) /\ Cardinality(nodes) <= maxNodes

ElidedInv == IF truncated THEN SomethingElided ELSE NothingElided

DoneInv == status = "done" => rest = <<>> /\ queue = <<>>

IInv == TypeOK /\ QueueInv /\ CurrentInv /\ EdgeInv /\ CeilingInv /\ ElidedInv /\ DoneInv

-----------------------------------------------------------------------------
(* Queues and lists.                                                       *)

LEMMA TailOfList ==
    ASSUME NEW s \in Seq(Targets), s # <<>>
    PROVE  /\ Tail(s) \in Seq(Targets)
           /\ Head(s) \in Targets
           /\ Elems(s) = Elems(Tail(s)) \cup {Head(s)}
<1>1. Tail(s) \in Seq(Targets) /\ Head(s) \in Targets
  OBVIOUS
<1>2. ASSUME NEW k \in DOMAIN s
      PROVE  s[k] \in Elems(Tail(s)) \cup {Head(s)}
  <2>1. CASE k = 1
    BY <2>1
  <2>2. CASE k # 1
    <3>1. k - 1 \in DOMAIN Tail(s) /\ Tail(s)[k - 1] = s[k]
      BY <2>2
    <3> QED BY <3>1 DEF Elems
  <2> QED BY <2>1, <2>2
<1>3. ASSUME NEW k \in DOMAIN Tail(s)
      PROVE  Tail(s)[k] \in Elems(s)
  <2>1. k + 1 \in DOMAIN s /\ Tail(s)[k] = s[k + 1]
    OBVIOUS
  <2> QED BY <2>1 DEF Elems
<1>4. Head(s) \in Elems(s)
  BY DEF Elems
<1> QED BY <1>1, <1>2, <1>3, <1>4 DEF Elems

LEMMA TailOfQueue ==
    ASSUME NEW q \in Seq(Entries), q # <<>>, Distinct(q)
    PROVE  /\ Tail(q) \in Seq(Entries)
           /\ Head(q) \in Entries
           /\ Distinct(Tail(q))
           /\ Head(q)[1] \in Waiting(q)
           /\ Waiting(Tail(q)) = Waiting(q) \ {Head(q)[1]}
<1>1. Tail(q) \in Seq(Entries) /\ Head(q) \in Entries
  OBVIOUS
<1>2. \A k \in DOMAIN Tail(q) : k + 1 \in DOMAIN q /\ Tail(q)[k] = q[k + 1] /\ k + 1 # 1
  OBVIOUS
<1>3. \A k \in DOMAIN q : k # 1 => k - 1 \in DOMAIN Tail(q) /\ Tail(q)[k - 1] = q[k]
  OBVIOUS
<1>4. 1 \in DOMAIN q /\ Head(q) = q[1]
  OBVIOUS
<1>5. Distinct(Tail(q))
  <2>1. SUFFICES ASSUME NEW i \in DOMAIN Tail(q), NEW j \in DOMAIN Tail(q),
                        Tail(q)[i][1] = Tail(q)[j][1]
                 PROVE  i = j
    BY DEF Distinct
  <2>2. i + 1 = j + 1
    BY <1>2, <2>1 DEF Distinct
  <2>3. i \in Nat /\ j \in Nat
    BY <1>1
  <2> QED BY <2>2, <2>3
<1>6. ASSUME NEW f \in Waiting(Tail(q))
      PROVE  f \in Waiting(q) /\ f # Head(q)[1]
  <2>1. PICK k \in DOMAIN Tail(q) : f = Tail(q)[k][1]
    BY DEF Waiting
  <2>2. k + 1 \in DOMAIN q /\ f = q[k + 1][1] /\ k + 1 # 1
    BY <1>2, <2>1
  <2>3. f \in Waiting(q)
    BY <2>2 DEF Waiting
  <2>4. f # q[1][1]
    BY <2>2, <1>4 DEF Distinct
  <2> QED BY <2>3, <2>4, <1>4
<1>7. ASSUME NEW f \in Waiting(q), f # Head(q)[1]
      PROVE  f \in Waiting(Tail(q))
  <2>1. PICK k \in DOMAIN q : f = q[k][1]
    BY DEF Waiting
  <2>2. k # 1
    BY <2>1, <1>7, <1>4
  <2>3. k - 1 \in DOMAIN Tail(q) /\ Tail(q)[k - 1] = q[k]
    BY <2>2, <1>3
  <2> QED BY <2>1, <2>3 DEF Waiting
<1>8. Head(q)[1] \in Waiting(q)
  BY <1>4 DEF Waiting
<1> QED BY <1>1, <1>5, <1>6, <1>7, <1>8

LEMMA AppendToQueue ==
    ASSUME NEW q \in Seq(Entries), NEW e \in Entries, Distinct(q), e[1] \notin Waiting(q)
    PROVE  /\ Append(q, e) \in Seq(Entries)
           /\ Distinct(Append(q, e))
           /\ Waiting(Append(q, e)) = Waiting(q) \cup {e[1]}
<1> DEFINE a == Append(q, e)
<1>1. a \in Seq(Entries) /\ Len(a) = Len(q) + 1 /\ Len(q) \in Nat
  OBVIOUS
<1>2. \A k \in DOMAIN q : k \in DOMAIN a /\ a[k] = q[k]
  OBVIOUS
<1>3. Len(q) + 1 \in DOMAIN a /\ a[Len(q) + 1] = e
  OBVIOUS
<1>4. \A k \in DOMAIN a : k \in DOMAIN q \/ k = Len(q) + 1
  OBVIOUS
<1>5. \A k \in DOMAIN q : q[k][1] # e[1]
  BY DEF Waiting
<1> HIDE DEF a
<1>6. Distinct(a)
  BY <1>2, <1>3, <1>4, <1>5 DEF Distinct
<1>7. Waiting(a) = Waiting(q) \cup {e[1]}
  BY <1>2, <1>3, <1>4 DEF Waiting
<1> QED BY <1>1, <1>6, <1>7 DEF a
-----------------------------------------------------------------------------
(* The invariant.  The arguments of a request never change.                *)

USE DEF request

LEMMA InitIInv == Init => IInv
<1> SUFFICES ASSUME Init PROVE IInv
  OBVIOUS
<1> USE CallGraphAssumption
<1>1. TypeOK
  <2>1. <<Root, 0>> \in Targets \X Nat
    OBVIOUS
  <2>2. queue \in Seq(Targets \X Nat) /\ current \in Targets \X Nat
    BY <2>1 DEF Init
  <2>3. rest \in Seq(Targets)
    BY DEF Init
  <2> QED BY <2>2, <2>3 DEF Init, TypeOK
<1>2. Waiting(queue) = {Root} /\ Distinct(queue)
  BY DEF Init, Waiting, Distinct
<1>3. QueueInv
  BY <1>2 DEF Init, QueueInv
<1>4. CeilingInv
  <2>1. IsFiniteSet({Root}) /\ Cardinality({Root}) = 1
    BY FS_Singleton
  <2>2. maxNodes \in Nat \ {0}
    BY DEF Init
  <2> QED BY <2>1, <2>2 DEF Init, CeilingInv
<1>5. ElidedInv
  <2>1. ASSUME NEW f \in Targets PROVE ~ Walked(f)
    BY <1>2 DEF Init, Walked
  <2> QED BY <2>1 DEF Init, ElidedInv, NothingElided
<1> QED BY <1>1, <1>3, <1>4, <1>5 DEF Init, IInv, CurrentInv, EdgeInv, DoneInv

(* Taking the first function off the queue.                                *)
LEMMA PopFacts ==
    ASSUME IInv, Popping
    PROVE  /\ queue \in Seq(Entries) /\ Head(queue) \in Entries
           /\ Front \in Targets /\ Level \in Nat /\ Front \in nodes
           /\ Tail(queue) \in Seq(Entries) /\ Distinct(Tail(queue))
           /\ Front \in Waiting(queue)
           /\ Waiting(Tail(queue)) = Waiting(queue) \ {Front}
<1>1. queue \in Seq(Entries) /\ queue # <<>> /\ Distinct(queue)
  BY DEF IInv, TypeOK, QueueInv, Popping, Entries
<1>2. /\ Tail(queue) \in Seq(Entries) /\ Head(queue) \in Entries
      /\ Distinct(Tail(queue)) /\ Head(queue)[1] \in Waiting(queue)
      /\ Waiting(Tail(queue)) = Waiting(queue) \ {Head(queue)[1]}
  BY <1>1, TailOfQueue
<1>3. Front \in Targets /\ Level \in Nat
  BY <1>2 DEF Front, Level, Entries
<1> QED BY <1>1, <1>2, <1>3 DEF IInv, QueueInv, Front

LEMMA LeafStep == IInv /\ Leaf => IInv'
<1> SUFFICES ASSUME IInv, Leaf PROVE IInv'
  OBVIOUS
<1>1. Popping
  BY DEF Leaf
<1>2. Tail(queue) \in Seq(Entries) /\ Distinct(Tail(queue)) /\ Front \in nodes
      /\ Waiting(Tail(queue)) = Waiting(queue) \ {Front} /\ Front \in Waiting(queue)
  BY <1>1, PopFacts
<1>3. Waiting(queue)' = Waiting(queue) \ {Front} /\ Distinct(queue)'
  BY <1>2 DEF Leaf, Waiting, Distinct
<1>4. \A f : Walked(f)' <=> Walked(f) \/ f = Front
  BY <1>2, <1>3 DEF Leaf, Walked
<1>5. TypeOK'
  BY <1>2 DEF IInv, TypeOK, Leaf, Entries
<1>6. QueueInv'
  BY <1>3 DEF IInv, QueueInv, Leaf
<1>7. EdgeInv'
  BY <1>4 DEF IInv, EdgeInv, Leaf, HasBody, Elems
<1>8. ElidedInv'
  <2>1. CASE truncated
    BY <2>1, <1>4 DEF IInv, ElidedInv, SomethingElided, Leaf, HasBody, Elems
  <2>2. CASE ~ truncated
    BY <2>2, <1>4 DEF IInv, ElidedInv, NothingElided, Leaf, HasBody, Elems
  <2> QED BY <2>1, <2>2
<1>9. CurrentInv' /\ CeilingInv' /\ DoneInv'
  BY <1>1 DEF IInv, CurrentInv, CeilingInv, DoneInv, Leaf, Popping
<1> QED BY <1>5, <1>6, <1>7, <1>8, <1>9 DEF IInv

LEMMA FrontierStep == IInv /\ Frontier => IInv'
<1> SUFFICES ASSUME IInv, Frontier PROVE IInv'
  OBVIOUS
<1>1. Popping
  BY DEF Frontier
<1>2. Tail(queue) \in Seq(Entries) /\ Distinct(Tail(queue)) /\ Front \in nodes
      /\ Waiting(Tail(queue)) = Waiting(queue) \ {Front} /\ Front \in Waiting(queue)
      /\ Front \in Targets
  BY <1>1, PopFacts
<1>3. Waiting(queue)' = Waiting(queue) \ {Front} /\ Distinct(queue)'
  BY <1>2 DEF Frontier, Waiting, Distinct
<1>4. \A f : Walked(f)' <=> Walked(f) \/ f = Front
  BY <1>2, <1>3 DEF Frontier, Walked
<1>5. TypeOK'
  BY <1>2 DEF IInv, TypeOK, Frontier, Entries
<1>6. QueueInv'
  BY <1>3 DEF IInv, QueueInv, Frontier
<1>7. EdgeInv'
  BY <1>4 DEF IInv, EdgeInv, Frontier, HasBody, Elems
<1>8. ElidedInv'
  <2>1. CASE truncated
    BY <2>1, <1>4 DEF IInv, ElidedInv, SomethingElided, Frontier, HasBody, Elems
  <2>2. CASE ~ truncated /\ callees[Front] = <<>>
    <3>1. Elems(callees[Front]) = {} /\ truncated' = FALSE
      BY <2>2 DEF Frontier, Elems, IInv, TypeOK
    <3>2. \A f, t \in Targets :
             Walked(f) /\ HasBody(f) /\ t \in Elems(callees[f]) =>
                <<f, t>> \in edges \/ (f = current[1] /\ t \in Elems(rest))
      BY <2>2 DEF IInv, ElidedInv, NothingElided
    <3>3. Elems(rest)' = Elems(rest) /\ \A f : Elems(callees[f])' = Elems(callees[f])
      BY DEF Frontier, Elems
    <3>4. NothingElided'
      <4> SUFFICES ASSUME NEW f \in Targets, NEW u \in Targets, Walked(f)',
                          HasBody(f)', u \in Elems(callees[f])'
                   PROVE  (<<f, u>> \in edges \/ (f = current[1] /\ u \in Elems(rest)))'
        BY DEF NothingElided
      <4>1. HasBody(f) /\ u \in Elems(callees[f])
        BY <3>3 DEF Frontier, HasBody
      <4>2. f # Front
        BY <4>1, <3>1
      <4>3. <<f, u>> \in edges \/ (f = current[1] /\ u \in Elems(rest))
        BY <1>4, <3>2, <4>1, <4>2
      <4> QED BY <4>3, <3>3 DEF Frontier
    <3> QED BY <3>1, <3>4 DEF ElidedInv
  <2>3. CASE ~ truncated /\ callees[Front] # <<>>
    <3>1. callees[Front] \in Seq(Targets)
      BY <1>2, CallGraphAssumption DEF IInv, TypeOK, Frontier, HasBody
    <3>2. Head(callees[Front]) \in Elems(callees[Front]) \cap Targets
      BY <3>1, <2>3, TailOfList
    <3>3. PICK f \in Targets, t \in Targets : f = Front /\ t = Head(callees[Front])
      BY <1>2, <3>2
    <3>4. SomethingElided'
      <4>1. <<f, t>> \notin edges
        BY <1>2, <3>3 DEF IInv, EdgeInv, Walked
      <4>2. Walked(f)' /\ HasBody(f)'
        BY <1>4, <3>3 DEF Frontier, HasBody
      <4>3. t \in Elems(callees[f])'
        BY <3>2, <3>3 DEF Frontier, Elems
      <4>4. <<f, t>> \notin edges' /\ rest' = <<>>
        BY <1>1, <4>1 DEF Frontier, Popping
      <4> QED BY <4>2, <4>3, <4>4 DEF SomethingElided
    <3> QED BY <3>4, <2>3 DEF ElidedInv, Frontier
  <2> QED BY <2>1, <2>2, <2>3
<1>9. CurrentInv' /\ CeilingInv' /\ DoneInv'
  BY <1>1 DEF IInv, CurrentInv, CeilingInv, DoneInv, Frontier, Popping
<1> QED BY <1>5, <1>6, <1>7, <1>8, <1>9 DEF IInv

LEMMA ExpandStep == IInv /\ Expand => IInv'
<1> SUFFICES ASSUME IInv, Expand PROVE IInv'
  OBVIOUS
<1>1. Popping
  BY DEF Expand
<1>2. Tail(queue) \in Seq(Entries) /\ Distinct(Tail(queue)) /\ Front \in nodes
      /\ Waiting(Tail(queue)) = Waiting(queue) \ {Front} /\ Front \in Waiting(queue)
      /\ Front \in Targets /\ Head(queue) \in Entries
  BY <1>1, PopFacts
<1>3. Waiting(queue)' = Waiting(queue) \ {Front} /\ Distinct(queue)'
  BY <1>2 DEF Expand, Waiting, Distinct
<1>4. \A f : Walked(f)' <=> Walked(f) \/ f = Front
  BY <1>2, <1>3 DEF Expand, Walked
<1>5. callees[Front] \in Seq(Targets)
  BY <1>2, CallGraphAssumption DEF IInv, TypeOK, Expand, HasBody
<1>6. current'[1] = Front /\ rest' = callees[Front] /\ rest = <<>>
  BY <1>1 DEF Expand, Front, Popping
<1>7. TypeOK'
  BY <1>2, <1>5 DEF IInv, TypeOK, Expand, Entries
<1>8. QueueInv'
  BY <1>3 DEF IInv, QueueInv, Expand
<1>9. EdgeInv'
  BY <1>4 DEF IInv, EdgeInv, Expand, HasBody, Elems
<1>10. CurrentInv'
  BY <1>2, <1>4, <1>6 DEF CurrentInv, Expand, HasBody, Elems
<1>11. ElidedInv'
  <2>1. CASE truncated
    <3>1. PICK f \in Targets, t \in Targets :
             /\ Walked(f) /\ HasBody(f) /\ t \in Elems(callees[f])
             /\ <<f, t>> \notin edges
      BY <2>1 DEF IInv, ElidedInv, SomethingElided
    <3>2. f # Front
      BY <3>1, <1>2 DEF Walked
    <3>3. SomethingElided'
      BY <3>1, <3>2, <1>4, <1>6 DEF SomethingElided, Expand, HasBody, Elems
    <3> QED BY <2>1, <3>3 DEF ElidedInv, Expand
  <2>2. CASE ~ truncated
    BY <2>2, <1>4, <1>6 DEF IInv, ElidedInv, NothingElided, Expand, HasBody, Elems
  <2> QED BY <2>1, <2>2
<1>12. CeilingInv' /\ DoneInv'
  BY <1>1 DEF IInv, CeilingInv, DoneInv, Expand, Popping
<1> QED BY <1>7, <1>8, <1>9, <1>10, <1>11, <1>12 DEF IInv

LEMMA DropStep == IInv /\ DropCallee => IInv'
<1> SUFFICES ASSUME IInv, DropCallee PROVE IInv'
  OBVIOUS
<1>1. rest \in Seq(Targets) /\ rest # <<>>
  BY DEF IInv, TypeOK, DropCallee
<1>2. Tail(rest) \in Seq(Targets) /\ Head(rest) \in Targets
      /\ Elems(rest) = Elems(Tail(rest)) \cup {Head(rest)}
  BY <1>1, TailOfList
<1>3. \A f : Walked(f)' <=> Walked(f)
  BY DEF DropCallee, Walked, Waiting
<1>4. current[1] \in Targets /\ Walked(current[1]) /\ HasBody(current[1])
      /\ Head(rest) \in Elems(callees[current[1]])
      /\ Elems(Tail(rest)) \subseteq Elems(callees[current[1]])
  BY <1>1, <1>2 DEF IInv, TypeOK, CurrentInv
<1>5. Head(rest) \notin nodes /\ Cardinality(nodes) >= maxNodes
  BY DEF DropCallee, OverCeiling
<1>6. <<current[1], Head(rest)>> \notin edges
  BY <1>2, <1>4, <1>5 DEF IInv, EdgeInv
<1>7. SomethingElided'
  BY <1>2, <1>3, <1>4, <1>5, <1>6 DEF SomethingElided, DropCallee, HasBody, Elems
<1>8. TypeOK'
  BY <1>2 DEF IInv, TypeOK, DropCallee
<1>9. QueueInv'
  BY DEF IInv, QueueInv, DropCallee, Waiting, Distinct
<1>10. CurrentInv'
  <2>1. Elems(rest)' = Elems(Tail(rest)) /\ Elems(callees[current[1]])' = Elems(callees[current[1]])
    BY DEF DropCallee, Elems
  <2> QED BY <1>3, <1>4, <2>1 DEF CurrentInv, DropCallee, HasBody
<1>11. EdgeInv'
  BY <1>3 DEF IInv, EdgeInv, DropCallee, HasBody, Elems
<1>12. ElidedInv' /\ CeilingInv' /\ DoneInv'
  BY <1>7 DEF IInv, ElidedInv, CeilingInv, DoneInv, DropCallee
<1> QED BY <1>8, <1>9, <1>10, <1>11, <1>12 DEF IInv
LEMMA TakeStep == IInv /\ TakeCallee => IInv'
<1> SUFFICES ASSUME IInv, TakeCallee PROVE IInv'
  OBVIOUS
<1>1. rest \in Seq(Targets) /\ rest # <<>>
  BY DEF IInv, TypeOK, TakeCallee
<1>2. PICK t \in Targets : t = Head(rest)
  BY <1>1, TailOfList
<1>3. PICK g \in Targets : g = current[1]
  BY DEF IInv, TypeOK
<1>4. Tail(rest) \in Seq(Targets) /\ Elems(rest) = Elems(Tail(rest)) \cup {t}
  BY <1>1, <1>2, TailOfList
<1>5. /\ nodes' = nodes \cup {t} /\ edges' = edges \cup {<<g, t>>}
      /\ scheduled' = scheduled \cup {t} /\ rest' = Tail(rest)
      /\ queue' = IF t \in scheduled THEN queue ELSE Append(queue, <<t, current[2] + 1>>)
      /\ UNCHANGED <<callees, depth, maxNodes, current, truncated, status>>
  BY <1>2, <1>3 DEF TakeCallee
<1>6. scheduled = nodes /\ Root \in nodes /\ Waiting(queue) \subseteq nodes
      /\ queue \in Seq(Entries) /\ Distinct(queue)
  BY DEF IInv, TypeOK, QueueInv, Entries
<1>7. Walked(g) /\ HasBody(g) /\ Elems(rest) \subseteq Elems(callees[g])
  BY <1>1, <1>3 DEF IInv, CurrentInv
<1>8. queue' \in Seq(Entries) /\ Distinct(queue')
      /\ Waiting(queue') = IF t \in nodes THEN Waiting(queue) ELSE Waiting(queue) \cup {t}
  <2>1. CASE t \in nodes
    BY <2>1, <1>5, <1>6
  <2>2. CASE t \notin nodes
    <3>1. PICK e \in Entries : e = <<t, current[2] + 1>>
      <4>1. current[2] \in Nat
        BY DEF IInv, TypeOK
      <4>2. <<t, current[2] + 1>> \in Entries
        BY <4>1 DEF Entries
      <4> QED BY <4>2
    <3>2. e[1] \notin Waiting(queue) /\ e[1] = t /\ queue' = Append(queue, e)
      BY <3>1, <2>2, <1>5, <1>6
    <3> QED BY <3>2, <2>2, <1>6, AppendToQueue
  <2> QED BY <2>1, <2>2
<1>9. \A f : Walked(f)' <=> Walked(f)
  <2>1. \A f : f \in Waiting(queue)' <=> f \in Waiting(queue')
    BY DEF Waiting
  <2>2. \A f : Walked(f)' <=> f \in nodes' /\ f \notin Waiting(queue')
    BY <2>1 DEF Walked
  <2> QED BY <2>2, <1>5, <1>6, <1>8 DEF Walked
<1>10. TypeOK'
  BY <1>4, <1>5, <1>8 DEF IInv, TypeOK, Entries
<1>11. QueueInv'
  BY <1>5, <1>6, <1>8 DEF QueueInv, Waiting, Distinct
<1>12. Elems(rest)' = Elems(Tail(rest)) /\ \A f : Elems(callees[f])' = Elems(callees[f])
  BY <1>5 DEF Elems
<1>13. CurrentInv'
  <2>1. Walked(g)' /\ HasBody(g)' /\ g = current'[1]
    BY <1>3, <1>5, <1>7, <1>9 DEF HasBody
  <2>2. Elems(rest)' \subseteq Elems(callees[g])'
    BY <1>4, <1>7, <1>12
  <2> QED BY <2>1, <2>2 DEF CurrentInv
<1>14. EdgeInv'
  <2> SUFFICES ASSUME NEW f \in Targets, NEW u \in Targets, <<f, u>> \in edges'
               PROVE  Walked(f)' /\ u \in nodes' /\ HasBody(f)' /\ u \in Elems(callees[f])'
    BY DEF EdgeInv
  <2>1. CASE <<f, u>> \in edges
    BY <2>1, <1>5, <1>9, <1>12 DEF IInv, EdgeInv, HasBody
  <2>2. CASE f = g /\ u = t
    BY <2>2, <1>4, <1>5, <1>7, <1>9, <1>12 DEF HasBody
  <2> QED BY <2>1, <2>2, <1>5
<1>15. CeilingInv'
  <2>1. IsFiniteSet(nodes) /\ Cardinality(nodes) \in Nat /\ Cardinality(nodes) <= maxNodes
    BY FS_CardinalityType DEF IInv, CeilingInv
  <2>2. IsFiniteSet(nodes') /\ Cardinality(nodes') = IF t \in nodes THEN Cardinality(nodes)
                                                     ELSE Cardinality(nodes) + 1
    <3>1. /\ IsFiniteSet(nodes \cup {t})
          /\ Cardinality(nodes \cup {t}) = IF t \in nodes THEN Cardinality(nodes)
                                           ELSE Cardinality(nodes) + 1
      BY <2>1, FS_AddElement
    <3> QED BY <3>1, <1>5
  <2>3. t \in nodes \/ ~ (Cardinality(nodes) >= maxNodes)
    BY <1>2 DEF TakeCallee, OverCeiling
  <2>4. maxNodes \in Nat
    BY CallGraphAssumption DEF IInv, TypeOK
  <2>5. Cardinality(nodes') <= maxNodes
    BY <2>1, <2>2, <2>3, <2>4
  <2> QED BY <2>2, <2>5, <1>5 DEF CeilingInv
<1>16. ElidedInv'
  <2>1. CASE truncated
    <3>1. PICK f \in Targets, u \in Targets :
             /\ Walked(f) /\ HasBody(f) /\ u \in Elems(callees[f])
             /\ <<f, u>> \notin edges
             /\ \/ rest # <<>> => f # current[1]
                \/ u \notin nodes /\ Cardinality(nodes) >= maxNodes
      BY <2>1 DEF IInv, ElidedInv, SomethingElided
    <3>2. CASE f # g
      <4>1. <<f, u>> \notin edges' /\ f # current'[1]
        BY <3>1, <3>2, <1>3, <1>5
      <4>2. Walked(f)' /\ HasBody(f)' /\ u \in Elems(callees[f])'
        BY <3>1, <1>5, <1>9, <1>12 DEF HasBody
      <4>3. SomethingElided'
        BY <4>1, <4>2 DEF SomethingElided
      <4> QED BY <4>3, <2>1, <1>5 DEF ElidedInv
    <3>3. CASE f = g
      <4>1. u \notin nodes /\ Cardinality(nodes) >= maxNodes
        BY <3>1, <3>3, <1>1, <1>3
      <4>2. t \in nodes
        BY <4>1, <1>2 DEF TakeCallee, OverCeiling
      <4>3. nodes' = nodes /\ u # t
        BY <4>1, <4>2, <1>5
      <4>4. <<f, u>> \notin edges'
        BY <3>1, <4>3, <1>5
      <4>5. Walked(f)' /\ HasBody(f)' /\ u \in Elems(callees[f])'
        BY <3>1, <1>5, <1>9, <1>12 DEF HasBody
      <4>6. SomethingElided'
        BY <4>1, <4>3, <4>4, <4>5, <1>5 DEF SomethingElided
      <4> QED BY <4>6, <2>1, <1>5 DEF ElidedInv
    <3> QED BY <3>2, <3>3
  <2>2. CASE ~ truncated
    <3> SUFFICES ASSUME NEW f \in Targets, NEW u \in Targets, Walked(f)',
                        HasBody(f)', u \in Elems(callees[f])'
                 PROVE  (<<f, u>> \in edges \/ (f = current[1] /\ u \in Elems(rest)))'
      BY <2>2, <1>5 DEF ElidedInv, NothingElided
    <3>1. Walked(f) /\ HasBody(f) /\ u \in Elems(callees[f])
      BY <1>5, <1>9, <1>12 DEF HasBody
    <3>2. <<f, u>> \in edges \/ (f = g /\ u \in Elems(rest))
      BY <3>1, <2>2, <1>3 DEF IInv, ElidedInv, NothingElided
    <3>3. CASE <<f, u>> \in edges \/ (f = g /\ u = t)
      BY <3>3, <1>5
    <3>4. CASE f = g /\ u \in Elems(Tail(rest))
      BY <3>4, <1>3, <1>5, <1>12
    <3> QED BY <3>2, <3>3, <3>4, <1>4
  <2> QED BY <2>1, <2>2
<1>17. DoneInv'
  BY <1>5 DEF DoneInv, TakeCallee
<1> QED BY <1>10, <1>11, <1>13, <1>14, <1>15, <1>16, <1>17 DEF IInv

(* A step that touches no more than the status.                            *)
LEMMA QuietStep ==
    ASSUME IInv, status' \in {"walking", "done", "raised"}, DoneInv',
           UNCHANGED <<request, nodes, edges, scheduled, queue, current, rest, truncated>>
    PROVE  IInv'
<1>1. \A f : Walked(f)' <=> Walked(f)
  BY DEF Walked, Waiting
<1>2. Elems(rest)' = Elems(rest) /\ \A f : Elems(callees[f])' = Elems(callees[f])
  BY DEF Elems
<1>3. TypeOK'
  BY DEF IInv, TypeOK
<1>4. QueueInv'
  BY DEF IInv, QueueInv, Waiting, Distinct
<1>5. CurrentInv' /\ EdgeInv'
  BY <1>1, <1>2 DEF IInv, CurrentInv, EdgeInv, HasBody
<1>6. CeilingInv'
  BY DEF IInv, CeilingInv
<1>7. ElidedInv'
  BY <1>1, <1>2 DEF IInv, ElidedInv, SomethingElided, NothingElided, HasBody
<1> QED BY <1>3, <1>4, <1>5, <1>6, <1>7 DEF IInv

LEMMA NextIInv == IInv /\ [Next]_vars => IInv'
<1> SUFFICES ASSUME IInv, [Next]_vars PROVE IInv'
  OBVIOUS
<1>1. CASE RootFails
  <2>1. DoneInv' /\ status' \in {"walking", "done", "raised"}
    BY <1>1 DEF RootFails, DoneInv
  <2> QED BY <2>1, <1>1, QuietStep DEF RootFails
<1>2. CASE Finish
  <2>1. DoneInv' /\ status' \in {"walking", "done", "raised"}
    BY <1>2 DEF Finish, DoneInv
  <2> QED BY <2>1, <1>2, QuietStep DEF Finish
<1>3. CASE UNCHANGED vars
  <2>1. DoneInv' /\ status' \in {"walking", "done", "raised"}
    BY <1>3 DEF IInv, DoneInv, TypeOK, vars
  <2> QED BY <2>1, <1>3, QuietStep DEF vars
<1>4. CASE Leaf
  BY <1>4, LeafStep
<1>5. CASE Frontier
  BY <1>5, FrontierStep
<1>6. CASE Expand
  BY <1>6, ExpandStep
<1>7. CASE DropCallee
  BY <1>7, DropStep
<1>8. CASE TakeCallee
  BY <1>8, TakeStep
<1> QED BY <1>1, <1>2, <1>3, <1>4, <1>5, <1>6, <1>7, <1>8 DEF Next

(* Every reachable state of every walk satisfies the invariant.            *)
THEOREM Invariance == Spec => []IInv
<1>1. Init => IInv
  BY InitIInv
<1>2. IInv /\ [Next]_vars => IInv'
  BY NextIInv
<1> QED BY <1>1, <1>2, PTL DEF Spec

(* Whatever the program and the bounds, the edges collected are calls      *)
(* between collected functions, and those are within the ceiling: this is  *)
(* what call_graph.py promises of max_nodes and of its edge pruning.       *)
THEOREM AlwaysConsistent == Spec => []Consistent
<1>1. IInv => Consistent
  <2> SUFFICES ASSUME IInv PROVE Consistent
    OBVIOUS
  <2>1. nodes \subseteq Targets /\ edges \subseteq Targets \X Targets
    BY DEF IInv, TypeOK
  <2>2. ASSUME NEW e \in edges PROVE e \in Calls \cap (nodes \X nodes)
    <3>1. PICK f \in Targets, t \in Targets : e = <<f, t>>
      BY <2>1
    <3>2. f \in nodes /\ t \in nodes /\ HasBody(f) /\ t \in Elems(callees[f])
      BY <3>1 DEF IInv, EdgeInv, Walked
    <3> QED BY <3>1, <3>2 DEF Calls
  <2> QED BY <2>2 DEF IInv, CeilingInv, Consistent
<1> QED BY <1>1, Invariance, PTL

(* Whatever the program and the bounds, a finished graph says that it is   *)
(* truncated exactly when a call of a collected function is missing, as    *)
(* call_graph.py:46-47 says of the flag.                                   *)
THEOREM TruncatedIsExact == Spec => []TruncatedIffPartial
<1>1. IInv => TruncatedIffPartial
  <2> SUFFICES ASSUME IInv, status = "done" PROVE truncated <=> edges # Calls
    BY DEF TruncatedIffPartial
  <2>1. rest = <<>> /\ queue = <<>> /\ nodes \subseteq Targets
        /\ edges \subseteq Targets \X Targets
    BY DEF IInv, DoneInv, TypeOK
  <2>2. Waiting(queue) = {} /\ Elems(rest) = {}
    BY <2>1 DEF Waiting, Elems
  <2>3. edges \subseteq Calls
    <3> SUFFICES ASSUME NEW e \in edges PROVE e \in Calls
      OBVIOUS
    <3>1. PICK f \in Targets, t \in Targets : e = <<f, t>>
      BY <2>1
    <3>2. f \in nodes /\ HasBody(f) /\ t \in Elems(callees[f])
      BY <3>1 DEF IInv, EdgeInv, Walked
    <3> QED BY <3>1, <3>2 DEF Calls
  <2>4. CASE truncated
    <3>1. PICK f \in Targets, t \in Targets :
             Walked(f) /\ HasBody(f) /\ t \in Elems(callees[f]) /\ <<f, t>> \notin edges
      BY <2>4 DEF IInv, ElidedInv, SomethingElided
    <3>2. <<f, t>> \in Calls
      BY <3>1 DEF Calls, Walked
    <3> QED BY <3>1, <3>2, <2>4
  <2>5. CASE ~ truncated
    <3>1. ASSUME NEW e \in Calls PROVE e \in edges
      <4>1. PICK f \in nodes, t \in Targets : e = <<f, t>>
        BY DEF Calls
      <4>2. Walked(f) /\ HasBody(f) /\ t \in Elems(callees[f]) /\ f \in Targets
        BY <4>1, <2>1, <2>2 DEF Walked, Calls
      <4> QED BY <4>1, <4>2, <2>2, <2>5 DEF IInv, ElidedInv, NothingElided
    <3> QED BY <3>1, <2>3, <2>5
  <2> QED BY <2>4, <2>5
<1> QED BY <1>1, Invariance, PTL

-----------------------------------------------------------------------------
(* Breadth first.  What can be reached in a number of calls.               *)

LEMMA WithinZero == Root \in Targets => Within(0) = {Root}
<1> SUFFICES ASSUME Root \in Targets PROVE Within(0) = {Root}
  OBVIOUS
<1>1. ASSUME NEW f \in Within(0) PROVE f = Root
  BY DEF Within, Ways
<1>2. Root \in Within(0)
  <2> DEFINE w == [i \in 0 .. 0 |-> Root]
  <2>1. w \in Ways(0) /\ w[0] = Root
    BY DEF Ways
  <2> QED BY <2>1 DEF Within
<1> QED BY <1>1, <1>2

(* From what a way of n steps reaches, m - n pauses and a call lead on.    *)
LEMMA WithinGrows ==
    ASSUME NEW n \in Nat, NEW m \in Nat, n <= m
    PROVE  Within(n) \subseteq Within(m)
<1> SUFFICES ASSUME NEW f \in Within(n) PROVE f \in Within(m)
  OBVIOUS
<1>1. PICK w \in Ways(n) : f = w[n]
  BY DEF Within
<1> DEFINE v == [i \in 0 .. m |-> IF i <= n THEN w[i] ELSE w[n]]
<1>2. /\ w \in [0 .. n -> Targets] /\ w[0] = Root
      /\ \A i \in 1 .. n : w[i] = w[i - 1] \/ w[i] \in Elems(SafeCallees(w[i - 1]))
  BY DEF Ways
<1>3. v \in [0 .. m -> Targets] /\ v[0] = Root /\ v[m] = w[n]
  BY <1>2
<1>4. ASSUME NEW i \in 1 .. m
      PROVE  v[i] = v[i - 1] \/ v[i] \in Elems(SafeCallees(v[i - 1]))
  <2>1. CASE i <= n
    <3>1. i \in 1 .. n /\ v[i] = w[i] /\ v[i - 1] = w[i - 1]
      BY <2>1
    <3> QED BY <1>2, <3>1
  <2>2. CASE ~ (i <= n)
    <3>1. v[i] = w[n] /\ v[i - 1] = w[n]
      BY <2>2
    <3> QED BY <3>1
  <2> QED BY <2>1, <2>2
<1>5. v \in Ways(m)
  BY <1>3, <1>4 DEF Ways
<1> QED BY <1>1, <1>3, <1>5 DEF Within

LEMMA WithinAfter ==
    ASSUME NEW n \in Nat, NEW f \in Within(n), NEW t \in Targets,
           t \in Elems(SafeCallees(f))
    PROVE  t \in Within(n + 1)
<1>1. PICK w \in Ways(n) : f = w[n]
  BY DEF Within
<1> DEFINE v == [i \in 0 .. n + 1 |-> IF i <= n THEN w[i] ELSE t]
<1>2. /\ w \in [0 .. n -> Targets] /\ w[0] = Root
      /\ \A i \in 1 .. n : w[i] = w[i - 1] \/ w[i] \in Elems(SafeCallees(w[i - 1]))
  BY DEF Ways
<1>3. v \in [0 .. n + 1 -> Targets] /\ v[0] = Root /\ v[n + 1] = t
  BY <1>2
<1>4. ASSUME NEW i \in 1 .. n + 1
      PROVE  v[i] = v[i - 1] \/ v[i] \in Elems(SafeCallees(v[i - 1]))
  <2>1. CASE i <= n
    <3>1. i \in 1 .. n /\ v[i] = w[i] /\ v[i - 1] = w[i - 1]
      BY <2>1
    <3> QED BY <1>2, <3>1
  <2>2. CASE i = n + 1
    <3>1. v[i] = t /\ v[i - 1] = w[n]
      BY <2>2
    <3> QED BY <1>1, <3>1
  <2> QED BY <2>1, <2>2
<1>5. v \in Ways(n + 1)
  BY <1>3, <1>4 DEF Ways
<1> QED BY <1>3, <1>5 DEF Within

LEMMA WithinBefore ==
    ASSUME NEW n \in Nat, NEW t \in Within(n + 1)
    PROVE  t \in Targets /\ \E f \in Within(n) : t = f \/ t \in Elems(SafeCallees(f))
<1>1. PICK w \in Ways(n + 1) : t = w[n + 1]
  BY DEF Within
<1> DEFINE v == [i \in 0 .. n |-> w[i]]
<1>2. /\ w \in [0 .. n + 1 -> Targets] /\ w[0] = Root
      /\ \A i \in 1 .. n + 1 : w[i] = w[i - 1] \/ w[i] \in Elems(SafeCallees(w[i - 1]))
  BY DEF Ways
<1>3. v \in [0 .. n -> Targets] /\ v[0] = Root
  BY <1>2
<1>4. ASSUME NEW i \in 1 .. n
      PROVE  v[i] = v[i - 1] \/ v[i] \in Elems(SafeCallees(v[i - 1]))
  <2>1. i \in 1 .. n + 1 /\ v[i] = w[i] /\ v[i - 1] = w[i - 1]
    OBVIOUS
  <2> QED BY <1>2, <2>1
<1>5. v \in Ways(n) /\ v[n] = w[n]
  BY <1>3, <1>4 DEF Ways
<1>6. w[n] \in Within(n)
  BY <1>5 DEF Within
<1>7. n + 1 \in 1 .. n + 1 /\ (n + 1) - 1 = n
  OBVIOUS
<1>8. w[n + 1] = w[n] \/ w[n + 1] \in Elems(SafeCallees(w[n]))
  BY <1>2, <1>7
<1> QED BY <1>1, <1>2, <1>6, <1>8

LEMMA WithinIsTargets == ASSUME NEW n \in Nat PROVE Within(n) \subseteq Targets
BY DEF Within, Ways

(* They are finitely many: else there is a least number of calls in which  *)
(* infinitely many could be reached.                                       *)
LEMMA CalleesAreFinite ==
    ASSUME TypeOK, NEW f \in Targets
    PROVE  Elems(SafeCallees(f)) \subseteq Targets /\ IsFiniteSet(Elems(SafeCallees(f)))
<1>1. PICK s \in Seq(Targets) : s = SafeCallees(f)
  <2>1. HasBody(f) => callees[f] \in Lists
    BY DEF TypeOK, HasBody
  <2>2. <<>> \in Seq(Targets)
    OBVIOUS
  <2> QED BY <2>1, <2>2, CallGraphAssumption DEF SafeCallees
<1>2. s \in Surjection(1 .. Len(s), Elems(s)) /\ IsFiniteSet(1 .. Len(s))
  <2>1. Len(s) \in Nat /\ DOMAIN s = 1 .. Len(s)
    OBVIOUS
  <2>2. IsFiniteSet(1 .. Len(s))
    BY <2>1, FS_Interval
  <2>3. s \in [1 .. Len(s) -> Elems(s)]
    BY <2>1 DEF Elems
  <2> QED BY <2>1, <2>2, <2>3 DEF Surjection, Elems
<1>3. IsFiniteSet(Elems(s))
  BY <1>2, FS_Surjection
<1>4. Elems(s) \subseteq Targets
  BY DEF Elems
<1> QED BY <1>1, <1>3, <1>4

LEMMA FiniteNext ==
    ASSUME TypeOK, NEW n \in Nat, IsFiniteSet(Within(n))
    PROVE  IsFiniteSet(Within(n + 1))
<1> DEFINE W == Within(n)
           c == [f \in W |-> Elems(SafeCallees(f))]
           S == {c[f] : f \in W}
<1>1. W \subseteq Targets
  BY WithinIsTargets
<1>2. IsFiniteSet(S)
  <2>1. c \in Surjection(W, S)
    BY DEF Surjection
  <2> QED BY <2>1, FS_Surjection
<1>3. \A T \in S : IsFiniteSet(T)
  BY <1>1, CalleesAreFinite
<1>4. IsFiniteSet(W \cup UNION S)
  <2>1. IsFiniteSet(UNION S)
    BY <1>2, <1>3, FS_UNION
  <2> QED BY <2>1, FS_Union
<1>5. Within(n + 1) \subseteq W \cup UNION S
  BY WithinBefore
<1> QED BY <1>4, <1>5, FS_Subset

LEMMA WithinIsFinite == ASSUME TypeOK, NEW n \in Nat PROVE IsFiniteSet(Within(n))
<1> DEFINE Bad == {m \in Nat : ~ IsFiniteSet(Within(m))}
<1> SUFFICES ASSUME Bad # {} PROVE FALSE
  OBVIOUS
<1>1. PICK m \in Bad : \A j \in Bad : ~ (<<j, m>> \in OpToRel(<, Nat))
  BY NatLessThanWellFounded, WFMin
<1>2. m # 0
  <2>1. IsFiniteSet({Root})
    BY FS_Singleton
  <2> QED BY <2>1, WithinZero, CallGraphAssumption
<1>3. m - 1 \in Nat /\ m - 1 < m /\ (m - 1) + 1 = m
  BY <1>2
<1>4. m - 1 \notin Bad
  BY <1>1, <1>3 DEF OpToRel
<1>5. IsFiniteSet(Within((m - 1) + 1))
  BY <1>3, <1>4, FiniteNext
<1> QED BY <1>3, <1>5

-----------------------------------------------------------------------------
(* The layers.  If there is room for all that is within the depth, ...     *)
Roomy == Cardinality(Within(Layers)) <= maxNodes

(* ... a function waits at the level that is its distance, ...             *)
Placed(e) ==
    /\ e[2] <= Layers /\ e[1] \in Within(e[2])
    /\ e[2] > 0 => e[1] \notin Within(e[2] - 1)

(* ... the nearer ones before the farther, of the current layer and the    *)
(* next, ...                                                               *)
Sorted(q, d) == \A j, k \in DOMAIN q :
    q[k][2] \in {d, d + 1} /\ (j < k => q[j][2] <= q[k][2])

(* ... when the current layer has been collected and the ones before it    *)
(* are expanded.                                                           *)
Expanded == \A f \in Targets, t \in Targets :
    (/\ Walked(f) /\ HasBody(f) /\ t \in Elems(callees[f])
     /\ Layers > 0 /\ f \in Within(Layers - 1))
        => <<f, t>> \in edges \/ (f = current[1] /\ t \in Elems(rest))

LayersInv ==
    /\ nodes \subseteq Within(Layers) /\ Within(current[2]) \subseteq nodes
    /\ Sorted(queue, current[2]) /\ \A k \in DOMAIN queue : Placed(queue[k])
    /\ rest # <<>> => current[1] \in Within(current[2]) /\ current[2] < Layers
    /\ \A f, t \in Targets : <<f, t>> \in edges => Layers > 0 /\ f \in Within(Layers - 1)
    /\ Expanded

WholeInv == Roomy => LayersInv

LEMMA LayersType == TypeOK => Layers \in Nat
BY CallGraphAssumption DEF TypeOK, Layers

LEMMA InitWhole == Init => WholeInv
<1> SUFFICES ASSUME Init PROVE LayersInv
  BY DEF WholeInv
<1>1. Root \in Targets /\ Within(0) = {Root}
  BY WithinZero, CallGraphAssumption
<1>2. Layers \in Nat
  BY InitIInv, LayersType DEF IInv
<1>3. nodes \subseteq Within(Layers)
  BY <1>1, <1>2, WithinGrows DEF Init
<1>4. Sorted(queue, current[2]) /\ \A k \in DOMAIN queue : Placed(queue[k])
  BY <1>1, <1>2 DEF Init, Sorted, Placed
<1>5. \A f : ~ Walked(f)
  BY DEF Init, Walked, Waiting
<1> QED BY <1>1, <1>3, <1>4, <1>5 DEF Init, LayersInv, Expanded

(* The request, and what depends on nothing else, never changes.           *)
LEMMA RequestStays ==
    ASSUME [Next]_vars
    PROVE  /\ UNCHANGED <<callees, depth, maxNodes, Layers, Roomy>>
           /\ \A n : Within(n)' = Within(n)
           /\ Within(Layers)' = Within(Layers) /\ Within(Layers - 1)' = Within(Layers - 1)
           /\ \A f : HasBody(f)' = HasBody(f) /\ Elems(callees[f])' = Elems(callees[f])
           /\ \A e : Placed(e)' <=> Placed(e)
<1>1. UNCHANGED <<callees, depth, maxNodes>>
  BY DEF Next, RootFails, Leaf, Frontier, Expand, DropCallee, TakeCallee, Finish, vars
<1>2. Layers' = Layers
  BY <1>1 DEF Layers
<1>3. ASSUME NEW n PROVE Within(n)' = Within(n)
  BY <1>1 DEF Within, Ways, SafeCallees, HasBody, Elems
<1>4. Within(Layers)' = Within(Layers) /\ Within(Layers - 1)' = Within(Layers - 1)
  BY <1>1, <1>2 DEF Within, Ways, SafeCallees, HasBody, Elems
<1>5. Roomy' = Roomy
  BY <1>1, <1>4 DEF Roomy
<1>6. ASSUME NEW e PROVE Placed(e)' <=> Placed(e)
  BY <1>2, <1>3 DEF Placed
<1>7. ASSUME NEW f PROVE HasBody(f)' = HasBody(f) /\ Elems(callees[f])' = Elems(callees[f])
  BY <1>1 DEF HasBody, Elems
<1> QED BY <1>1, <1>2, <1>3, <1>4, <1>5, <1>6, <1>7

(* The callees of a function that is not at the last layer are within it.  *)
LEMMA CalleesAreNear ==
    ASSUME IInv, NEW f \in Targets, NEW t \in Targets, HasBody(f), t \in Elems(callees[f]),
           NEW n \in Nat, f \in Within(n), n < Layers
    PROVE  /\ t \in Within(n + 1) /\ t \in Within(Layers)
           /\ Layers > 0 /\ f \in Within(Layers - 1)
<1>1. Layers \in Nat /\ n + 1 \in Nat /\ n + 1 <= Layers /\ Layers - 1 \in Nat /\ n <= Layers - 1
  BY LayersType DEF IInv
<1>2. t \in Within(n + 1)
  BY WithinAfter DEF SafeCallees
<1> QED BY <1>1, <1>2, WithinGrows

(* The queue after its first was taken off.                                *)
LEMMA TailIsSorted ==
    ASSUME NEW q \in Seq(Entries), q # <<>>, NEW d \in Nat, Sorted(q, d),
           \A k \in DOMAIN q : Placed(q[k])
    PROVE  /\ Sorted(Tail(q), d) /\ Sorted(Tail(q), Head(q)[2])
           /\ Head(q)[2] \in {d, d + 1} /\ Placed(Head(q))
           /\ \A k \in DOMAIN q : Head(q)[2] <= q[k][2]
           /\ \A k \in DOMAIN Tail(q) : Placed(Tail(q)[k])
<1>1. /\ \A k \in DOMAIN Tail(q) : k + 1 \in DOMAIN q /\ Tail(q)[k] = q[k + 1]
      /\ 1 \in DOMAIN q /\ Head(q) = q[1] /\ DOMAIN q \subseteq Nat \ {0}
      /\ DOMAIN Tail(q) \subseteq Nat \ {0}
  OBVIOUS
<1>2. Head(q)[2] \in {d, d + 1} /\ Placed(Head(q))
  BY <1>1 DEF Sorted
<1>3. \A k \in DOMAIN q : Head(q)[2] <= q[k][2]
  <2> SUFFICES ASSUME NEW k \in DOMAIN q PROVE Head(q)[2] <= q[k][2]
    OBVIOUS
  <2>1. k = 1 \/ 1 < k
    BY <1>1
  <2>2. 1 < k => q[1][2] <= q[k][2]
    BY <1>1 DEF Sorted
  <2> QED BY <1>1, <1>2, <2>1, <2>2
<1>4. Sorted(Tail(q), d)
  <2> SUFFICES ASSUME NEW j \in DOMAIN Tail(q), NEW k \in DOMAIN Tail(q)
               PROVE  Tail(q)[k][2] \in {d, d + 1} /\ (j < k => Tail(q)[j][2] <= Tail(q)[k][2])
    BY DEF Sorted
  <2>1. j + 1 \in DOMAIN q /\ k + 1 \in DOMAIN q /\ (j < k => j + 1 < k + 1)
        /\ Tail(q)[j] = q[j + 1] /\ Tail(q)[k] = q[k + 1]
    BY <1>1
  <2>2. q[k + 1][2] \in {d, d + 1} /\ (j + 1 < k + 1 => q[j + 1][2] <= q[k + 1][2])
    BY <2>1 DEF Sorted
  <2> QED BY <2>1, <2>2
<1>5. Sorted(Tail(q), Head(q)[2])
  <2> SUFFICES ASSUME NEW k \in DOMAIN Tail(q)
               PROVE  Tail(q)[k][2] \in {Head(q)[2], Head(q)[2] + 1}
    BY <1>4 DEF Sorted
  <2>1. Tail(q)[k][2] \in {d, d + 1}
    BY <1>4 DEF Sorted
  <2>2. Head(q)[2] <= Tail(q)[k][2]
    BY <1>1, <1>3
  <2> QED BY <1>2, <2>1, <2>2
<1>6. \A k \in DOMAIN Tail(q) : Placed(Tail(q)[k])
  BY <1>1
<1> QED BY <1>2, <1>3, <1>4, <1>5, <1>6

(* A leaf, or a function at the depth bound, is not to be expanded.        *)
LEMMA PassedOver ==
    ASSUME IInv, LayersInv, [Next]_vars, Leaf \/ Frontier
    PROVE  LayersInv'
<1>1. Popping /\ queue' = Tail(queue) /\ UNCHANGED <<nodes, edges, current, rest>>
  BY DEF Leaf, Frontier
<1>2. /\ queue \in Seq(Entries) /\ queue # <<>> /\ current[2] \in Nat /\ Front \in nodes
      /\ Head(queue) \in Entries
      /\ Waiting(Tail(queue)) = Waiting(queue) \ {Front}
  BY <1>1, PopFacts DEF Popping, IInv, TypeOK
<1>3. Sorted(queue, current[2]) /\ \A k \in DOMAIN queue : Placed(queue[k])
  BY DEF LayersInv
<1>4. /\ Sorted(Tail(queue), current[2]) /\ Placed(Head(queue))
      /\ \A k \in DOMAIN Tail(queue) : Placed(Tail(queue)[k])
  BY <1>2, <1>3, TailIsSorted
<1>5. Sorted(queue, current[2])' /\ (\A k \in DOMAIN queue : Placed(queue[k]))'
  BY <1>1, <1>4, RequestStays DEF Sorted
<1>6. \A f : Walked(f)' <=> Walked(f) \/ f = Front
  BY <1>1, <1>2 DEF Walked, Waiting
<1>7. HasBody(Front) => ~ (Layers > 0 /\ Front \in Within(Layers - 1))
  <2> SUFFICES ASSUME HasBody(Front), Layers > 0 PROVE Front \notin Within(Layers - 1)
    OBVIOUS
  <2>1. Level >= Layers
    BY DEF Leaf, Frontier, AtBound
  <2>2. Level <= Layers /\ (Level > 0 => Front \notin Within(Level - 1))
    BY <1>4 DEF Placed, Front, Level
  <2>3. Level \in Nat /\ Layers \in Nat
    BY <1>2, LayersType DEF Level, Entries, IInv
  <2>4. Level = Layers
    BY <2>1, <2>2, <2>3
  <2> QED BY <2>2, <2>4
<1>8. Expanded'
  BY <1>1, <1>6, <1>7, RequestStays DEF LayersInv, Expanded, Elems
<1> QED BY <1>1, <1>5, <1>8, RequestStays DEF LayersInv

(* When the first of the next layer comes up, the current one is done.     *)
LEMMA LayerIsComplete ==
    ASSUME IInv, LayersInv, Popping, Level < Layers
    PROVE  Within(Level) \subseteq nodes
<1> DEFINE d == current[2]
<1>1. /\ queue \in Seq(Entries) /\ queue # <<>> /\ d \in Nat /\ rest = <<>>
      /\ Sorted(queue, d) /\ \A k \in DOMAIN queue : Placed(queue[k])
      /\ Within(d) \subseteq nodes /\ nodes \subseteq Targets
  BY PopFacts DEF Popping, IInv, TypeOK, LayersInv
<1>2. Level \in {d, d + 1} /\ \A k \in DOMAIN queue : Level <= queue[k][2]
  BY <1>1, TailIsSorted DEF Level
<1>3. CASE Level = d
  BY <1>1, <1>3
<1>4. CASE Level = d + 1
  <2> SUFFICES ASSUME NEW t \in Within(d + 1) PROVE t \in nodes
    BY <1>4
  <2>1. t \in Targets
    BY <1>1, WithinBefore
  <2>2. PICK f \in Within(d) : t = f \/ t \in Elems(SafeCallees(f))
    BY <1>1, WithinBefore
  <2>3. CASE t = f
    BY <1>1, <2>3
  <2>4. CASE t \in Elems(SafeCallees(f))
    <3>1. HasBody(f) /\ t \in Elems(callees[f]) /\ f \in nodes /\ f \in Targets
      BY <1>1, <2>4 DEF SafeCallees, Elems
    <3>2. f \notin Waiting(queue)
      <4> SUFFICES ASSUME NEW k \in DOMAIN queue, f = queue[k][1] PROVE FALSE
        BY DEF Waiting
      <4>1. queue[k][2] \in {d, d + 1} /\ Level <= queue[k][2] /\ Placed(queue[k])
        BY <1>1, <1>2 DEF Sorted
      <4>2. queue[k][2] = d + 1
        BY <1>1, <1>4, <4>1
      <4> QED BY <1>1, <4>1, <4>2 DEF Placed
    <3>3. d < Layers
      BY <1>1, <1>4, LayersType DEF IInv
    <3>4. Layers > 0 /\ f \in Within(Layers - 1)
      BY <1>1, <2>1, <3>1, <3>3, CalleesAreNear
    <3>5. <<f, t>> \in edges
      BY <1>1, <2>1, <3>1, <3>2, <3>4 DEF LayersInv, Expanded, Walked, Elems
    <3> QED BY <2>1, <3>1, <3>5 DEF IInv, EdgeInv
  <2> QED BY <2>2, <2>3, <2>4
<1> QED BY <1>2, <1>3, <1>4

LEMMA ExpandLayers ==
    ASSUME IInv, LayersInv, [Next]_vars, Expand
    PROVE  LayersInv'
<1>1. /\ Popping /\ rest = <<>> /\ queue' = Tail(queue) /\ UNCHANGED <<nodes, edges>>
      /\ current' = Head(queue) /\ rest' = callees[Front] /\ ~ (Level >= Layers)
  BY DEF Expand, AtBound, Popping
<1>2. /\ queue \in Seq(Entries) /\ queue # <<>> /\ current[2] \in Nat /\ Front \in nodes
      /\ Level \in Nat /\ Layers \in Nat
      /\ Waiting(Tail(queue)) = Waiting(queue) \ {Front}
  BY <1>1, PopFacts, LayersType DEF Popping, IInv, TypeOK
<1>3. Sorted(queue, current[2]) /\ \A k \in DOMAIN queue : Placed(queue[k])
  BY DEF LayersInv
<1>4. /\ Sorted(Tail(queue), Level) /\ Placed(Head(queue))
      /\ \A k \in DOMAIN Tail(queue) : Placed(Tail(queue)[k])
  BY <1>2, <1>3, TailIsSorted DEF Level
<1>5. current'[1] = Front /\ current'[2] = Level /\ Level < Layers
  BY <1>1, <1>2 DEF Front, Level
<1>6. Sorted(queue, current[2])' /\ (\A k \in DOMAIN queue : Placed(queue[k]))'
  BY <1>1, <1>4, <1>5, RequestStays DEF Sorted
<1>7. \A f : Walked(f)' <=> Walked(f) \/ f = Front
  BY <1>1, <1>2 DEF Walked, Waiting
<1>8. Within(current'[2]) \subseteq nodes' /\ current'[1] \in Within(current'[2])
  BY <1>1, <1>4, <1>5, LayerIsComplete DEF Placed, Front, Level
<1>9. Expanded'
  <2>1. Elems(rest') = Elems(callees[Front]) /\ Elems(rest) = {}
    BY <1>1 DEF Elems
  <2>2. Elems(rest)' = Elems(rest')
    BY DEF Elems
  <2> QED BY <1>1, <1>5, <1>7, <2>1, <2>2, RequestStays DEF LayersInv, Expanded
<1>10. Within(current[2])' = Within(current'[2])
  BY RequestStays DEF Within, Ways, SafeCallees, HasBody, Elems
<1> QED BY <1>1, <1>5, <1>6, <1>8, <1>9, <1>10, RequestStays DEF LayersInv

(* While there is room no callee is dropped.                               *)
LEMMA NothingIsDropped == IInv /\ LayersInv /\ Roomy => ~ DropCallee
<1> SUFFICES ASSUME IInv, LayersInv, Roomy, DropCallee PROVE FALSE
  OBVIOUS
<1>1. rest \in Seq(Targets) /\ rest # <<>> /\ current[1] \in Targets /\ current[2] \in Nat
  BY DEF IInv, TypeOK, DropCallee
<1>2. PICK t \in Targets : t = Head(rest)
  BY <1>1, TailOfList
<1>3. t \in Elems(callees[current[1]]) /\ HasBody(current[1])
  BY <1>1, <1>2, TailOfList DEF IInv, CurrentInv
<1>4. t \in Within(Layers)
  BY <1>1, <1>3, CalleesAreNear DEF LayersInv
<1>5. t \notin nodes /\ Cardinality(nodes) >= maxNodes /\ IsFiniteSet(nodes)
  BY <1>2 DEF DropCallee, OverCeiling, IInv, CeilingInv
<1>6. Cardinality(nodes \cup {t}) = Cardinality(nodes) + 1 /\ Cardinality(nodes) \in Nat
  BY <1>5, FS_AddElement, FS_CardinalityType
<1>7. nodes \cup {t} \subseteq Within(Layers) /\ IsFiniteSet(Within(Layers))
  BY <1>4, LayersType, WithinIsFinite DEF IInv, LayersInv
<1>8. Cardinality(nodes \cup {t}) <= Cardinality(Within(Layers)) /\ Cardinality(Within(Layers)) \in Nat
  BY <1>7, FS_Subset, FS_CardinalityType
<1>9. maxNodes \in Nat
  BY CallGraphAssumption DEF IInv, TypeOK
<1> QED BY <1>5, <1>6, <1>8, <1>9 DEF Roomy

LEMMA AppendIsSorted ==
    ASSUME NEW q \in Seq(Entries), NEW d \in Nat, Sorted(q, d), NEW e \in Entries, e[2] = d + 1,
           \A k \in DOMAIN q : Placed(q[k]), Placed(e)
    PROVE  Sorted(Append(q, e), d) /\ \A k \in DOMAIN Append(q, e) : Placed(Append(q, e)[k])
<1> DEFINE a == Append(q, e)
<1>1. /\ \A k \in DOMAIN a : k \in Nat /\ (k \in DOMAIN q \/ k = Len(q) + 1)
      /\ \A k \in DOMAIN q : a[k] = q[k] /\ k <= Len(q)
      /\ a[Len(q) + 1] = e /\ Len(q) \in Nat
  OBVIOUS
<1> HIDE DEF a
<1>2. Sorted(a, d)
  <2> SUFFICES ASSUME NEW j \in DOMAIN a, NEW k \in DOMAIN a
               PROVE  a[k][2] \in {d, d + 1} /\ (j < k => a[j][2] <= a[k][2])
    BY DEF Sorted
  <2>1. \A i \in DOMAIN a : a[i][2] \in {d, d + 1}
    BY <1>1 DEF Sorted
  <2>2. CASE k \in DOMAIN q
    <3>1. j < k => j \in DOMAIN q
      BY <1>1, <2>2
    <3> QED BY <1>1, <2>1, <2>2, <3>1 DEF Sorted
  <2>3. CASE k = Len(q) + 1
    BY <1>1, <2>1, <2>3
  <2> QED BY <1>1, <2>2, <2>3
<1>3. \A k \in DOMAIN a : Placed(a[k])
  BY <1>1
<1> QED BY <1>2, <1>3 DEF a

LEMMA TakeLayers ==
    ASSUME IInv, LayersInv, [Next]_vars, TakeCallee
    PROVE  LayersInv'
<1> DEFINE d == current[2]
<1>1. rest \in Seq(Targets) /\ rest # <<>> /\ d \in Nat /\ Layers \in Nat
  BY LayersType DEF IInv, TypeOK, TakeCallee
<1>2. PICK t \in Targets : t = Head(rest)
  BY <1>1, TailOfList
<1>0. <<t, d + 1>> \in Entries
  <2>1. d + 1 \in Nat
    BY <1>1
  <2> HIDE DEF d
  <2> QED BY <2>1 DEF Entries
<1>3. PICK g \in Targets : g = current[1]
  BY DEF IInv, TypeOK
<1>4. Elems(rest) = Elems(Tail(rest)) \cup {t}
  BY <1>1, <1>2, TailOfList
<1>5. /\ nodes' = nodes \cup {t} /\ edges' = edges \cup {<<g, t>>} /\ rest' = Tail(rest)
      /\ queue' = IF t \in nodes THEN queue ELSE Append(queue, <<t, d + 1>>)
      /\ UNCHANGED current
  BY <1>2, <1>3 DEF TakeCallee, IInv, QueueInv
<1>6. HasBody(g) /\ t \in Elems(callees[g]) /\ g \in nodes /\ Waiting(queue) \subseteq nodes
  BY <1>1, <1>3, <1>4 DEF IInv, CurrentInv, Walked, QueueInv
<1>7. g \in Within(d) /\ d < Layers
  BY <1>1, <1>3 DEF LayersInv
<1>8. t \in Within(d + 1) /\ t \in Within(Layers) /\ Layers > 0 /\ g \in Within(Layers - 1)
  BY <1>1, <1>6, <1>7, CalleesAreNear
<1>9. /\ queue \in Seq(Entries) /\ Sorted(queue, d) /\ Within(d) \subseteq nodes
      /\ \A k \in DOMAIN queue : Placed(queue[k])
  BY DEF IInv, TypeOK, Entries, LayersInv
<1>10. Sorted(queue', d) /\ \A k \in DOMAIN queue' : Placed(queue'[k])
  <2>1. CASE t \in nodes
    BY <1>5, <1>9, <2>1
  <2>2. CASE t \notin nodes
    <3>1. PICK e \in Entries : e = <<t, d + 1>>
      BY <1>0
    <3>2. e[1] = t /\ e[2] = d + 1
      BY <3>1
    <3>3. (d + 1) - 1 = d /\ d + 1 <= Layers
      BY <1>1, <1>7
    <3>4. Placed(e)
      BY <1>8, <1>9, <2>2, <3>2, <3>3 DEF Placed
    <3> QED BY <1>1, <1>5, <1>9, <2>2, <3>1, <3>2, <3>4, AppendIsSorted
  <2> QED BY <2>1, <2>2
<1>11. Sorted(queue, current[2])' /\ (\A k \in DOMAIN queue : Placed(queue[k]))'
  BY <1>5, <1>10, RequestStays DEF Sorted
<1>12. \A f : Walked(f)' => Walked(f)
  <2>1. ASSUME t \notin nodes PROVE t \in Waiting(queue') /\ Waiting(queue) \subseteq Waiting(queue')
    <3>1. PICK e \in Entries : e = <<t, d + 1>>
      BY <1>0
    <3>2. e[1] \notin Waiting(queue) /\ Distinct(queue) /\ queue' = Append(queue, e)
      BY <1>5, <1>6, <2>1, <3>1 DEF IInv, QueueInv
    <3> QED BY <1>9, <3>1, <3>2, AppendToQueue
  <2>2. \A f : f \in Waiting(queue)' <=> f \in Waiting(queue')
    BY DEF Waiting
  <2> QED BY <1>5, <2>1, <2>2 DEF Walked
<1>13. Expanded'
  <2> SUFFICES ASSUME NEW f \in Targets, NEW u \in Targets, Walked(f)', HasBody(f),
                      u \in Elems(callees[f]), Layers > 0, f \in Within(Layers - 1)
               PROVE  (<<f, u>> \in edges \/ (f = current[1] /\ u \in Elems(rest)))'
    BY RequestStays DEF Expanded
  <2>1. <<f, u>> \in edges \/ (f = g /\ u \in Elems(rest))
    BY <1>3, <1>12 DEF LayersInv, Expanded
  <2>2. Elems(rest)' = Elems(Tail(rest))
    BY <1>5 DEF Elems
  <2> QED BY <1>3, <1>4, <1>5, <2>1, <2>2
<1>14. /\ rest' # <<>> => current'[1] \in Within(current'[2]) /\ current'[2] < Layers
       /\ Within(current'[2]) \subseteq nodes' /\ nodes' \subseteq Within(Layers)
  BY <1>3, <1>5, <1>7, <1>8, <1>9 DEF LayersInv
<1>15. \A f, u \in Targets : <<f, u>> \in edges' => Layers > 0 /\ f \in Within(Layers - 1)
  BY <1>5, <1>8 DEF LayersInv
<1>16. Within(current[2])' = Within(current'[2])
  BY RequestStays DEF Within, Ways, SafeCallees, HasBody, Elems
<1> QED BY <1>11, <1>13, <1>14, <1>15, <1>16, RequestStays DEF LayersInv

LEMMA QuietLayers ==
    ASSUME LayersInv, [Next]_vars, UNCHANGED <<nodes, edges, queue, current, rest>>
    PROVE  LayersInv'
<1>1. \A f : Walked(f)' <=> Walked(f)
  BY DEF Walked, Waiting
<1>2. Sorted(queue, current[2])' <=> Sorted(queue, current[2])
  BY DEF Sorted
<1>3. (\A k \in DOMAIN queue : Placed(queue[k]))'
  BY RequestStays DEF LayersInv
<1>4. Expanded'
  BY <1>1, RequestStays DEF LayersInv, Expanded, Elems
<1>5. Within(current[2])' = Within(current[2])
  <2>1. UNCHANGED <<callees, current>>
    BY RequestStays
  <2> QED BY <2>1 DEF Within, Ways, SafeCallees, HasBody, Elems
<1>6. nodes' \subseteq Within(Layers) /\ Within(current'[2]) \subseteq nodes'
  BY DEF LayersInv
<1>7. /\ rest' # <<>> => current'[1] \in Within(current'[2]) /\ current'[2] < Layers
      /\ \A f, t \in Targets : <<f, t>> \in edges' => Layers > 0 /\ f \in Within(Layers - 1)
      /\ Sorted(queue, current[2])
  BY DEF LayersInv
<1> QED BY <1>2, <1>3, <1>4, <1>5, <1>6, <1>7, RequestStays DEF LayersInv

LEMMA NextWhole == IInv /\ WholeInv /\ [Next]_vars => WholeInv'
<1> SUFFICES ASSUME IInv, Roomy, LayersInv, [Next]_vars PROVE LayersInv'
  BY RequestStays DEF WholeInv
<1>1. CASE Leaf \/ Frontier
  BY <1>1, PassedOver
<1>2. CASE Expand
  BY <1>2, ExpandLayers
<1>3. CASE DropCallee
  BY <1>3, NothingIsDropped
<1>4. CASE TakeCallee
  BY <1>4, TakeLayers
<1>5. CASE RootFails \/ Finish \/ UNCHANGED vars
  BY <1>5, QuietLayers DEF RootFails, Finish, vars
<1> QED BY <1>1, <1>2, <1>3, <1>4, <1>5 DEF Next

(* At the end every layer has been collected.                              *)
LEMMA LayersAreNodes ==
    ASSUME IInv, LayersInv, rest = <<>>, queue = <<>>
    PROVE  Within(Layers) \subseteq nodes
<1> DEFINE Bad == {m \in Nat : m <= Layers /\ ~ (Within(m) \subseteq nodes)}
<1>1. Layers \in Nat /\ Root \in nodes /\ Root \in Targets /\ nodes \subseteq Targets
  BY LayersType, CallGraphAssumption DEF IInv, QueueInv, TypeOK
<1> SUFFICES ASSUME Bad # {} PROVE FALSE
  BY <1>1
<1>2. PICK m \in Bad : \A j \in Bad : ~ (<<j, m>> \in OpToRel(<, Nat))
  BY NatLessThanWellFounded, WFMin
<1>3. m # 0
  BY <1>1, WithinZero
<1>4. m - 1 \in Nat /\ m - 1 < m /\ (m - 1) + 1 = m /\ m - 1 < Layers
  BY <1>1, <1>3
<1>5. m - 1 \notin Bad
  BY <1>2, <1>4 DEF OpToRel
<1>6. Within(m - 1) \subseteq nodes
  BY <1>1, <1>4, <1>5
<1>7. PICK t \in Within((m - 1) + 1) : t \notin nodes
  BY <1>4
<1>8. t \in Targets /\ \E f \in Within(m - 1) : t = f \/ t \in Elems(SafeCallees(f))
  BY <1>4, <1>7, WithinBefore
<1>9. PICK f \in Within(m - 1) : t \in Elems(SafeCallees(f))
  BY <1>6, <1>7, <1>8
<1>10. HasBody(f) /\ t \in Elems(callees[f]) /\ f \in Targets
  BY <1>1, <1>6, <1>9 DEF SafeCallees, Elems
<1>11. Walked(f)
  BY <1>6 DEF Walked, Waiting
<1>12. Layers > 0 /\ f \in Within(Layers - 1)
  BY <1>4, <1>8, <1>10, CalleesAreNear
<1>13. <<f, t>> \in edges
  BY <1>8, <1>10, <1>11, <1>12 DEF LayersInv, Expanded, Elems
<1> QED BY <1>7, <1>8, <1>10, <1>13 DEF IInv, EdgeInv

(* Whatever the program and the bounds: if the ceiling leaves room for     *)
(* them, a finished graph has exactly the functions within depth calls, by *)
(* the shortest way, and the calls of those nearer, as call_graph.py walks *)
(* the callees layer by layer; and every external call of a component that *)
(* is not truncated goes to something that is no function.                 *)
THEOREM FinishedGraphIsWhole == Spec => []GraphIsWhole
<1>1. IInv /\ WholeInv => ShortestWay
  <2> SUFFICES ASSUME IInv, LayersInv, status = "done"
               PROVE  /\ nodes = Within(Layers)
                      /\ edges = {e \in Calls : Layers > 0 /\ e[1] \in Within(Layers - 1)}
    BY DEF WholeInv, Roomy, ShortestWay
  <2>1. rest = <<>> /\ queue = <<>>
    BY DEF IInv, DoneInv
  <2>2. nodes = Within(Layers)
    BY <2>1, LayersAreNodes DEF LayersInv
  <2>3. ASSUME NEW e \in edges
        PROVE  e \in Calls /\ Layers > 0 /\ e[1] \in Within(Layers - 1)
    <3>1. PICK f \in Targets, t \in Targets : e = <<f, t>>
      BY DEF IInv, TypeOK
    <3>2. f \in nodes /\ HasBody(f) /\ t \in Elems(callees[f])
      BY <3>1 DEF IInv, EdgeInv, Walked
    <3>3. Layers > 0 /\ f \in Within(Layers - 1)
      BY <3>1 DEF LayersInv
    <3> QED BY <3>1, <3>2, <3>3 DEF Calls
  <2>4. ASSUME NEW e \in Calls, Layers > 0, e[1] \in Within(Layers - 1)
        PROVE  e \in edges
    <3>1. PICK f \in nodes, t \in Targets : e = <<f, t>>
      BY DEF Calls
    <3>2. f \in Targets /\ HasBody(f) /\ t \in Elems(callees[f])
      BY <3>1 DEF Calls, IInv, TypeOK
    <3>3. Walked(f)
      BY <2>1 DEF Walked, Waiting
    <3> QED BY <2>1, <2>4, <3>1, <3>2, <3>3 DEF LayersInv, Expanded, Elems
  <2> QED BY <2>2, <2>3, <2>4
<1>2. IInv /\ TruncatedIffPartial /\ Consistent => ExternalMeansOutside
  <2> SUFFICES ASSUME IInv, TruncatedIffPartial, Consistent, status = "done", ~ truncated,
                      NEW f \in Members, NEW k \in ExternalCalls(f), HasBody(SafeCallees(f)[k])
               PROVE  FALSE
    BY DEF ExternalMeansOutside
  <2> DEFINE t == SafeCallees(f)[k]
  <2>1. f \in nodes /\ k \in DOMAIN SafeCallees(f) /\ t \notin Members
    BY DEF Members, ExternalCalls, InternalCalls
  <2>2. f \in Targets /\ t \in Elems(SafeCallees(f))
    BY <2>1 DEF IInv, TypeOK, Elems
  <2>3. t \in Targets
    BY <2>2, CalleesAreFinite DEF IInv
  <2>4. HasBody(f) /\ t \in Elems(callees[f])
    BY <2>2 DEF SafeCallees, Elems
  <2>5. <<f, t>> \in Calls
    BY <2>1, <2>3, <2>4 DEF Calls
  <2>6. t \in nodes
    BY <2>5 DEF TruncatedIffPartial, Consistent
  <2> QED BY <2>1, <2>6 DEF Members
<1>3. IInv /\ WholeInv /\ [Next]_vars => WholeInv'
  BY NextWhole
<1>4. Init => WholeInv
  BY InitWhole
<1>5. ShortestWay /\ ExternalMeansOutside => GraphIsWhole
  BY DEF GraphIsWhole
<1> QED BY <1>1, <1>2, <1>3, <1>4, <1>5, Invariance, AlwaysConsistent, TruncatedIsExact, PTL DEF Spec

-----------------------------------------------------------------------------
(* The sweeps.  A walk has a cursor, the place of the next hit it would    *)
(* look at, and what it has found is what there was before the cursor.     *)

Spots == Nat \X Nat \X Nat

Source == repo[source]

(* The items of the source that are behind, the one in hand among them.    *)
Taken == IF stage = "fetch" THEN offset ELSE offset + length - Len(page)

Cursor == IF stage = "item" THEN <<source, Taken, Len(Source[Taken]) - Len(hits) + 1>>
          ELSE <<source, Taken + 1, 1>>

Behind(c) == {q \in Walk!Due : Walk!Before(q, c)}

FoundUpTo(c, f) ==
    /\ Len(f) = Cardinality(Behind(c))
    /\ \A q \in Behind(c) : f[Walk!Nth(q)] = Walk!HitAt(q)
    /\ \A q \in Walk!Places : Walk!Before(q, c) => \E k \in DOMAIN f : f[k] = Walk!HitAt(q)
    /\ \A k \in DOMAIN f : \E q \in Walk!Places : Walk!Before(q, c) /\ f[k] = Walk!HitAt(q)

WalkType ==
    /\ repo \in Repos /\ limit \in Nat
    /\ source \in 1 .. Len(repo) /\ offset \in Nat /\ length \in Nat
    /\ page \in Seq(Seq(Hits)) /\ hits \in Seq(Hits) /\ found \in Seq(Hits)
    /\ pages \in Nat /\ scanned \in Nat
    /\ stage \in {"fetch", "page", "item", "done"}

FetchInv == stage = "fetch" =>
    /\ offset <= Len(Source)
    /\ Walk!Bounded \/ ~ Walk!Paged => offset = 0

PageInv == stage \in {"page", "item"} =>
    /\ offset + length <= Len(Source) /\ Len(page) <= length
    /\ \A k \in DOMAIN page : page[k] = Source[Taken + k]
    /\ IF Walk!Paged THEN length < PageSize => offset + length = Len(Source)
       ELSE offset + length = Len(Source)

ItemInv == stage = "item" =>
    /\ Taken > 0
    /\ Len(hits) <= Len(Source[Taken])
    /\ \A k \in DOMAIN hits :
        hits[k] = Source[Taken][Len(Source[Taken]) - Len(hits) + k]

(* A sweep over the functions ends within the first page of a source, and  *)
(* a query within its reach.                                               *)
BudgetInv ==
    /\ scanned = Taken
    /\ Walk!Bounded => scanned <= ScanCap /\ pages = 0
    /\ kind = "query" => scanned <= QueryScan /\ (stage # "item" => scanned < QueryScan)
    /\ Len(found) <= limit /\ ~ cut

RunningInv == FetchInv /\ PageInv /\ ItemInv /\ BudgetInv /\ FoundUpTo(Cursor, found)

Honest == Walk!FoundInOrder /\ Walk!SilentMeansComplete /\ Walk!TruncatedMeansMore

WalkInv == WalkType /\ IF stage = "done" THEN Honest ELSE RunningInv

-----------------------------------------------------------------------------
(* Places.                                                                 *)

LEMMA HeadAndTail ==
    ASSUME NEW S, NEW s \in Seq(S), s # <<>>
    PROVE  /\ Tail(s) \in Seq(S) /\ Head(s) \in S
           /\ Len(Tail(s)) = Len(s) - 1 /\ Len(s) \in Nat \ {0}
           /\ Head(s) = s[1] /\ 1 \in DOMAIN s
           /\ \A k \in DOMAIN Tail(s) : k + 1 \in DOMAIN s /\ Tail(s)[k] = s[k + 1] /\ k \in Nat
<1>1. Len(s) \in Nat \ {0} /\ DOMAIN s = 1 .. Len(s)
  OBVIOUS
<1>2. /\ Tail(s) \in Seq(S) /\ Len(Tail(s)) = Len(s) - 1
      /\ DOMAIN Tail(s) = 1 .. Len(s) - 1
      /\ \A k \in 1 .. Len(s) - 1 : Tail(s)[k] = s[k + 1]
  BY <1>1
<1>3. Head(s) = s[1] /\ s[1] \in S
  BY <1>1
<1> QED BY <1>1, <1>2, <1>3

LEMMA WalkHowMany == ASSUME NEW S PROVE Walk!Cardinality(S) = Cardinality(S)
  BY Zenon DEF Walk!Cardinality, Cardinality

LEMMA PlaceIs ==
    ASSUME WalkType
    PROVE  /\ repo \in Seq(Seq(Seq(Hits)))
           /\ \A p \in Walk!Places :
                /\ p \in Spots
                /\ p[1] \in 1 .. Len(repo) /\ p[2] \in 1 .. Len(repo[p[1]])
                /\ p[3] \in 1 .. Len(repo[p[1]][p[2]])
                /\ kind = "query" => p[2] <= QueryScan
           /\ \A s \in 1 .. Len(repo), i \in Nat, h \in Nat :
                /\ i \in 1 .. Len(repo[s]) /\ h \in 1 .. Len(repo[s][i])
                /\ kind = "query" => i <= QueryScan
                =>
                    <<s, i, h>> \in Walk!Places
<1>1. repo \in Seq(Seq(Seq(Hits)))
  BY SweepsAssumption DEF WalkType
<1>2. \A s \in DOMAIN repo : repo[s] \in Seq(Seq(Hits)) /\ s \in Nat
  BY <1>1
<1>3. \A s \in DOMAIN repo : \A i \in DOMAIN repo[s] : repo[s][i] \in Seq(Hits) /\ i \in Nat
  BY <1>2
<1>4. ASSUME NEW p \in Walk!Places
      PROVE  /\ p \in Spots
             /\ p[1] \in 1 .. Len(repo) /\ p[2] \in 1 .. Len(repo[p[1]])
             /\ p[3] \in 1 .. Len(repo[p[1]][p[2]])
             /\ kind = "query" => p[2] <= QueryScan
  <2>1. PICK s \in DOMAIN repo : \E i \in Walk!Reach(s) : \E h \in DOMAIN repo[s][i] : p = <<s, i, h>>
    BY DEF Walk!Places
  <2>2. PICK i \in Walk!Reach(s) : \E h \in DOMAIN repo[s][i] : p = <<s, i, h>>
    BY <2>1
  <2>3. PICK h \in DOMAIN repo[s][i] : p = <<s, i, h>>
    BY <2>2
  <2>4. i \in DOMAIN repo[s] /\ (kind = "query" => i <= QueryScan)
    BY DEF Walk!Reach
  <2>5. s \in 1 .. Len(repo) /\ i \in 1 .. Len(repo[s]) /\ h \in 1 .. Len(repo[s][i])
    BY <1>1, <1>2, <1>3, <2>4
  <2>6. s \in Nat /\ i \in Nat /\ h \in Nat
    BY <1>2, <1>3, <2>4
  <2> QED BY <2>3, <2>4, <2>5, <2>6 DEF Spots
<1>5. ASSUME NEW s \in 1 .. Len(repo), NEW i \in Nat, NEW h \in Nat,
             i \in 1 .. Len(repo[s]), h \in 1 .. Len(repo[s][i]),
             kind = "query" => i <= QueryScan
      PROVE  <<s, i, h>> \in Walk!Places
  <2>1. s \in DOMAIN repo
    BY <1>1
  <2>2. i \in DOMAIN repo[s]
    BY <1>2, <1>5, <2>1
  <2>3. h \in DOMAIN repo[s][i]
    BY <1>3, <1>5, <2>1, <2>2
  <2>4. i \in Walk!Reach(s)
    BY <1>5, <2>2 DEF Walk!Reach
  <2> QED BY <2>1, <2>3, <2>4 DEF Walk!Places
<1> QED BY <1>1, <1>4, <1>5

LEMMA BeforeIsOrder ==
    /\ \A p, q, r \in Spots : Walk!Before(p, q) /\ Walk!Before(q, r) => Walk!Before(p, r)
    /\ \A p, q \in Spots : Walk!Before(p, q) \/ Walk!Before(q, p) \/ p = q
    /\ \A p \in Spots : ~ Walk!Before(p, p)
<1>1. \A p \in Spots : p[1] \in Nat /\ p[2] \in Nat /\ p[3] \in Nat /\ p = <<p[1], p[2], p[3]>>
  BY DEF Spots
<1>2. ASSUME NEW p \in Spots, NEW q \in Spots, NEW r \in Spots, Walk!Before(p, q), Walk!Before(q, r)
      PROVE  Walk!Before(p, r)
  BY <1>1, <1>2 DEF Walk!Before
<1>3. ASSUME NEW p \in Spots, NEW q \in Spots, ~ Walk!Before(p, q), ~ Walk!Before(q, p)
      PROVE  p = q
  <2>1. p[1] = q[1] /\ p[2] = q[2] /\ p[3] = q[3]
    BY <1>1, <1>3 DEF Walk!Before
  <2> QED BY <1>1, <2>1
<1>4. \A p \in Spots : ~ Walk!Before(p, p)
  BY <1>1 DEF Walk!Before
<1> QED BY <1>2, <1>3, <1>4

LEMMA FiniteImages ==
    ASSUME NEW S, IsFiniteSet(S), NEW f, DOMAIN f = S
    PROVE  IsFiniteSet({f[x] : x \in S})
<1> DEFINE g == [x \in S |-> f[x]]
           T == {f[x] : x \in S}
<1>1. g \in Surjection(S, T)
  BY DEF Surjection
<1> QED BY <1>1, FS_Surjection

LEMMA PlacesAreFinite ==
    ASSUME WalkType
    PROVE  IsFiniteSet(Walk!Places)
<1>1. \A s \in DOMAIN repo : repo[s] \in Seq(Seq(Hits))
  BY PlaceIs
<1>2. \A s \in DOMAIN repo : \A i \in DOMAIN repo[s] : repo[s][i] \in Seq(Hits)
  BY <1>1
<1>3. ASSUME NEW q, NEW R, q \in Seq(R)
      PROVE  IsFiniteSet(DOMAIN q)
  <2>1. DOMAIN q = 1 .. Len(q) /\ Len(q) \in Nat
    BY <1>3
  <2> QED BY <2>1, FS_Interval
<1> DEFINE ofItem(s, i) == {<<s, i, h>> : h \in DOMAIN repo[s][i]}
           ofSource(s) == {ofItem(s, i) : i \in Walk!Reach(s)}
           all == {UNION ofSource(s) : s \in DOMAIN repo}
<1>4. ASSUME NEW s \in DOMAIN repo, NEW i \in DOMAIN repo[s]
      PROVE  IsFiniteSet(ofItem(s, i))
  <2> DEFINE f == [h \in DOMAIN repo[s][i] |-> <<s, i, h>>]
  <2>1. IsFiniteSet(DOMAIN repo[s][i])
    BY <1>2, <1>3
  <2>2. IsFiniteSet({f[h] : h \in DOMAIN repo[s][i]})
    BY <2>1, FiniteImages
  <2> QED BY <2>2
<1>5. ASSUME NEW s \in DOMAIN repo
      PROVE  IsFiniteSet(UNION ofSource(s))
  <2> DEFINE f == [i \in Walk!Reach(s) |-> ofItem(s, i)]
  <2>1. Walk!Reach(s) \subseteq DOMAIN repo[s] /\ IsFiniteSet(Walk!Reach(s))
    <3>1. Walk!Reach(s) \subseteq DOMAIN repo[s]
      BY DEF Walk!Reach
    <3>2. IsFiniteSet(DOMAIN repo[s])
      BY <1>1, <1>3
    <3> QED BY <3>1, <3>2, FS_Subset
  <2>2. IsFiniteSet({f[i] : i \in Walk!Reach(s)})
    BY <2>1, FiniteImages
  <2>3. {f[i] : i \in Walk!Reach(s)} = ofSource(s)
    <3>1. \A i \in Walk!Reach(s) : f[i] = ofItem(s, i)
      OBVIOUS
    <3> HIDE DEF f, ofItem
    <3> QED BY <3>1
  <2>4. \A T \in ofSource(s) : IsFiniteSet(T)
    BY <1>4, <2>1
  <2> HIDE DEF f, ofSource
  <2> QED BY <2>2, <2>3, <2>4, FS_UNION
<1>6. IsFiniteSet(all)
  <2> DEFINE f == [s \in DOMAIN repo |-> UNION ofSource(s)]
  <2>1. IsFiniteSet(DOMAIN repo)
    BY <1>3, PlaceIs
  <2>2. IsFiniteSet({f[s] : s \in DOMAIN repo})
    BY <2>1, FiniteImages
  <2>3. {f[s] : s \in DOMAIN repo} = all
    <3>1. \A s \in DOMAIN repo : f[s] = UNION ofSource(s)
      OBVIOUS
    <3> HIDE DEF f, ofSource
    <3> QED BY <3>1
  <2> QED BY <2>2, <2>3
<1>7. \A T \in all : IsFiniteSet(T)
  BY <1>5
<1>8. Walk!Places = UNION all
  BY DEF Walk!Places
<1> HIDE DEF all
<1> QED BY <1>6, <1>7, <1>8, FS_UNION

LEMMA BehindIsFinite ==
    ASSUME WalkType
    PROVE  /\ Walk!Due \subseteq Walk!Places
           /\ IsFiniteSet(Walk!Due) /\ Cardinality(Walk!Due) \in Nat
           /\ \A c : /\ Behind(c) \subseteq Walk!Due
                     /\ IsFiniteSet(Behind(c)) /\ Cardinality(Behind(c)) \in Nat
                     /\ Cardinality(Behind(c)) <= Cardinality(Walk!Due)
                     /\ Walk!Nth(c) = Cardinality(Behind(c)) + 1
<1>1. Walk!Due \subseteq Walk!Places
  BY DEF Walk!Due
<1>2. IsFiniteSet(Walk!Due) /\ Cardinality(Walk!Due) \in Nat
  BY <1>1, PlacesAreFinite, FS_Subset, FS_CardinalityType
<1>3. ASSUME NEW c
      PROVE  /\ Behind(c) \subseteq Walk!Due
             /\ IsFiniteSet(Behind(c)) /\ Cardinality(Behind(c)) \in Nat
             /\ Cardinality(Behind(c)) <= Cardinality(Walk!Due)
             /\ Walk!Nth(c) = Cardinality(Behind(c)) + 1
  <2>1. Behind(c) \subseteq Walk!Due
    BY DEF Behind
  <2>2. Walk!Nth(c) = Cardinality(Behind(c)) + 1
    BY WalkHowMany DEF Walk!Nth, Behind
  <2> QED BY <1>2, <2>1, <2>2, FS_Subset, FS_CardinalityType
<1> QED BY <1>1, <1>2, <1>3

(* Moving the cursor over nothing, over a hit that is due, and over one    *)
(* that has been found before.                                             *)
LEMMA MoveOn ==
    ASSUME NEW c, NEW d, NEW f, FoundUpTo(c, f),
           \A q \in Walk!Places : Walk!Before(q, d) <=> Walk!Before(q, c)
    PROVE  FoundUpTo(d, f)
<1>1. Behind(d) = Behind(c)
  BY DEF Behind, Walk!Due
<1> QED BY <1>1 DEF FoundUpTo

LEMMA TakeNext ==
    ASSUME WalkType, NEW c \in Walk!Due, NEW d, NEW f \in Seq(Hits), FoundUpTo(c, f),
           Walk!HitAt(c) \in Hits,
           \A q \in Walk!Places : Walk!Before(q, d) <=> Walk!Before(q, c) \/ q = c
    PROVE  FoundUpTo(d, Append(f, Walk!HitAt(c)))
<1> DEFINE v == Walk!HitAt(c)
           g == Append(f, v)
           n == Len(f)
<1>1. /\ n \in Nat /\ Len(g) = n + 1 /\ DOMAIN g = 1 .. n + 1 /\ DOMAIN f = 1 .. n
      /\ g[n + 1] = v /\ \A k \in 1 .. n : g[k] = f[k]
  OBVIOUS
<1>2. c \in Spots /\ c \in Walk!Places
  BY BehindIsFinite, PlaceIs
<1>3. Behind(d) = Behind(c) \cup {c} /\ c \notin Behind(c)
  BY <1>2, BeforeIsOrder DEF Behind, Walk!Due
<1>4. Cardinality(Behind(d)) = Cardinality(Behind(c)) + 1
  <2>1. IsFiniteSet(Behind(c))
    BY BehindIsFinite
  <2> QED BY <1>3, <2>1, FS_AddElement
<1>5. Len(g) = Cardinality(Behind(d))
  BY <1>1, <1>4 DEF FoundUpTo
<1>6. Walk!Nth(c) = n + 1
  BY BehindIsFinite DEF FoundUpTo
<1>7. ASSUME NEW q \in Behind(c)
      PROVE  Walk!Nth(q) \in 1 .. n
  <2>1. q \in Spots /\ Walk!Before(q, c)
    BY <1>7, BehindIsFinite, PlaceIs DEF Behind
  <2>2. Behind(q) \subseteq Behind(c) /\ q \notin Behind(q)
    <3>1. \A r \in Behind(q) : r \in Spots /\ Walk!Before(r, q) /\ r \in Walk!Due
      BY BehindIsFinite, PlaceIs DEF Behind
    <3> QED BY <1>2, <2>1, <3>1, BeforeIsOrder DEF Behind
  <2>3. Cardinality(Behind(q)) < Cardinality(Behind(c))
    <3>1. IsFiniteSet(Behind(c)) /\ Cardinality(Behind(c)) \in Nat /\ Cardinality(Behind(q)) \in Nat
      BY BehindIsFinite
    <3>2. /\ Cardinality(Behind(q)) <= Cardinality(Behind(c))
          /\ Cardinality(Behind(c)) = Cardinality(Behind(q)) => Behind(c) = Behind(q)
      BY <2>2, <3>1, FS_Subset
    <3> QED BY <1>7, <2>2, <3>1, <3>2
  <2>4. Walk!Nth(q) = Cardinality(Behind(q)) + 1 /\ Cardinality(Behind(q)) \in Nat
    BY BehindIsFinite
  <2>5. n = Cardinality(Behind(c))
    BY DEF FoundUpTo
  <2> QED BY <1>1, <2>3, <2>4, <2>5
<1>8. \A q \in Behind(d) : g[Walk!Nth(q)] = Walk!HitAt(q)
  BY <1>1, <1>3, <1>6, <1>7 DEF FoundUpTo
<1>9. \A q \in Walk!Places : Walk!Before(q, d) => \E k \in DOMAIN g : g[k] = Walk!HitAt(q)
  <2> SUFFICES ASSUME NEW q \in Walk!Places, Walk!Before(q, d)
               PROVE  \E k \in 1 .. n + 1 : g[k] = Walk!HitAt(q)
    BY <1>1
  <2>1. CASE q = c
    BY <1>1, <2>1
  <2>2. CASE q # c
    <3>1. PICK k \in 1 .. n : f[k] = Walk!HitAt(q)
      BY <1>1, <2>2 DEF FoundUpTo
    <3> QED BY <1>1, <3>1
  <2> QED BY <2>1, <2>2
<1>10. \A k \in DOMAIN g : \E q \in Walk!Places : Walk!Before(q, d) /\ g[k] = Walk!HitAt(q)
  <2> SUFFICES ASSUME NEW k \in 1 .. n + 1
               PROVE  \E q \in Walk!Places : Walk!Before(q, d) /\ g[k] = Walk!HitAt(q)
    BY <1>1
  <2>1. CASE k = n + 1
    BY <1>1, <1>2, <2>1
  <2>2. CASE k # n + 1
    <3>1. k \in 1 .. n /\ g[k] = f[k]
      BY <1>1, <2>2
    <3> QED BY <1>1, <3>1 DEF FoundUpTo
  <2> QED BY <2>1, <2>2
<1> HIDE DEF g
<1> QED BY <1>5, <1>8, <1>9, <1>10 DEF FoundUpTo, g

(* A hit is due unless it was found before and the walk wants it once.     *)
LEMMA DueIs ==
    ASSUME WalkType, NEW c \in Walk!Places, NEW f, FoundUpTo(c, f)
    PROVE  c \in Walk!Due <=> ~ (kind = "vulns" /\ \E k \in DOMAIN f : f[k] = Walk!HitAt(c))
  BY DEF FoundUpTo, Walk!Due

LEMMA SkipNext ==
    ASSUME WalkType, NEW c \in Walk!Places, NEW d, NEW f, FoundUpTo(c, f), c \notin Walk!Due,
           \A q \in Walk!Places : Walk!Before(q, d) <=> Walk!Before(q, c) \/ q = c
    PROVE  FoundUpTo(d, f)
<1>1. Behind(d) = Behind(c)
  BY DEF Behind, Walk!Due
<1>2. \E k \in DOMAIN f : f[k] = Walk!HitAt(c)
  BY DueIs
<1> QED BY <1>1, <1>2 DEF FoundUpTo

(* What is found by a cursor is the beginning; all of it, when there is    *)
(* nothing ahead, and not all when a hit that is due is.                   *)
LEMMA FoundIsBeginning ==
    ASSUME WalkType, NEW c \in Spots, FoundUpTo(c, found), Len(found) <= limit
    PROVE  /\ Walk!FoundInOrder
           /\ (\A q \in Walk!Places : Walk!Before(q, c)) => Walk!Complete
           /\ c \in Walk!Due => ~ Walk!Complete
<1>1. Len(found) = Cardinality(Behind(c)) /\ Walk!Cardinality(Walk!Due) = Cardinality(Walk!Due)
  BY WalkHowMany DEF FoundUpTo
<1>2. ASSUME NEW p \in Walk!Due, p \notin Behind(c)
      PROVE  ~ (Walk!Nth(p) <= Len(found))
  <2>1. p \in Spots
    BY BehindIsFinite, PlaceIs
  <2>2. p = c \/ Walk!Before(c, p)
    BY <1>2, <2>1, BeforeIsOrder DEF Behind
  <2>3. Behind(c) \subseteq Behind(p)
    <3>1. \A r \in Behind(c) : r \in Spots /\ Walk!Before(r, c) /\ r \in Walk!Due
      BY BehindIsFinite, PlaceIs DEF Behind
    <3> QED BY <2>1, <2>2, <3>1, BeforeIsOrder DEF Behind
  <2>4. Cardinality(Behind(c)) <= Cardinality(Behind(p))
    BY <2>3, BehindIsFinite, FS_Subset
  <2>5. /\ Walk!Nth(p) = Cardinality(Behind(p)) + 1 /\ Cardinality(Behind(p)) \in Nat
        /\ Cardinality(Behind(c)) \in Nat
    BY BehindIsFinite
  <2> QED BY <1>1, <2>4, <2>5
<1>3. Walk!FoundInOrder
  <2>1. Len(found) <= Walk!Cardinality(Walk!Due)
    BY <1>1, BehindIsFinite
  <2> QED BY <1>2, <2>1 DEF Walk!FoundInOrder, FoundUpTo
<1>4. ASSUME \A q \in Walk!Places : Walk!Before(q, c)
      PROVE  Walk!Complete
  <2>1. Behind(c) = Walk!Due
    BY <1>4, BehindIsFinite DEF Behind
  <2> QED BY <1>1, <2>1 DEF Walk!Complete
<1>5. ASSUME c \in Walk!Due
      PROVE  ~ Walk!Complete
  <2>1. c \notin Behind(c)
    BY BeforeIsOrder DEF Behind
  <2>2. /\ IsFiniteSet(Walk!Due) /\ Behind(c) \subseteq Walk!Due
    BY BehindIsFinite
  <2>3. Cardinality(Behind(c)) # Cardinality(Walk!Due)
    BY <1>5, <2>1, <2>2, FS_Subset
  <2> QED BY <1>1, <2>3 DEF Walk!Complete
<1> QED BY <1>3, <1>4, <1>5

-----------------------------------------------------------------------------
(* The steps.  The request never changes, and with it what there is to     *)
(* find.                                                                   *)

LEMMA WalkRequestStays ==
    ASSUME [Walk!Next]_Walk!vars
    PROVE  UNCHANGED <<kind, repo, limit>>
  BY Zenon DEF Walk!Next, Walk!StopScanning, Walk!Fetch, Walk!FetchNothing, Walk!StopBeforeItem,
         Walk!TakeItem, Walk!TakeHit, Walk!SkipSeen, Walk!StopAtHit, Walk!ItemEnds,
         Walk!PageEnds, Walk!End, Walk!NextSource, Walk!vars, Walk!request

LEMMA FoundStays ==
    ASSUME UNCHANGED <<kind, repo, limit>>, FoundUpTo(Cursor', found')
    PROVE  FoundUpTo(Cursor, found)'
<1>1. Walk!Places' = Walk!Places /\ Walk!Due' = Walk!Due
  BY DEF Walk!Due, Walk!Places, Walk!Reach, Walk!HitAt, Walk!Before
<1>2. \A q : Walk!HitAt(q)' = Walk!HitAt(q)
  BY DEF Walk!HitAt
<1>3. \A q : Walk!Nth(q)' = Walk!Nth(q)
  BY <1>1 DEF Walk!Nth, Walk!Before
<1>4. Behind(Cursor)' = Behind(Cursor')
  BY <1>1 DEF Behind, Walk!Before
<1> QED BY <1>1, <1>2, <1>3, <1>4 DEF FoundUpTo, Walk!Before

(* The end of a walk.                                                      *)
LEMMA EndIsHonest ==
    ASSUME WalkType, RunningInv, stage # "done", NEW c \in Spots, FoundUpTo(c, found),
           UNCHANGED <<kind, repo, limit, found, pages>>,
           NEW flag, cut' = (cut \/ flag), stage' = "done",
           ~ flag => Walk!CeilingHit \/ \A q \in Walk!Places : Walk!Before(q, c),
           flag => \/ Walk!Bounded \/ ~ Walk!Paged
                   \/ kind = "vulns" /\ pages >= PageCap
                   \/ c \in Walk!Due
    PROVE  Honest'
<1>1. /\ Walk!FoundInOrder
      /\ (\A q \in Walk!Places : Walk!Before(q, c)) => Walk!Complete
      /\ c \in Walk!Due => ~ Walk!Complete
  BY FoundIsBeginning DEF RunningInv, BudgetInv
<1>2. /\ Walk!FoundInOrder' <=> Walk!FoundInOrder
      /\ Walk!Complete' <=> Walk!Complete
  BY DEF Walk!FoundInOrder, Walk!Complete, Walk!Due, Walk!Places, Walk!Reach, Walk!HitAt, Walk!Nth, Walk!Before
<1>3. /\ Walk!CeilingHit' <=> Walk!CeilingHit
      /\ Walk!Bounded' <=> Walk!Bounded
      /\ Walk!Paged' <=> Walk!Paged
  BY DEF Walk!CeilingHit, Walk!Bounded, Walk!Paged
<1>4. cut' <=> flag
  BY DEF RunningInv, BudgetInv
<1>5. Walk!SilentMeansComplete'
  BY <1>1, <1>2, <1>3, <1>4 DEF Walk!SilentMeansComplete
<1>6. Walk!TruncatedMeansMore'
  BY <1>1, <1>2, <1>3, <1>4 DEF Walk!TruncatedMeansMore
<1> QED BY <1>1, <1>2, <1>5, <1>6 DEF Honest

LEMMA CursorIs ==
    ASSUME WalkType, RunningInv, stage # "done"
    PROVE  /\ Cursor \in Spots /\ Taken \in Nat /\ Taken <= Len(Source)
           /\ Source \in Seq(Seq(Hits)) /\ Source = repo[source]
           /\ stage = "item" => Source[Taken] \in Seq(Hits) /\ Taken \in 1 .. Len(Source)
<1>1. source \in 1 .. Len(repo) /\ source \in Nat /\ repo \in Seq(Seq(Seq(Hits)))
  BY PlaceIs DEF WalkType
<1>2. Source \in Seq(Seq(Hits)) /\ Len(Source) \in Nat
  BY <1>1 DEF Source
<1>3. offset \in Nat /\ length \in Nat /\ Len(page) \in Nat /\ Len(hits) \in Nat
  BY DEF WalkType
<1>4. Taken \in Nat /\ Taken <= Len(Source)
  <2>1. CASE stage = "fetch"
    BY <1>2, <1>3, <2>1 DEF RunningInv, FetchInv, Taken
  <2>2. CASE stage \in {"page", "item"}
    <3>1. offset + length <= Len(Source) /\ Len(page) <= length
      BY <2>2 DEF RunningInv, PageInv
    <3>2. Taken = offset + length - Len(page)
      BY <2>2 DEF Taken
    <3> QED BY <1>2, <1>3, <3>1, <3>2
  <2> QED BY <2>1, <2>2 DEF WalkType
<1>5. ASSUME stage = "item"
      PROVE  Source[Taken] \in Seq(Hits) /\ Taken \in 1 .. Len(Source)
  <2>1. Taken \in 1 .. Len(Source)
    BY <1>2, <1>4, <1>5 DEF RunningInv, ItemInv
  <2> QED BY <1>2, <2>1
<1>6. Cursor \in Spots
  <2>1. CASE stage = "item"
    <3>1. Len(hits) <= Len(Source[Taken]) /\ Len(Source[Taken]) \in Nat
      BY <1>5, <2>1 DEF RunningInv, ItemInv
    <3>2. Len(Source[Taken]) - Len(hits) + 1 \in Nat
      BY <1>3, <3>1
    <3> QED BY <1>1, <1>4, <2>1, <3>2 DEF Cursor, Spots
  <2>2. CASE stage # "item"
    <3>1. Taken + 1 \in Nat
      BY <1>4
    <3> QED BY <1>1, <2>2, <3>1 DEF Cursor, Spots
  <2> QED BY <2>1, <2>2
<1> QED BY <1>2, <1>4, <1>5, <1>6 DEF Source

LEMMA EndWalk ==
    ASSUME WalkInv, stage # "done", NEW c \in Spots, FoundUpTo(c, found),
           NEW flag, Walk!End(flag),
           ~ flag => Walk!CeilingHit \/ \A q \in Walk!Places : Walk!Before(q, c),
           flag => \/ Walk!Bounded \/ ~ Walk!Paged
                   \/ kind = "vulns" /\ pages >= PageCap
                   \/ c \in Walk!Due
    PROVE  WalkInv'
<1>1. /\ stage' = "done" /\ cut' = (cut \/ flag)
      /\ UNCHANGED <<kind, repo, limit, source, offset, page, length, pages, scanned, hits, found>>
  BY DEF Walk!End, Walk!request
<1>2. WalkType'
  BY <1>1 DEF WalkInv, WalkType
<1>3. Honest'
  BY <1>1, EndIsHonest DEF WalkInv
<1> QED BY <1>1, <1>2, <1>3 DEF WalkInv

LEMMA RunOn ==
    ASSUME WalkType', stage' # "done", FetchInv', PageInv', ItemInv', BudgetInv',
           UNCHANGED <<kind, repo, limit>>, FoundUpTo(Cursor', found')
    PROVE  WalkInv'
  BY FoundStays DEF WalkInv, RunningInv

(* The end of a source, when nothing of it is ahead.                       *)
LEMMA NextSourceStep ==
    ASSUME WalkInv, stage # "done", Walk!NextSource,
           \A q \in Walk!Places : q[1] <= source => Walk!Before(q, Cursor)
    PROVE  WalkInv'
<1>1. /\ WalkType /\ RunningInv /\ Cursor \in Spots /\ FoundUpTo(Cursor, found)
      /\ source \in 1 .. Len(repo) /\ Len(repo) \in Nat
  BY CursorIs, PlaceIs DEF WalkInv, RunningInv, WalkType
<1>2. \A q \in Walk!Places : /\ q \in Spots /\ q[1] \in 1 .. Len(repo)
                             /\ q[2] \in Nat \ {0} /\ q[3] \in Nat \ {0}
  <2> SUFFICES ASSUME NEW q \in Walk!Places
               PROVE  /\ q \in Spots /\ q[1] \in 1 .. Len(repo)
                      /\ q[2] \in Nat \ {0} /\ q[3] \in Nat \ {0}
    OBVIOUS
  <2>1. /\ q \in Spots /\ q[1] \in 1 .. Len(repo) /\ q[2] \in 1 .. Len(repo[q[1]])
        /\ q[3] \in 1 .. Len(repo[q[1]][q[2]])
    BY <1>1, PlaceIs
  <2> QED BY <2>1 DEF Spots
<1>3. CASE source = Len(repo) /\ Walk!End(FALSE)
  <2>1. \A q \in Walk!Places : Walk!Before(q, Cursor)
    BY <1>1, <1>2, <1>3
  <2> QED BY <1>1, <1>3, <2>1, EndWalk
<1>4. CASE source < Len(repo) /\ ~ (source = Len(repo) /\ Walk!End(FALSE))
  <2>1. /\ source' = source + 1 /\ offset' = 0 /\ scanned' = 0
        /\ page' = <<>> /\ length' = 0 /\ hits' = <<>> /\ stage' = "fetch"
        /\ UNCHANGED <<kind, repo, limit, pages, found, cut>>
    BY <1>4 DEF Walk!NextSource, Walk!request
  <2>2. WalkType'
    <3>1. <<>> \in Seq(Seq(Hits)) /\ <<>> \in Seq(Hits)
      OBVIOUS
    <3> QED BY <1>1, <1>4, <2>1, <3>1 DEF WalkType
  <2>3. Taken' = 0 /\ Cursor' = <<source + 1, 1, 1>>
    BY <2>1 DEF Taken, Cursor
  <2>4. FetchInv' /\ PageInv' /\ ItemInv'
    <3>1. repo[source + 1] \in Seq(Seq(Hits)) /\ Len(repo[source + 1]) \in Nat
      BY <1>1, <1>4, PlaceIs
    <3>2. Source' = repo[source + 1]
      BY <2>1 DEF Source
    <3> QED BY <2>1, <3>1, <3>2 DEF FetchInv, PageInv, ItemInv
  <2>5. BudgetInv'
    <3>1. Walk!Bounded' <=> Walk!Bounded
      BY <2>1 DEF Walk!Bounded
    <3>2. ScanCap \in Nat
      BY SweepsAssumption
    <3>3. QueryScan > 0 /\ QueryScan \in Nat
      BY SweepsAssumption
    <3> QED BY <1>1, <2>1, <2>3, <3>1, <3>2, <3>3 DEF RunningInv, BudgetInv
  <2>6. Cursor[1] = source
    BY DEF Cursor
  <2>7. \A q \in Walk!Places : Walk!Before(q, Cursor') <=> Walk!Before(q, Cursor)
    <3> SUFFICES ASSUME NEW q \in Walk!Places
                 PROVE  Walk!Before(q, Cursor') <=> Walk!Before(q, Cursor)
      OBVIOUS
    <3>1. Walk!Before(q, <<source + 1, 1, 1>>) <=> q[1] <= source
      BY <1>1, <1>2, <2>3 DEF Walk!Before
    <3>2. Walk!Before(q, Cursor) => q[1] <= source
      BY <1>1, <1>2, <2>6 DEF Walk!Before
    <3> QED BY <2>3, <3>1, <3>2
  <2>8. FoundUpTo(Cursor', found')
    BY <1>1, <2>1, <2>7, MoveOn
  <2> QED BY <2>1, <2>2, <2>4, <2>5, <2>8, RunOn
<1> QED BY <1>3, <1>4 DEF Walk!NextSource

(* Between two items.                                                      *)
LEMMA SourceIsBehind ==
    ASSUME WalkInv, stage \in {"fetch", "page"}, Taken = Len(Source)
    PROVE  \A q \in Walk!Places : q[1] <= source => Walk!Before(q, Cursor)
<1>1. WalkType /\ Cursor = <<source, Len(Source) + 1, 1>> /\ source \in Nat /\ Len(Source) \in Nat
  <2>1. WalkType /\ RunningInv /\ stage # "done"
    BY DEF WalkInv
  <2>2. Cursor = <<source, Len(Source) + 1, 1>>
    BY DEF Cursor
  <2> QED BY <2>1, <2>2, CursorIs DEF WalkType
<1> SUFFICES ASSUME NEW q \in Walk!Places, q[1] <= source
             PROVE  Walk!Before(q, Cursor)
  OBVIOUS
<1>2. q[1] \in Nat /\ q[2] \in 1 .. Len(repo[q[1]])
  BY <1>1, PlaceIs DEF Spots
<1>3. q[1] = source => q[2] <= Len(Source)
  BY <1>1, <1>2 DEF Source
<1> QED BY <1>1, <1>2, <1>3 DEF Walk!Before

(* What a page holds.                                                      *)
LEMMA PageIs ==
    ASSUME WalkInv, stage = "fetch"
    PROVE  /\ Walk!PageAt(offset) \in Seq(Seq(Hits))
           /\ offset + Len(Walk!PageAt(offset)) <= Len(Source)
           /\ \A k \in DOMAIN Walk!PageAt(offset) : Walk!PageAt(offset)[k] = Source[offset + k]
           /\ IF Walk!Paged
              THEN Len(Walk!PageAt(offset)) < PageSize =>
                        offset + Len(Walk!PageAt(offset)) = Len(Source)
              ELSE offset + Len(Walk!PageAt(offset)) = Len(Source)
<1>1. /\ WalkType /\ RunningInv /\ stage # "done" /\ Source \in Seq(Seq(Hits))
      /\ Source = repo[source] /\ offset \in Nat /\ offset <= Len(Source) /\ Len(Source) \in Nat
  <2>1. WalkType /\ RunningInv /\ stage # "done"
    BY DEF WalkInv
  <2>2. Source \in Seq(Seq(Hits)) /\ Source = repo[source]
    BY <2>1, CursorIs
  <2> QED BY <2>1, <2>2 DEF WalkType, RunningInv, FetchInv
<1>2. PageSize \in Nat
  BY SweepsAssumption
<1>3. CASE Walk!Paged
  <2> DEFINE upto == IF offset + PageSize <= Len(Source) THEN offset + PageSize ELSE Len(Source)
             sub == SubSeq(Source, offset + 1, upto)
  <2>1. Walk!Min({offset + PageSize, Len(Source)}) = upto
    <3>1. upto \in {offset + PageSize, Len(Source)} /\ \A y \in {offset + PageSize, Len(Source)} : upto <= y
      BY <1>1, <1>2
    <3>2. \A x \in {offset + PageSize, Len(Source)} :
            (\A y \in {offset + PageSize, Len(Source)} : x <= y) => x = upto
      BY <1>1, <1>2
    <3> HIDE DEF upto
    <3> QED BY <3>1, <3>2 DEF Walk!Min
  <2>2. Walk!PageAt(offset) = sub
    BY <1>1, <1>3, <2>1 DEF Walk!PageAt
  <2>3. upto \in Nat /\ upto <= Len(Source) /\ offset <= upto
        /\ (upto < offset + PageSize => upto = Len(Source))
    BY <1>1, <1>2
  <2> HIDE DEF upto
  <2>4. /\ sub \in Seq(Seq(Hits)) /\ Len(sub) = upto - offset
        /\ \A k \in 1 .. Len(sub) : sub[k] = Source[offset + k]
    <3>1. sub \in Seq(Seq(Hits)) /\ Len(sub) = upto - offset
      BY <1>1, <2>3
    <3>2. \A k \in 1 .. upto - offset : sub[k] = Source[(offset + 1) + k - 1]
      BY <1>1, <2>3
    <3>3. \A k \in 1 .. upto - offset : (offset + 1) + k - 1 = offset + k
      BY <1>1, <2>3
    <3> QED BY <3>1, <3>2, <3>3
  <2> HIDE DEF sub
  <2>5. offset + Len(sub) = upto
    BY <1>1, <2>3, <2>4
  <2>6. Len(sub) < PageSize => upto = Len(Source)
    BY <1>1, <1>2, <2>3, <2>4
  <2>7. \A k \in DOMAIN sub : sub[k] = Source[offset + k]
    BY <2>4
  <2> QED BY <1>3, <2>2, <2>3, <2>4, <2>5, <2>6, <2>7
<1>4. CASE ~ Walk!Paged
  <2>1. Walk!PageAt(offset) = Source /\ offset = 0
    BY <1>1, <1>4 DEF Walk!PageAt, RunningInv, FetchInv, Source
  <2> QED BY <1>1, <1>4, <2>1
<1> QED BY <1>3, <1>4

LEMMA FetchStep ==
    ASSUME WalkInv, Walk!Fetch
    PROVE  WalkInv'
<1> DEFINE p == Walk!PageAt(offset)
<1>1. /\ stage = "fetch" /\ stage' = "page" /\ page' = p /\ length' = Len(p)
      /\ UNCHANGED <<kind, repo, limit, source, offset, pages, scanned, hits, found, cut>>
  BY DEF Walk!Fetch, Walk!request
<1>2. WalkType /\ RunningInv /\ p \in Seq(Seq(Hits)) /\ Len(p) \in Nat /\ offset \in Nat
  BY <1>1, PageIs DEF WalkInv, WalkType
<1>3. Taken = offset /\ Taken' = offset
  <2>1. Taken' = offset + Len(p) - Len(p)
    BY <1>1 DEF Taken
  <2> HIDE DEF p
  <2> QED BY <1>1, <1>2, <2>1 DEF Taken
<1>4. Cursor' = Cursor
  BY <1>1, <1>3 DEF Cursor
<1>5. WalkType'
  BY <1>1, <1>2 DEF WalkType
<1>6. Source' = Source /\ (Walk!Paged' <=> Walk!Paged) /\ (Walk!Bounded' <=> Walk!Bounded)
  BY <1>1 DEF Source, Walk!Paged, Walk!Bounded
<1>7. FetchInv' /\ ItemInv'
  BY <1>1 DEF FetchInv, ItemInv
<1>8. PageInv'
  <2>1. /\ offset + Len(p) <= Len(Source)
        /\ \A k \in DOMAIN p : p[k] = Source[offset + k]
        /\ IF Walk!Paged THEN Len(p) < PageSize => offset + Len(p) = Len(Source)
           ELSE offset + Len(p) = Len(Source)
    BY <1>1, PageIs
  <2> HIDE DEF p
  <2> QED BY <1>1, <1>2, <1>3, <1>6, <2>1 DEF PageInv
<1>9. BudgetInv'
  BY <1>1, <1>2, <1>3, <1>6 DEF RunningInv, BudgetInv
<1>10. FoundUpTo(Cursor', found')
  BY <1>1, <1>2, <1>4 DEF RunningInv
<1> QED BY <1>1, <1>5, <1>7, <1>8, <1>9, <1>10, RunOn

LEMMA FetchNothingStep ==
    ASSUME WalkInv, Walk!FetchNothing
    PROVE  WalkInv'
<1>1. stage = "fetch" /\ Walk!PageAt(offset) = <<>> /\ Walk!NextSource
  BY DEF Walk!FetchNothing
<1>2. WalkType /\ RunningInv /\ offset \in Nat /\ offset <= Len(Source) /\ Len(Source) \in Nat
  <2>1. WalkType /\ RunningInv
    BY <1>1 DEF WalkInv
  <2>2. Len(Source) \in Nat
    BY <1>1, <2>1, CursorIs
  <2> QED BY <1>1, <2>1, <2>2 DEF WalkType, RunningInv, FetchInv
<1>3. Len(Walk!PageAt(offset)) = 0 /\ 0 < PageSize
  BY <1>1, SweepsAssumption
<1>4. offset + 0 = Len(Source)
  BY <1>1, <1>3, PageIs
<1>5. Taken = Len(Source)
  BY <1>1, <1>2, <1>4 DEF Taken
<1> QED BY <1>1, <1>5, SourceIsBehind, NextSourceStep

(* A sweep over the functions is never stopped here: its first page is     *)
(* longer than its budget.                                                 *)
LEMMA StopScanningStep ==
    ASSUME WalkInv, Walk!StopScanning
    PROVE  WalkInv'
<1>1. stage = "fetch" /\ Walk!ScanEnded /\ Walk!End(kind = "vulns")
  BY DEF Walk!StopScanning
<1>2. WalkType /\ RunningInv /\ Cursor \in Spots /\ FoundUpTo(Cursor, found)
  BY <1>1, CursorIs DEF WalkInv, RunningInv
<1>3. ~ Walk!Bounded
  <2> SUFFICES ASSUME Walk!Bounded PROVE FALSE
    OBVIOUS
  <2>1. scanned = 0 /\ pages = 0
    BY <1>1, <1>2 DEF RunningInv, FetchInv, BudgetInv, Taken
  <2> QED BY <1>1, <2>1, SweepsAssumption DEF Walk!ScanEnded
<1>4. Walk!CountsPages /\ pages >= PageCap
  BY <1>1, <1>3 DEF Walk!ScanEnded
<1>5. kind # "vulns" => Walk!CeilingHit
  BY <1>3, <1>4 DEF Walk!CountsPages, Walk!Bounded, Walk!CeilingHit
<1> QED BY <1>1, <1>2, <1>4, <1>5, EndWalk

LEMMA StopBeforeItemStep ==
    ASSUME WalkInv, Walk!StopBeforeItem
    PROVE  WalkInv'
<1>1. stage = "page" /\ Walk!End(TRUE) /\ (Walk!Bounded \/ kind \in {"taint", "crypto"})
  BY DEF Walk!StopBeforeItem
<1>2. Cursor \in Spots /\ FoundUpTo(Cursor, found)
  BY <1>1, CursorIs DEF WalkInv, RunningInv
<1>3. Walk!Bounded \/ ~ Walk!Paged
  BY <1>1 DEF Walk!Bounded, Walk!Paged
<1> QED BY <1>1, <1>2, <1>3, EndWalk

LEMMA TakeItemStep ==
    ASSUME WalkInv, Walk!TakeItem
    PROVE  WalkInv'
<1>1. /\ stage = "page" /\ page # <<>> /\ page' = Tail(page) /\ hits' = Head(page)
      /\ scanned' = scanned + 1 /\ stage' = "item" /\ (Walk!Bounded => scanned < ScanCap)
      /\ UNCHANGED <<kind, repo, limit, source, offset, length, pages, found, cut>>
  BY DEF Walk!TakeItem, Walk!request
<1>2. /\ WalkType /\ RunningInv /\ page \in Seq(Seq(Hits)) /\ offset \in Nat /\ length \in Nat
      /\ scanned \in Nat /\ Taken \in Nat /\ Len(page) <= length
      /\ offset + length <= Len(Source) /\ Source \in Seq(Seq(Hits)) /\ source \in Nat
  <2>1. WalkType /\ RunningInv
    BY <1>1 DEF WalkInv
  <2>2. Taken \in Nat /\ Source \in Seq(Seq(Hits))
    BY <1>1, <2>1, CursorIs
  <2> QED BY <1>1, <2>1, <2>2 DEF WalkType, RunningInv, PageInv
<1>3. /\ Tail(page) \in Seq(Seq(Hits)) /\ Head(page) \in Seq(Hits)
      /\ Len(Tail(page)) = Len(page) - 1 /\ Len(page) \in Nat \ {0}
      /\ Head(page) = page[1] /\ 1 \in DOMAIN page
      /\ \A k \in DOMAIN Tail(page) : k + 1 \in DOMAIN page /\ Tail(page)[k] = page[k + 1] /\ k \in Nat
  BY <1>1, <1>2, HeadAndTail
<1>4. Source' = Source /\ (Walk!Paged' <=> Walk!Paged) /\ (Walk!Bounded' <=> Walk!Bounded)
  BY <1>1 DEF Source, Walk!Paged, Walk!Bounded
<1>5. Taken' = Taken + 1 /\ Taken + 1 <= Len(Source)
  <2>1. Taken = offset + length - Len(page) /\ Taken' = offset + length - Len(Tail(page))
    BY <1>1 DEF Taken
  <2>2. Len(Source) \in Nat
    BY <1>2
  <2> QED BY <1>2, <1>3, <2>1, <2>2
<1>6. Head(page) = Source[Taken + 1]
  BY <1>1, <1>2, <1>3 DEF RunningInv, PageInv
<1>7. Source[Taken + 1] \in Seq(Hits) /\ Len(Source[Taken + 1]) \in Nat
  BY <1>3, <1>6
<1>8. Cursor' = Cursor
  <2>1. Cursor' = <<source, Taken + 1, Len(Source[Taken + 1]) - Len(Head(page)) + 1>>
    BY <1>1, <1>4, <1>5 DEF Cursor
  <2>2. Len(Source[Taken + 1]) - Len(Head(page)) + 1 = 1
    BY <1>6, <1>7
  <2> QED BY <1>1, <2>1, <2>2 DEF Cursor
<1>9. WalkType'
  BY <1>1, <1>2, <1>3 DEF WalkType
<1>10. FetchInv' /\ ItemInv'
  <2>1. PICK v \in Seq(Hits) : v = Source[Taken + 1]
    BY <1>7
  <2>2. hits' = v /\ Source'[Taken'] = v
    BY <1>1, <1>4, <1>5, <1>6, <2>1
  <2>3. Len(v) <= Len(v) /\ \A k \in DOMAIN v : v[k] = v[Len(v) - Len(v) + k]
    OBVIOUS
  <2>4. Taken' > 0
    BY <1>2, <1>5
  <2> QED BY <1>1, <2>2, <2>3, <2>4 DEF FetchInv, ItemInv
<1>11. PageInv'
  <2>1. \A k \in DOMAIN page' : page'[k] = Source[(Taken + 1) + k]
    <3>1. ASSUME NEW k \in DOMAIN Tail(page)
          PROVE  Tail(page)[k] = Source[(Taken + 1) + k]
      <4>1. k + 1 \in DOMAIN page /\ Tail(page)[k] = page[k + 1] /\ k \in Nat
        BY <1>3
      <4>2. page[k + 1] = Source[Taken + (k + 1)]
        BY <1>1, <1>2, <4>1 DEF RunningInv, PageInv
      <4>3. Taken + (k + 1) = (Taken + 1) + k
        BY <1>2, <4>1
      <4> QED BY <4>1, <4>2, <4>3
    <3> QED BY <1>1, <3>1
  <2>2. Len(page') <= length
    BY <1>1, <1>2, <1>3
  <2>3. IF Walk!Paged THEN length < PageSize => offset + length = Len(Source)
        ELSE offset + length = Len(Source)
    BY <1>1, <1>2 DEF RunningInv, PageInv
  <2> QED BY <1>1, <1>2, <1>4, <1>5, <2>1, <2>2, <2>3 DEF PageInv
<1>12. BudgetInv'
  <2>1. scanned = Taken /\ Len(found) <= limit /\ ~ cut /\ (Walk!Bounded => pages = 0)
    BY <1>2 DEF RunningInv, BudgetInv
  <2>2. Walk!Bounded => scanned + 1 <= ScanCap
    BY <1>1, <1>2, SweepsAssumption
  <2>3. kind = "query" => scanned + 1 <= QueryScan
    BY <1>1, <1>2, SweepsAssumption DEF RunningInv, BudgetInv
  <2> QED BY <1>1, <1>4, <1>5, <2>1, <2>2, <2>3 DEF BudgetInv
<1>13. FoundUpTo(Cursor', found')
  BY <1>1, <1>2, <1>8 DEF RunningInv
<1> QED BY <1>1, <1>9, <1>10, <1>11, <1>12, <1>13, RunOn

(* The next hit of the item in hand is the one at the cursor; behind it is *)
(* nothing but what was behind, and it.                                    *)
LEMMA HitInHand ==
    ASSUME WalkInv, stage = "item", hits # <<>>
    PROVE  /\ Head(hits) = Walk!HitAt(Cursor) /\ Head(hits) \in Hits
           /\ Cursor \in Walk!Places
           /\ \A q \in Walk!Places :
                Walk!Before(q, <<Cursor[1], Cursor[2], Cursor[3] + 1>>) <=>
                    Walk!Before(q, Cursor) \/ q = Cursor
<1>1. /\ WalkType /\ RunningInv /\ hits \in Seq(Hits) /\ Taken \in 1 .. Len(Source)
      /\ Source[Taken] \in Seq(Hits) /\ Source = repo[source] /\ Source \in Seq(Seq(Hits))
      /\ source \in 1 .. Len(repo) /\ Cursor \in Spots
  BY CursorIs DEF WalkInv, WalkType
<1>2. PICK n \in Nat, m \in Nat : n = Len(Source[Taken]) /\ m = Len(hits)
  BY <1>1
<1>3. m > 0 /\ m <= n /\ Head(hits) = hits[1] /\ 1 \in DOMAIN hits /\ hits[1] \in Hits
  BY <1>1, <1>2 DEF RunningInv, ItemInv
<1>4. Cursor = <<source, Taken, n - m + 1>> /\ n - m + 1 \in 1 .. n /\ n - m + 1 \in Nat
  BY <1>2, <1>3 DEF Cursor
<1>5. Head(hits) = Walk!HitAt(Cursor)
  <2>1. hits[1] = Source[Taken][n - m + 1]
    BY <1>1, <1>2, <1>3 DEF RunningInv, ItemInv
  <2> QED BY <1>1, <1>3, <1>4, <2>1 DEF Walk!HitAt
<1>6. Cursor \in Walk!Places
  <2>1. Taken \in Nat
    BY <1>1
  <2>2. kind = "query" => Taken <= QueryScan
    BY <1>1 DEF RunningInv, BudgetInv
  <2> QED BY <1>1, <1>2, <1>4, <2>1, <2>2, PlaceIs
<1>7. ASSUME NEW q \in Walk!Places
      PROVE  Walk!Before(q, <<Cursor[1], Cursor[2], Cursor[3] + 1>>) <=>
                Walk!Before(q, Cursor) \/ q = Cursor
  <2>1. PICK a \in Nat, b \in Nat, h \in Nat : q = <<a, b, h>>
    BY <1>1, PlaceIs DEF Spots
  <2>2. PICK x \in Nat, y \in Nat, z \in Nat : Cursor = <<x, y, z>>
    BY <1>1 DEF Spots
  <2> QED BY <2>1, <2>2 DEF Walk!Before
<1> QED BY <1>3, <1>5, <1>6, <1>7

(* What every step within an item keeps.                                   *)
LEMMA WithinItem ==
    ASSUME WalkInv, stage = "item", hits # <<>>, hits' = Tail(hits),
           UNCHANGED <<kind, repo, limit, source, offset, page, length, pages, scanned, cut, stage>>,
           found' \in Seq(Hits), Len(found') <= limit
    PROVE  /\ WalkType' /\ FetchInv' /\ PageInv' /\ ItemInv' /\ BudgetInv'
           /\ Cursor' = <<Cursor[1], Cursor[2], Cursor[3] + 1>>
<1>1. /\ WalkType /\ RunningInv /\ hits \in Seq(Hits) /\ Taken \in 1 .. Len(Source)
      /\ Source[Taken] \in Seq(Hits)
  BY CursorIs DEF WalkInv, WalkType
<1>2. PICK n \in Nat, m \in Nat : n = Len(Source[Taken]) /\ m = Len(hits)
  BY <1>1
<1>3. /\ m > 0 /\ m <= n /\ Tail(hits) \in Seq(Hits) /\ Len(Tail(hits)) = m - 1
      /\ \A k \in DOMAIN Tail(hits) : k \in Nat /\ k + 1 \in DOMAIN hits /\ Tail(hits)[k] = hits[k + 1]
  BY <1>1, <1>2, HeadAndTail DEF RunningInv, ItemInv
<1>4. /\ Source' = Source /\ Taken' = Taken
      /\ Walk!Paged' <=> Walk!Paged
      /\ Walk!Bounded' <=> Walk!Bounded
  BY DEF Source, Taken, Walk!Paged, Walk!Bounded
<1>5. WalkType'
  BY <1>1, <1>3 DEF WalkType
<1>6. FetchInv' /\ PageInv' /\ BudgetInv'
  BY <1>1, <1>4 DEF RunningInv, FetchInv, PageInv, BudgetInv
<1>7. ItemInv'
  <2>1. ASSUME NEW k \in DOMAIN Tail(hits)
        PROVE  Tail(hits)[k] = Source[Taken][n - (m - 1) + k]
    <3>1. hits[k + 1] = Source[Taken][n - m + (k + 1)]
      BY <1>1, <1>2, <1>3 DEF RunningInv, ItemInv
    <3>2. n - m + (k + 1) = n - (m - 1) + k
      BY <1>3
    <3> QED BY <1>3, <3>1, <3>2
  <2>2. Taken > 0 /\ m - 1 <= n
    BY <1>1, <1>3
  <2> QED BY <1>2, <1>3, <1>4, <2>1, <2>2 DEF ItemInv
<1>8. Cursor' = <<Cursor[1], Cursor[2], Cursor[3] + 1>>
  <2>1. Cursor = <<source, Taken, n - m + 1>> /\ Cursor' = <<source, Taken, n - (m - 1) + 1>>
    BY <1>2, <1>3, <1>4 DEF Cursor
  <2>2. n - (m - 1) + 1 = (n - m + 1) + 1
    OBVIOUS
  <2> QED BY <2>1, <2>2
<1> QED BY <1>5, <1>6, <1>7, <1>8

LEMMA TakeHitStep ==
    ASSUME WalkInv, Walk!TakeHit
    PROVE  WalkInv'
<1>1. /\ stage = "item" /\ hits # <<>> /\ ~ (Len(found) >= limit)
      /\ kind = "vulns" => ~ Walk!Contains(found, Head(hits))
      /\ found' = Append(found, Head(hits)) /\ hits' = Tail(hits)
      /\ UNCHANGED <<kind, repo, limit, source, offset, page, length, pages, scanned, cut, stage>>
  BY DEF Walk!TakeHit, Walk!Full, Walk!request
<1>2. WalkType /\ FoundUpTo(Cursor, found) /\ found \in Seq(Hits) /\ limit \in Nat
  BY <1>1 DEF WalkInv, RunningInv, WalkType
<1>3. /\ Head(hits) = Walk!HitAt(Cursor) /\ Head(hits) \in Hits /\ Cursor \in Walk!Places
      /\ \A q \in Walk!Places :
            Walk!Before(q, <<Cursor[1], Cursor[2], Cursor[3] + 1>>) <=>
                Walk!Before(q, Cursor) \/ q = Cursor
  BY <1>1, HitInHand
<1>4. found' \in Seq(Hits) /\ Len(found') <= limit
  BY <1>1, <1>2, <1>3
<1>5. /\ WalkType' /\ FetchInv' /\ PageInv' /\ ItemInv' /\ BudgetInv'
      /\ Cursor' = <<Cursor[1], Cursor[2], Cursor[3] + 1>>
  BY <1>1, <1>4, WithinItem
<1>6. Cursor \in Walk!Due
  <2>1. kind = "vulns" => ~ \E k \in DOMAIN found : found[k] = Walk!HitAt(Cursor)
    <3>1. DOMAIN found = 1 .. Len(found)
      BY <1>2
    <3> QED BY <1>1, <1>3, <3>1 DEF Walk!Contains
  <2> QED BY <1>2, <1>3, <2>1, DueIs
<1>7. FoundUpTo(Cursor', found')
  BY <1>1, <1>2, <1>3, <1>5, <1>6, TakeNext
<1> QED BY <1>1, <1>5, <1>7, RunOn

LEMMA SkipSeenStep ==
    ASSUME WalkInv, Walk!SkipSeen
    PROVE  WalkInv'
<1>1. /\ stage = "item" /\ hits # <<>> /\ kind = "vulns" /\ Walk!Contains(found, Head(hits))
      /\ hits' = Tail(hits)
      /\ UNCHANGED <<kind, repo, limit, source, offset, page, length, pages, scanned, found, cut, stage>>
  BY DEF Walk!SkipSeen, Walk!request
<1>2. WalkType /\ FoundUpTo(Cursor, found) /\ found \in Seq(Hits) /\ Len(found) <= limit
  BY <1>1 DEF WalkInv, RunningInv, WalkType, BudgetInv
<1>3. /\ Head(hits) = Walk!HitAt(Cursor) /\ Cursor \in Walk!Places
      /\ \A q \in Walk!Places :
            Walk!Before(q, <<Cursor[1], Cursor[2], Cursor[3] + 1>>) <=>
                Walk!Before(q, Cursor) \/ q = Cursor
  BY <1>1, HitInHand
<1>4. /\ WalkType' /\ FetchInv' /\ PageInv' /\ ItemInv' /\ BudgetInv'
      /\ Cursor' = <<Cursor[1], Cursor[2], Cursor[3] + 1>>
  BY <1>1, <1>2, WithinItem
<1>5. Cursor \notin Walk!Due
  <2>1. \E k \in DOMAIN found : found[k] = Walk!HitAt(Cursor)
    <3>1. DOMAIN found = 1 .. Len(found)
      BY <1>2
    <3> QED BY <1>1, <1>3, <3>1 DEF Walk!Contains
  <2> QED BY <1>1, <1>2, <1>3, <2>1, DueIs
<1>6. FoundUpTo(Cursor', found')
  BY <1>1, <1>2, <1>3, <1>4, <1>5, SkipNext
<1> QED BY <1>1, <1>4, <1>6, RunOn

LEMMA StopAtHitStep ==
    ASSUME WalkInv, Walk!StopAtHit
    PROVE  WalkInv'
<1>1. /\ stage = "item" /\ hits # <<>>
      /\ kind = "vulns" => ~ Walk!Contains(found, Head(hits))
      /\ Walk!End(kind = "regex" => limit > 0)
  BY DEF Walk!StopAtHit
<1>2. WalkType /\ FoundUpTo(Cursor, found) /\ found \in Seq(Hits) /\ limit \in Nat /\ Cursor \in Spots
  BY <1>1, CursorIs DEF WalkInv, RunningInv, WalkType
<1>3. Head(hits) = Walk!HitAt(Cursor) /\ Cursor \in Walk!Places
  BY <1>1, HitInHand
<1>4. Cursor \in Walk!Due
  <2>1. kind = "vulns" => ~ \E k \in DOMAIN found : found[k] = Walk!HitAt(Cursor)
    <3>1. DOMAIN found = 1 .. Len(found)
      BY <1>2
    <3> QED BY <1>1, <1>3, <3>1 DEF Walk!Contains
  <2> QED BY <1>2, <1>3, <2>1, DueIs
<1>5. ~ (kind = "regex" => limit > 0) => Walk!CeilingHit
  BY <1>2 DEF Walk!CeilingHit
<1> QED BY <1>1, <1>2, <1>4, <1>5, EndWalk

(* After the last hit of an item.                                          *)
LEMMA ItemEndsStep ==
    ASSUME WalkInv, Walk!ItemEnds
    PROVE  WalkInv'
<1>1. stage = "item" /\ hits = <<>>
  BY DEF Walk!ItemEnds
<1>2. /\ WalkType /\ RunningInv /\ Cursor \in Spots /\ FoundUpTo(Cursor, found)
      /\ Taken \in 1 .. Len(Source) /\ Source = repo[source] /\ source \in Nat
      /\ Source[Taken] \in Seq(Hits) /\ Source \in Seq(Seq(Hits))
  BY <1>1, CursorIs DEF WalkInv, RunningInv, WalkType
<1>3. PICK n \in Nat : n = Len(Source[Taken]) /\ Cursor = <<source, Taken, n + 1>>
  <2>1. Len(Source[Taken]) \in Nat /\ Len(Source[Taken]) - 0 + 1 = Len(Source[Taken]) + 1
    BY <1>2
  <2> QED BY <1>1, <2>1 DEF Cursor
<1>4. \A q \in Walk!Places : Walk!Before(q, <<source, Taken + 1, 1>>) <=> Walk!Before(q, Cursor)
  <2> SUFFICES ASSUME NEW q \in Walk!Places
               PROVE  Walk!Before(q, <<source, Taken + 1, 1>>) <=> Walk!Before(q, Cursor)
    OBVIOUS
  <2>1. PICK a \in Nat, b \in Nat, h \in Nat : q = <<a, b, h>>
    BY <1>2, PlaceIs DEF Spots
  <2>2. h >= 1 /\ (a = source /\ b = Taken => h <= n)
    BY <1>2, <1>3, <2>1, PlaceIs
  <2>3. Taken \in Nat
    BY <1>2
  <2> QED BY <1>2, <1>3, <2>1, <2>2, <2>3 DEF Walk!Before
<1>5. CASE kind \in {"strings", "crypto"} /\ Walk!Full
  <2>1. Walk!End(TRUE)
    BY <1>5 DEF Walk!ItemEnds
  <2>2. Walk!Bounded \/ ~ Walk!Paged
    BY <1>5 DEF Walk!Bounded, Walk!Paged
  <2> QED BY <1>1, <1>2, <2>1, <2>2, EndWalk
<1>6. CASE ~ (kind \in {"strings", "crypto"} /\ Walk!Full) /\ kind = "query" /\ scanned >= QueryScan
  <2>1. Walk!NextSource
    BY <1>6 DEF Walk!ItemEnds
  <2>2. Taken = QueryScan
    BY <1>2, <1>6, SweepsAssumption DEF RunningInv, BudgetInv, WalkType
  <2>3. ASSUME NEW q \in Walk!Places, q[1] <= source
        PROVE  Walk!Before(q, Cursor)
    <3>1. PICK a \in Nat, b \in Nat, h \in Nat : q = <<a, b, h>>
      BY <1>2, PlaceIs DEF Spots
    <3>2. a <= source /\ b <= Taken /\ (a = source /\ b = Taken => h <= n)
      BY <1>2, <1>3, <1>6, <2>2, <2>3, <3>1, PlaceIs
    <3>3. Taken \in Nat
      BY <1>2
    <3> QED BY <1>2, <1>3, <3>1, <3>2, <3>3 DEF Walk!Before
  <2> QED BY <1>1, <2>1, <2>3, NextSourceStep
<1>7. CASE ~ (kind \in {"strings", "crypto"} /\ Walk!Full) /\ ~ (kind = "query" /\ scanned >= QueryScan)
  <2>1. /\ stage' = "page"
        /\ UNCHANGED <<kind, repo, limit, source, offset, page, length, pages, scanned, hits, found, cut>>
    BY <1>7 DEF Walk!ItemEnds, Walk!request
  <2>2. /\ Source' = Source /\ Taken' = Taken
        /\ Walk!Paged' <=> Walk!Paged
        /\ Walk!Bounded' <=> Walk!Bounded
    BY <1>1, <2>1 DEF Source, Taken, Walk!Paged, Walk!Bounded
  <2>3. WalkType'
    BY <1>2, <2>1 DEF WalkType
  <2>4. FetchInv' /\ PageInv' /\ ItemInv'
    BY <1>1, <1>2, <2>1, <2>2 DEF RunningInv, FetchInv, PageInv, ItemInv
  <2>5. BudgetInv'
    <3>1. kind = "query" => scanned < QueryScan
      BY <1>2, <1>7, SweepsAssumption DEF WalkType
    <3> QED BY <1>2, <2>1, <2>2, <3>1 DEF RunningInv, BudgetInv
  <2>6. Cursor' = <<source, Taken + 1, 1>>
    BY <2>1, <2>2 DEF Cursor
  <2>7. FoundUpTo(Cursor', found')
    BY <1>2, <1>4, <2>1, <2>6, MoveOn
  <2> QED BY <2>1, <2>3, <2>4, <2>5, <2>7, RunOn
<1> QED BY <1>5, <1>6, <1>7

LEMMA PageEndsStep ==
    ASSUME WalkInv, Walk!PageEnds
    PROVE  WalkInv'
<1>1. stage = "page" /\ page = <<>>
  BY DEF Walk!PageEnds
<1>2. /\ WalkType /\ RunningInv /\ offset \in Nat /\ length \in Nat /\ Len(Source) \in Nat
      /\ offset + length <= Len(Source) /\ scanned = Taken
      /\ IF Walk!Paged THEN length < PageSize => offset + length = Len(Source)
         ELSE offset + length = Len(Source)
  <2>1. WalkType /\ RunningInv /\ stage # "done"
    BY <1>1 DEF WalkInv
  <2>2. Len(Source) \in Nat
    BY <2>1, CursorIs
  <2> QED BY <1>1, <2>1, <2>2 DEF WalkType, RunningInv, PageInv, BudgetInv
<1>3. Taken = offset + length
  <2>1. Len(page) = 0 /\ Taken = offset + length - Len(page)
    BY <1>1 DEF Taken
  <2> QED BY <1>2, <2>1
<1>4. CASE Walk!LastPage
  <2>1. Walk!NextSource
    BY <1>4 DEF Walk!PageEnds
  <2>2. Taken = Len(Source)
    BY <1>2, <1>3, <1>4 DEF Walk!LastPage
  <2> QED BY <1>1, <2>1, <2>2, SourceIsBehind, NextSourceStep
<1>5. CASE ~ Walk!LastPage
  <2>1. /\ offset' = offset + length /\ pages' = pages + 1 /\ stage' = "fetch"
        /\ UNCHANGED <<kind, repo, limit, source, page, length, scanned, hits, found, cut>>
    BY <1>5 DEF Walk!PageEnds, Walk!request
  <2>2. ~ Walk!Bounded /\ Walk!Paged
    <3>1. Walk!Paged
      BY <1>5 DEF Walk!LastPage
    <3>2. ASSUME Walk!Bounded PROVE FALSE
      <4>1. ~ (kind \in {"regex", "lookup"})
        BY <3>2 DEF Walk!Bounded
      <4>2. scanned <= ScanCap
        BY <1>2, <3>2 DEF RunningInv, BudgetInv
      <4>3. length < PageSize
        BY <1>2, <1>3, <4>2, SweepsAssumption
      <4>4. offset + length = Len(Source) /\ Source = repo[source]
        BY <1>2, <3>1, <4>3 DEF Source
      <4>5. offset + PageSize >= Len(Source)
        BY <1>2, <4>3, <4>4, SweepsAssumption
      <4> QED BY <1>5, <4>3, <4>4, <4>5 DEF Walk!LastPage
    <3> QED BY <3>1, <3>2
  <2>3. /\ Source' = Source /\ Taken' = Taken
        /\ Walk!Paged' <=> Walk!Paged
        /\ Walk!Bounded' <=> Walk!Bounded
    BY <1>3, <2>1 DEF Source, Taken, Walk!Paged, Walk!Bounded
  <2>4. WalkType'
    BY <1>2, <2>1 DEF WalkType
  <2>5. FetchInv' /\ PageInv' /\ ItemInv'
    BY <1>2, <2>1, <2>2, <2>3 DEF RunningInv, FetchInv, PageInv, ItemInv
  <2>6. BudgetInv'
    BY <1>1, <1>2, <2>1, <2>2, <2>3 DEF RunningInv, BudgetInv
  <2>7. Cursor' = Cursor
    BY <1>1, <2>1, <2>3 DEF Cursor
  <2>8. FoundUpTo(Cursor', found')
    BY <1>2, <2>1, <2>7 DEF RunningInv
  <2> QED BY <2>1, <2>4, <2>5, <2>6, <2>8, RunOn
<1> QED BY <1>4, <1>5

LEMMA InitWalk == Walk!Init => WalkInv
<1> SUFFICES ASSUME Walk!Init PROVE WalkInv
  OBVIOUS
<1>1. /\ repo \in Repos /\ limit \in Limits /\ source = 1 /\ offset = 0 /\ page = <<>> /\ length = 0
      /\ pages = 0 /\ scanned = 0 /\ hits = <<>> /\ found = <<>> /\ ~ cut /\ stage = "fetch"
  BY DEF Walk!Init
<1>2. repo \in Seq(Seq(Seq(Hits))) /\ repo # <<>> /\ limit \in Nat
  BY <1>1, SweepsAssumption
<1>3. 1 \in 1 .. Len(repo) /\ repo[1] \in Seq(Seq(Hits))
  BY <1>2
<1>4. <<>> \in Seq(Seq(Hits)) /\ <<>> \in Seq(Hits) /\ Len(<<>>) = 0
  OBVIOUS
<1>5. WalkType
  BY <1>1, <1>2, <1>3, <1>4 DEF WalkType
<1>6. Taken = 0 /\ Cursor = <<1, 1, 1>> /\ Source = repo[1] /\ Len(Source) \in Nat
  BY <1>1, <1>3 DEF Taken, Cursor, Source
<1>7. FetchInv /\ PageInv /\ ItemInv
  BY <1>1, <1>6 DEF FetchInv, PageInv, ItemInv
<1>8. BudgetInv
  BY <1>1, <1>2, <1>4, <1>6, SweepsAssumption DEF BudgetInv
<1>9. FoundUpTo(Cursor, found)
  <2>1. ASSUME NEW q \in Walk!Places, Walk!Before(q, <<1, 1, 1>>)
        PROVE  FALSE
    <3>1. q \in Spots /\ q[1] >= 1 /\ q[2] >= 1 /\ q[3] >= 1
      BY <1>5, PlaceIs
    <3> QED BY <2>1, <3>1 DEF Walk!Before, Spots
  <2>2. Behind(Cursor) = {}
    BY <1>6, <2>1 DEF Behind, Walk!Due
  <2>3. Cardinality(Behind(Cursor)) = 0
    BY <2>2, FS_EmptySet
  <2> QED BY <1>1, <1>4, <1>6, <2>1, <2>2, <2>3 DEF FoundUpTo
<1> QED BY <1>1, <1>5, <1>7, <1>8, <1>9 DEF WalkInv, RunningInv

LEMMA QuietWalk ==
    ASSUME WalkInv, UNCHANGED Walk!vars
    PROVE  WalkInv'
<1>1. UNCHANGED <<kind, repo, limit, source, offset, page, length, pages, scanned, hits, found, cut, stage>>
  BY DEF Walk!vars, Walk!request
<1>2. WalkType'
  BY <1>1 DEF WalkInv, WalkType
<1>3. Honest' <=> Honest
  BY <1>1 DEF Honest, Walk!FoundInOrder, Walk!SilentMeansComplete, Walk!TruncatedMeansMore,
              Walk!Complete, Walk!CeilingHit, Walk!Bounded, Walk!Paged,
              Walk!Due, Walk!Places, Walk!Reach, Walk!HitAt, Walk!Nth, Walk!Before
<1>4. /\ Source' = Source /\ Taken' = Taken /\ Cursor' = Cursor
      /\ Walk!Paged' <=> Walk!Paged
      /\ Walk!Bounded' <=> Walk!Bounded
  BY <1>1 DEF Source, Taken, Cursor, Walk!Paged, Walk!Bounded
<1>5. ASSUME stage # "done"
      PROVE  FetchInv' /\ PageInv' /\ ItemInv' /\ BudgetInv' /\ FoundUpTo(Cursor', found')
  BY <1>1, <1>4, <1>5 DEF WalkInv, RunningInv, FetchInv, PageInv, ItemInv, BudgetInv
<1>6. CASE stage = "done"
  BY <1>1, <1>2, <1>3, <1>6 DEF WalkInv
<1>7. CASE stage # "done"
  BY <1>1, <1>2, <1>5, <1>7, RunOn
<1> QED BY <1>6, <1>7

LEMMA NextWalk == WalkInv /\ [Walk!Next]_Walk!vars => WalkInv'
  BY FetchStep, FetchNothingStep, StopScanningStep, StopBeforeItemStep, TakeItemStep, TakeHitStep,
     SkipSeenStep, StopAtHitStep, ItemEndsStep, PageEndsStep, QuietWalk DEF Walk!Next

(* Whatever the repository, the budget and the use case: what a sweep has  *)
(* found is at every moment the beginning of what is in its reach, within  *)
(* the budget; a result that does not say it is truncated has all of it,   *)
(* but for the page ceiling of find_dangerous_callers (lines 71-73); and   *)
(* one that says so has left something out (find_regex.py:39-40).          *)
THEOREM SweepsAreHonest == Walk!Spec => []WalksAreHonest
<1>1. WalkInv => WalksAreHonest
  <2>1. ASSUME WalkInv, stage # "done" PROVE Honest
    <3>1. Walk!FoundInOrder
      BY <2>1, CursorIs, FoundIsBeginning DEF WalkInv, RunningInv, BudgetInv
    <3> QED BY <2>1, <3>1 DEF Honest, Walk!SilentMeansComplete, Walk!TruncatedMeansMore
  <2> QED BY <2>1 DEF WalkInv, Honest, WalksAreHonest
<1> QED BY <1>1, InitWalk, NextWalk, PTL DEF Walk!Spec

-----------------------------------------------------------------------------
(* The open database.                                                      *)

(* The tables have their keys, and an enum its members.                    *)
IsTable(f, S) == f = [x \in S |-> f[x]]

TablesInv ==
    /\ IsTable(marks, 1 .. Slots) /\ IsTable(names, Addrs) /\ IsTable(types, Types)
    /\ \A t \in Types : types[t].members \in Seq(EnumMembers \X {1, 2})

BaseInv == TablesInv /\ Base!StringsFresh /\ Base!NothingTwice

LEMMA InitBase == Base!Init => BaseInv
<1> SUFFICES ASSUME Base!Init PROVE BaseInv
  OBVIOUS
<1>1. IsTable(marks, 1 .. Slots) /\ IsTable(names, Addrs) /\ IsTable(types, Types)
  BY DEF Base!Init, IsTable
<1>2. \A t \in Types : types[t].members = <<>>
  BY DEF Base!Init, Base!Absent
<1>3. \A i, j \in 1 .. Slots : marks[i] = marks[j] /\ marks[i] # None => i = j
  <2>1. PICK s \in 0 .. Slots : marks = [t \in 1 .. Slots |-> IF t = s THEN Base!Origin ELSE None]
    BY DEF Base!Init
  <2>2. \A i \in 1 .. Slots : marks[i] # None => i = s
    BY <2>1
  <2> QED BY <2>2
<1>4. names = [a \in Addrs |-> None] /\ locals = {} /\ cache = None
  BY DEF Base!Init
<1>5. \A t \in Types : DOMAIN types[t].members = {}
  BY <1>2
<1>6. Base!StringsFresh /\ Base!NothingTwice
  BY <1>3, <1>4, <1>5 DEF Base!StringsFresh, Base!NothingTwice
<1>7. <<>> \in Seq(EnumMembers \X {1, 2})
  OBVIOUS
<1> QED BY <1>1, <1>2, <1>6, <1>7 DEF BaseInv, TablesInv

(* How a tool treats the cache.                                            *)
CacheFollows ==
    \/ UNCHANGED <<items, text, cache, stale>>
    \/ cache' = None
    \/ cache' = cache /\ stale' = (stale \/ cache # None)
    \/ cache' = Base!Strings /\ UNCHANGED <<items, text>>

LEMMA FreshStays == Base!StringsFresh /\ CacheFollows => Base!StringsFresh'
  BY DEF Base!StringsFresh, CacheFollows, Base!Strings, Base!Code, Base!Covers, Base!Span

(* Tools that leave the tables alone.                                      *)
LEMMA TablesStay ==
    ASSUME BaseInv, CacheFollows, UNCHANGED <<names, types, marks>>,
           \A l \in locals' : l[1] \in funcs'
    PROVE  BaseInv'
  BY FreshStays DEF BaseInv, TablesInv, IsTable, Base!NothingTwice

LEMMA RefuseBase ==
    ASSUME BaseInv, NEW tool, Base!Refuse(tool)
    PROVE  BaseInv' /\ Base!FailedWithoutTrace
<1>1. UNCHANGED <<items, funcs, text, names, types, locals, marks, notes, cache, stale>>
  BY DEF Base!Refuse, Base!database
<1>2. \A l \in locals' : l[1] \in funcs'
  BY <1>1 DEF BaseInv, Base!NothingTwice
<1> QED BY <1>1, <1>2, TablesStay DEF CacheFollows, Base!FailedWithoutTrace, Base!database

LEMMA SetNameBase ==
    ASSUME BaseInv, NEW a, NEW n, n # None, Base!SetName(a, n)
    PROVE  BaseInv' /\ Base!FailedWithoutTrace
<1>1. CASE Base!Refuse("rename")
  BY <1>1, RefuseBase
<1>2. CASE ~ Base!Refuse("rename")
  <2>1. /\ names' = [names EXCEPT ![a] = n] /\ ~ Base!NameTaken(a, n) /\ last'.ok
        /\ UNCHANGED <<items, funcs, text, types, locals, marks, notes, cache, stale>>
    BY <1>2 DEF Base!SetName, Base!Aside, Base!Accept, Base!Answer
  <2>2. IsTable(names, Addrs)' /\ \A b, c \in Addrs : names'[b] = names'[c] /\ names'[b] # None => b = c
    BY <2>1 DEF IsTable, BaseInv, TablesInv, Base!NothingTwice, Base!NameTaken
  <2>3. Base!StringsFresh'
    BY <2>1, FreshStays DEF CacheFollows, BaseInv
  <2> QED BY <2>1, <2>2, <2>3 DEF BaseInv, TablesInv, Base!NothingTwice, IsTable, Base!FailedWithoutTrace
<1> QED BY <1>1, <1>2

LEMMA PatchBase ==
    ASSUME BaseInv, NEW tool, NEW a, NEW n, NEW isText,
           Base!Accept(tool), Base!PatchBytes(a, n, isText)
    PROVE  BaseInv' /\ Base!FailedWithoutTrace
<1>1. UNCHANGED <<items, funcs, names, types, locals, marks, notes>> /\ cache' = None /\ last'.ok
  BY DEF Base!PatchBytes, Base!Invalidate, Base!Accept, Base!Answer
<1>2. \A l \in locals' : l[1] \in funcs'
  BY <1>1 DEF BaseInv, Base!NothingTwice
<1> QED BY <1>1, <1>2, TablesStay DEF CacheFollows, Base!FailedWithoutTrace

LEMMA DefineItemBase ==
    ASSUME BaseInv, NEW a, NEW n, Base!DefineItem(a, n)
    PROVE  BaseInv' /\ Base!FailedWithoutTrace
<1>1. CASE Base!Refuse("make_data")
  BY <1>1, RefuseBase
<1>2. CASE ~ Base!Refuse("make_data")
  <2>1. /\ locals' = {l \in locals : l[1] \in funcs'}
        /\ UNCHANGED <<text, names, types, marks, notes>>
        /\ \/ last'.ok /\ cache' = None
           \/ /\ last' = [tool |-> "make_data", ok |-> FALSE]
              /\ items' = Base!DelItems(a, n)
              /\ cache' = cache /\ stale' = (stale \/ cache # None)
    BY <1>2 DEF Base!DefineItem, Base!Invalidate, Base!Bypass, Base!Accept, Base!Answer
  <2>2. BaseInv'
    BY <2>1, TablesStay DEF CacheFollows
  <2>3. Base!DelItems(a, n) \subseteq items
    BY DEF Base!DelItems
  <2> QED BY <2>1, <2>2, <2>3 DEF Base!FailedWithoutTrace
<1> QED BY <1>1, <1>2

LEMMA AddFuncBase ==
    ASSUME BaseInv, NEW a, Base!AddFunc(a)
    PROVE  BaseInv' /\ Base!FailedWithoutTrace
<1>1. CASE Base!Refuse("define_func")
  BY <1>1, RefuseBase
<1>2. CASE ~ Base!Refuse("define_func")
  <2>1. /\ UNCHANGED <<text, names, types, locals, marks, notes>> /\ last'.ok
        /\ funcs' = funcs \cup {a} /\ cache' = cache /\ stale' = (stale \/ cache # None)
    BY <1>2 DEF Base!AddFunc, Base!Bypass, Base!Accept, Base!Answer
  <2>2. \A l \in locals' : l[1] \in funcs'
    BY <2>1 DEF BaseInv, Base!NothingTwice
  <2> QED BY <2>1, <2>2, TablesStay DEF CacheFollows, Base!FailedWithoutTrace
<1> QED BY <1>1, <1>2

LEMMA RevertBase ==
    ASSUME BaseInv, NEW a, Base!Revert(a)
    PROVE  BaseInv' /\ Base!FailedWithoutTrace
<1>1. CASE Base!Refuse("undefine")
  BY <1>1, RefuseBase
<1>2. CASE ~ Base!Refuse("undefine")
  <2>1. /\ UNCHANGED <<text, names, types, marks, notes>> /\ last'.ok
        /\ \/ /\ funcs' = funcs \ {a} /\ locals' = {l \in locals : l[1] # a}
              /\ UNCHANGED <<items, cache, stale>>
           \/ /\ UNCHANGED <<funcs, locals>>
              /\ cache' = cache /\ stale' = (stale \/ cache # None)
    BY <1>2 DEF Base!Revert, Base!Aside, Base!Bypass, Base!Accept, Base!Answer
  <2>2. \A l \in locals' : l[1] \in funcs'
    BY <2>1 DEF BaseInv, Base!NothingTwice
  <2>3. CacheFollows
    BY <2>1 DEF CacheFollows
  <2> QED BY <2>1, <2>2, <2>3, TablesStay DEF Base!FailedWithoutTrace
<1> QED BY <1>1, <1>2

LEMMA CreateInsnBase ==
    ASSUME BaseInv, NEW a, Base!CreateInsn(a)
    PROVE  BaseInv' /\ Base!FailedWithoutTrace
<1>1. CASE Base!Refuse("define_code")
  BY <1>1, RefuseBase
<1>2. CASE ~ Base!Refuse("define_code")
  <2>1. /\ UNCHANGED <<funcs, text, names, types, locals, marks, notes>> /\ last'.ok
        /\ cache' = cache /\ stale' = (stale \/ cache # None)
    BY <1>2 DEF Base!CreateInsn, Base!Bypass, Base!Accept, Base!Answer
  <2>2. \A l \in locals' : l[1] \in funcs'
    BY <2>1 DEF BaseInv, Base!NothingTwice
  <2> QED BY <2>1, <2>2, TablesStay DEF CacheFollows, Base!FailedWithoutTrace
<1> QED BY <1>1, <1>2

(* A type that parses is replaced by one without members.                  *)
LEMMA ParseDeclsBase ==
    ASSUME BaseInv, NEW ts, NEW parses, Base!ParseDecls(ts, parses)
    PROVE  BaseInv' /\ Base!FailedWithoutTrace
<1>1. /\ types' = [t \in Types |-> IF t \in ts THEN Base!Struct ELSE types[t]]
      /\ UNCHANGED <<items, funcs, text, names, locals, marks, notes, cache, stale>>
      /\ last' = [tool |-> "declare_type", ok |-> parses]
  BY DEF Base!ParseDecls, Base!Answer, Base!Aside
<1>2. IsTable(types, Types)' /\ \A t \in Types : types'[t].members \in {types[t].members, <<>>}
  BY <1>1 DEF Base!Struct, IsTable
<1>3. Base!StringsFresh'
  BY <1>1, FreshStays DEF CacheFollows, BaseInv
<1>4. Base!NothingTwice'
  BY <1>1, <1>2 DEF BaseInv, Base!NothingTwice
<1>5. \A t \in Types : types'[t].members \in Seq(EnumMembers \X {1, 2})
  <2>1. <<>> \in Seq(EnumMembers \X {1, 2})
    OBVIOUS
  <2> QED BY <1>2, <2>1 DEF BaseInv, TablesInv
<1>6. TablesInv'
  BY <1>1, <1>2, <1>5 DEF BaseInv, TablesInv, IsTable
<1> QED BY <1>1, <1>3, <1>4, <1>6 DEF BaseInv, Base!FailedWithoutTrace

(* The words of the library mean the same in an instance.                  *)
LEMMA FinitelyMany == \A S : Base!IsFiniteSet(S) <=> IsFiniteSet(S)
  BY DEF Base!IsFiniteSet, IsFiniteSet

LEMMA HowMany == ASSUME NEW S PROVE Base!Cardinality(S) = Cardinality(S)
  BY Zenon DEF Base!Cardinality, Cardinality

LEMMA Joined ==
    ASSUME NEW P, NEW s \in Seq(P), NEW t \in Seq(P)
    PROVE  /\ s \o t \in Seq(P) /\ DOMAIN (s \o t) = 1 .. Len(s) + Len(t)
           /\ \A k \in 1 .. Len(s) : (s \o t)[k] = s[k]
           /\ \A k \in 1 .. Len(s) + Len(t) : k \notin 1 .. Len(s) =>
                (s \o t)[k] = t[k - Len(s)] /\ k - Len(s) \in 1 .. Len(t)
<1>1. s \o t \in Seq(P) /\ DOMAIN (s \o t) = 1 .. Len(s) + Len(t)
  OBVIOUS
<1>2. \A k \in 1 .. Len(s) : (s \o t)[k] = s[k]
  OBVIOUS
<1>3. \A k \in 1 .. Len(s) + Len(t) : k \notin 1 .. Len(s) =>
        (s \o t)[k] = t[k - Len(s)] /\ k - Len(s) \in 1 .. Len(t)
  OBVIOUS
<1> QED BY <1>1, <1>2, <1>3

(* The members of an enum are still apart when those of a request have     *)
(* been merged into them.                                                  *)
LEMMA MergedApart ==
    ASSUME NEW enum \in Seq(EnumMembers \X {1, 2}), NEW new \in Base!Listings,
           \A i, j \in DOMAIN enum : enum[i][1] = enum[j][1] => i = j
    PROVE  LET m == Base!Merged(enum, new)
           IN  /\ m \in Seq(EnumMembers \X {1, 2})
               /\ \A i, j \in DOMAIN m : m[i][1] = m[j][1] => i = j
<1> DEFINE old == {enum[k][1] : k \in DOMAIN enum}
           fresh == DOMAIN new \ old
           added == Base!SetToSeq(fresh)
           n == Len(enum)
           kept == [k \in DOMAIN enum |->
                        IF enum[k][1] \in DOMAIN new THEN <<enum[k][1], new[enum[k][1]]>> ELSE enum[k]]
           more == [k \in DOMAIN added |-> <<added[k], new[added[k]]>>]
           c == Cardinality(fresh)
           P == EnumMembers \X {1, 2}
<1>1. PICK D \in SUBSET EnumMembers : IsFiniteSet(D) /\ new \in [D -> {1, 2}]
  BY FinitelyMany DEF Base!Listings
<1>2. IsFiniteSet(fresh) /\ fresh \subseteq EnumMembers
  BY <1>1, FS_Subset
<1>3. c \in Nat /\ added \in [1 .. c -> fresh] /\ \A i, j \in 1 .. c : added[i] = added[j] => i = j
  <2> HIDE DEF fresh
  <2>1. c \in Nat /\ \E f \in [1 .. c -> fresh] : Base!IsInjective(f)
    BY <1>2, FS_CardinalityType
       DEF ExistsBijection, Bijection, Injection, IsInjective, Base!IsInjective
  <2>2. added = CHOOSE f \in [1 .. c -> fresh] : Base!IsInjective(f)
    BY HowMany DEF Base!SetToSeq
  <2>3. added \in [1 .. c -> fresh] /\ Base!IsInjective(added)
    BY <2>1, <2>2
  <2> QED BY <2>1, <2>3 DEF Base!IsInjective
<1> HIDE DEF added, c
<1>4. /\ kept \in [1 .. n -> P] /\ kept \in Seq(P) /\ Len(kept) = n
      /\ \A k \in 1 .. n : kept[k][1] \in old /\ kept[k][1] = enum[k][1]
  <2>1. n \in Nat /\ DOMAIN enum = 1 .. n /\ \A k \in 1 .. n : enum[k] \in P
    OBVIOUS
  <2>2. \A k \in 1 .. n : kept[k] \in P /\ kept[k][1] = enum[k][1]
    BY <1>1, <2>1
  <2> QED BY <2>1, <2>2
<1>5. /\ more \in [1 .. c -> P] /\ more \in Seq(P) /\ Len(more) = c
      /\ \A k \in 1 .. c : more[k][1] \notin old /\ more[k][1] = added[k]
  <2>1. DOMAIN added = 1 .. c /\ \A k \in 1 .. c : added[k] \in fresh
    BY <1>3
  <2>2. \A k \in 1 .. c : more[k] \in P /\ more[k][1] = added[k]
    BY <1>1, <1>2, <2>1
  <2> QED BY <1>3, <2>1, <2>2
<1> DEFINE m == kept \o more
<1>6. Base!Merged(enum, new) = m
  BY DEF Base!Merged, added
<1>7. n \in Nat /\ DOMAIN enum = 1 .. n
  OBVIOUS
<1> HIDE DEF kept, more, old, P, n
<1>8. /\ m \in Seq(P) /\ DOMAIN m = 1 .. n + c
      /\ \A k \in 1 .. n : m[k] = kept[k]
      /\ \A k \in 1 .. n + c : k \notin 1 .. n => m[k] = more[k - n] /\ k - n \in 1 .. c
  <2>1. kept \in Seq(P) /\ more \in Seq(P)
    BY <1>4, <1>5
  <2>2. /\ m \in Seq(P) /\ DOMAIN m = 1 .. Len(kept) + Len(more)
        /\ \A k \in 1 .. Len(kept) : m[k] = kept[k]
        /\ \A k \in 1 .. Len(kept) + Len(more) : k \notin 1 .. Len(kept) =>
                m[k] = more[k - Len(kept)] /\ k - Len(kept) \in 1 .. Len(more)
    BY <2>1, Joined
  <2> HIDE DEF m
  <2> QED BY <1>4, <1>5, <2>2
<1> HIDE DEF m
<1>9. ASSUME NEW i \in DOMAIN m, NEW j \in DOMAIN m, m[i][1] = m[j][1]
      PROVE  i = j
  <2>1. CASE i \in 1 .. n /\ j \in 1 .. n
    BY <1>4, <1>7, <1>8, <1>9, <2>1
  <2>2. CASE i \notin 1 .. n /\ j \notin 1 .. n
    <3>1. i - n \in 1 .. c /\ j - n \in 1 .. c /\ m[i] = more[i - n] /\ m[j] = more[j - n]
      BY <1>7, <1>8, <2>2
    <3>2. i - n = j - n
      BY <1>3, <1>5, <1>9, <3>1
    <3> QED BY <1>3, <1>7, <1>8, <3>2
  <2>3. CASE ~ (i \in 1 .. n <=> j \in 1 .. n)
    BY <1>4, <1>5, <1>8, <1>9, <2>3
  <2> QED BY <2>1, <2>2, <2>3
<1> QED BY <1>6, <1>8, <1>9 DEF P

LEMMA UpsertBase ==
    ASSUME BaseInv, NEW t \in Types, NEW new \in Base!Listings, Base!Upsert(t, new)
    PROVE  BaseInv' /\ Base!FailedWithoutTrace
<1>1. CASE Base!Refuse("enum_upsert")
  BY <1>1, RefuseBase
<1>2. CASE ~ Base!Refuse("enum_upsert")
  <2> DEFINE m == Base!Merged(types[t].members, new)
  <2>1. /\ types' = [types EXCEPT ![t] = [kind |-> "enum", members |-> m]]
        /\ UNCHANGED <<items, funcs, text, names, locals, marks, notes, cache, stale>>
        /\ last'.ok
    BY <1>2 DEF Base!Upsert, Base!Aside, Base!Accept, Base!Answer
  <2>2. /\ m \in Seq(EnumMembers \X {1, 2})
        /\ \A i, j \in DOMAIN m : m[i][1] = m[j][1] => i = j
    BY MergedApart DEF BaseInv, TablesInv, Base!NothingTwice
  <2> HIDE DEF m
  <2>3. IsTable(types, Types)' /\ types'[t].members = m
        /\ \A u \in Types \ {t} : types'[u] = types[u]
    BY <2>1 DEF IsTable, BaseInv, TablesInv
  <2>4. Base!StringsFresh'
    BY <2>1, FreshStays DEF CacheFollows, BaseInv
  <2>5. \A u \in Types : LET w == types'[u].members
                         IN  /\ w \in Seq(EnumMembers \X {1, 2})
                             /\ \A i, j \in DOMAIN w : w[i][1] = w[j][1] => i = j
    BY <2>2, <2>3 DEF BaseInv, TablesInv, Base!NothingTwice
  <2>6. Base!NothingTwice'
    BY <2>1, <2>5 DEF BaseInv, Base!NothingTwice
  <2>7. TablesInv'
    BY <2>1, <2>3, <2>5 DEF BaseInv, TablesInv, IsTable
  <2> QED BY <2>1, <2>4, <2>6, <2>7 DEF BaseInv, Base!FailedWithoutTrace
<1> QED BY <1>1, <1>2

LEMMA DefineVariableBase ==
    ASSUME BaseInv, NEW a, NEW v, Base!DefineVariable(a, v)
    PROVE  BaseInv' /\ Base!FailedWithoutTrace
<1>1. CASE Base!Refuse("declare_stack")
  BY <1>1, RefuseBase
<1>2. CASE ~ Base!Refuse("declare_stack")
  <2>1. /\ locals' = locals \cup Base!Frame(a, v) /\ last'.ok
        /\ UNCHANGED <<items, funcs, text, names, types, marks, notes, cache, stale>>
    BY <1>2 DEF Base!DefineVariable, Base!Aside, Base!Accept, Base!Answer
  <2>2. \A l \in locals' : l[1] \in funcs'
    BY <2>1 DEF BaseInv, Base!NothingTwice, Base!Frame, Base!FuncAt
  <2> QED BY <2>1, <2>2, TablesStay DEF CacheFollows, Base!FailedWithoutTrace
<1> QED BY <1>1, <1>2

LEMMA DeleteVariableBase ==
    ASSUME BaseInv, NEW a, NEW v, Base!DeleteVariable(a, v)
    PROVE  BaseInv' /\ Base!FailedWithoutTrace
<1>1. CASE Base!Refuse("delete_stack")
  BY <1>1, RefuseBase
<1>2. CASE ~ Base!Refuse("delete_stack")
  <2>1. /\ locals' \subseteq locals /\ last'.ok
        /\ UNCHANGED <<items, funcs, text, names, types, marks, notes, cache, stale>>
    BY <1>2 DEF Base!DeleteVariable, Base!Aside, Base!Accept, Base!Answer
  <2>2. \A l \in locals' : l[1] \in funcs'
    BY <2>1 DEF BaseInv, Base!NothingTwice
  <2> QED BY <2>1, <2>2, TablesStay DEF CacheFollows, Base!FailedWithoutTrace
<1> QED BY <1>1, <1>2

LEMMA LeastIs ==
    ASSUME NEW S \in SUBSET Nat, S # {}
    PROVE  Base!Min(S) \in S
<1>1. PICK x \in S : \A y \in S : ~ (<<y, x>> \in OpToRel(<, Nat))
  BY NatLessThanWellFounded, WFMin
<1>2. ASSUME NEW y \in S
      PROVE  x <= y
  <2>1. ~ (<<y, x>> \in OpToRel(<, Nat)) /\ x \in Nat /\ y \in Nat
    BY <1>1
  <2> QED BY <2>1 DEF OpToRel
<1> QED BY <1>2 DEF Base!Min

(* An address is marked where it is marked already, or in a free slot.     *)
LEMMA MarkBase ==
    ASSUME BaseInv, NEW a, a # None, Base!Mark(a)
    PROVE  BaseInv' /\ Base!FailedWithoutTrace
<1>1. CASE Base!Refuse("add_bookmark")
  BY <1>1, RefuseBase
<1>2. CASE ~ Base!Refuse("add_bookmark")
  <2> DEFINE s == Base!Min(Base!SlotFor(a))
  <2>1. /\ marks' = [marks EXCEPT ![s] = a] /\ last'.ok /\ Base!SlotFor(a) # {}
        /\ UNCHANGED <<items, funcs, text, names, types, locals, notes, cache, stale>>
    BY <1>2 DEF Base!Mark, Base!Aside, Base!Accept, Base!Answer
  <2>2. Base!SlotFor(a) \in SUBSET (1 .. Slots) /\ Base!SlotFor(a) \in SUBSET Nat
    BY DatabaseAssumption DEF Base!SlotFor
  <2>3. s \in Base!SlotFor(a)
    BY <2>1, <2>2, LeastIs
  <2> HIDE DEF s
  <2>4. IsTable(marks, 1 .. Slots)'
    BY <2>1, <2>2, <2>3 DEF IsTable, BaseInv, TablesInv
  <2>5. marks'[s] = a /\ \A i \in (1 .. Slots) \ {s} : marks'[i] = marks[i] /\ marks[i] # a
    BY <2>1, <2>2, <2>3 DEF IsTable, BaseInv, TablesInv, Base!NothingTwice, Base!SlotFor
  <2>6. \A i, j \in 1 .. Slots : marks'[i] = marks'[j] /\ marks'[i] # None => i = j
    BY <2>5 DEF BaseInv, Base!NothingTwice
  <2>7. Base!StringsFresh'
    BY <2>1, FreshStays DEF CacheFollows, BaseInv
  <2>8. Base!NothingTwice'
    BY <2>1, <2>6 DEF BaseInv, Base!NothingTwice
  <2>9. TablesInv'
    BY <2>1, <2>4 DEF BaseInv, TablesInv, IsTable
  <2> QED BY <2>1, <2>7, <2>8, <2>9 DEF BaseInv, Base!FailedWithoutTrace
<1> QED BY <1>1, <1>2

(* The tools, each with the guards before its gateway.                     *)
LEMMA ToolBase ==
    ASSUME BaseInv, NEW s
    PROVE  /\ \A n \in Labels \cup {None} : Base!Rename(s, n) => BaseInv' /\ Base!FailedWithoutTrace
           /\ \A n, isText : Base!Patch(s, n, isText) => BaseInv' /\ Base!FailedWithoutTrace
           /\ \A n : Base!PatchAsm(s, n) => BaseInv' /\ Base!FailedWithoutTrace
           /\ \A n : Base!MakeData(s, n) => BaseInv' /\ Base!FailedWithoutTrace
           /\ Base!DefineFunc(s) => BaseInv' /\ Base!FailedWithoutTrace
           /\ Base!DefineCode(s) => BaseInv' /\ Base!FailedWithoutTrace
           /\ Base!Undefine(s) => BaseInv' /\ Base!FailedWithoutTrace
<1>1. ASSUME NEW n \in Labels \cup {None}, Base!Rename(s, n)
      PROVE  BaseInv' /\ Base!FailedWithoutTrace
  <2>1. \/ Base!Refuse("rename")
        \/ n # None /\ Base!SetName(Base!Resolve(s), n)
    BY <1>1 DEF Base!Rename, Base!On
  <2> QED BY <2>1, RefuseBase, SetNameBase
<1>2. ASSUME NEW n, NEW isText, Base!Patch(s, n, isText)
      PROVE  BaseInv' /\ Base!FailedWithoutTrace
  <2>1. \/ Base!Refuse("patch")
        \/ Base!Accept("patch") /\ Base!PatchBytes(Base!Resolve(s), n, isText)
    BY <1>2 DEF Base!Patch, Base!On
  <2> QED BY <2>1, RefuseBase, PatchBase
<1>3. ASSUME NEW n, Base!PatchAsm(s, n)
      PROVE  BaseInv' /\ Base!FailedWithoutTrace
  <2>1. \/ Base!Refuse("patch_asm")
        \/ Base!Accept("patch_asm") /\ Base!PatchBytes(Base!Resolve(s), n, FALSE)
    BY <1>3 DEF Base!PatchAsm, Base!On
  <2> QED BY <2>1, RefuseBase, PatchBase
<1>4. ASSUME NEW n, Base!MakeData(s, n)
      PROVE  BaseInv' /\ Base!FailedWithoutTrace
  <2>1. Base!Refuse("make_data") \/ Base!DefineItem(Base!Resolve(s), n)
    BY <1>4 DEF Base!MakeData, Base!On
  <2> QED BY <2>1, RefuseBase, DefineItemBase
<1>5. ASSUME Base!DefineFunc(s)
      PROVE  BaseInv' /\ Base!FailedWithoutTrace
  <2>1. Base!Refuse("define_func") \/ Base!AddFunc(Base!Resolve(s))
    BY <1>5 DEF Base!DefineFunc, Base!On
  <2> QED BY <2>1, RefuseBase, AddFuncBase
<1>6. ASSUME Base!DefineCode(s)
      PROVE  BaseInv' /\ Base!FailedWithoutTrace
  <2>1. Base!Refuse("define_code") \/ Base!CreateInsn(Base!Resolve(s))
    BY <1>6 DEF Base!DefineCode, Base!On
  <2> QED BY <2>1, RefuseBase, CreateInsnBase
<1>7. ASSUME Base!Undefine(s)
      PROVE  BaseInv' /\ Base!FailedWithoutTrace
  <2>1. Base!Refuse("undefine") \/ Base!Revert(Base!Resolve(s))
    BY <1>7 DEF Base!Undefine, Base!On
  <2> QED BY <2>1, RefuseBase, RevertBase
<1> QED BY <1>1, <1>2, <1>3, <1>4, <1>5, <1>6, <1>7

LEMMA QuietBase ==
    ASSUME BaseInv, UNCHANGED <<items, funcs, text, names, types, locals, marks, cache, stale>>
    PROVE  BaseInv'
<1>1. \A l \in locals' : l[1] \in funcs'
  BY DEF BaseInv, Base!NothingTwice
<1> QED BY <1>1, TablesStay DEF CacheFollows

LEMMA NoteBase ==
    ASSUME BaseInv, NEW tool, NEW a, Base!Note(tool, a)
    PROVE  BaseInv' /\ Base!FailedWithoutTrace
<1>1. UNCHANGED <<items, funcs, text, names, types, locals, marks, cache, stale>> /\ last'.ok
  BY DEF Base!Note, Base!Aside, Base!Accept, Base!Answer
<1> QED BY <1>1, QuietBase DEF Base!FailedWithoutTrace

LEMMA NotingBase ==
    ASSUME BaseInv, NEW s
    PROVE  /\ \A v : Base!DeclareStack(s, v) => BaseInv' /\ Base!FailedWithoutTrace
           /\ \A v : Base!DeleteStack(s, v) => BaseInv' /\ Base!FailedWithoutTrace
           /\ \A b : Base!AddBookmark(s, b) => BaseInv' /\ Base!FailedWithoutTrace
           /\ \A b : Base!SetComment(s, b) => BaseInv' /\ Base!FailedWithoutTrace
           /\ \A b : Base!SetType(s, b) => BaseInv' /\ Base!FailedWithoutTrace
           /\ \A b : Base!SetOpType(s, b) => BaseInv' /\ Base!FailedWithoutTrace
           /\ Base!ForceRecompile(s) => BaseInv' /\ Base!FailedWithoutTrace
<1>1. ASSUME NEW v, Base!DeclareStack(s, v)
      PROVE  BaseInv' /\ Base!FailedWithoutTrace
  <2>1. Base!Refuse("declare_stack") \/ Base!DefineVariable(Base!Resolve(s), v)
    BY <1>1 DEF Base!DeclareStack, Base!On
  <2> QED BY <2>1, RefuseBase, DefineVariableBase
<1>2. ASSUME NEW v, Base!DeleteStack(s, v)
      PROVE  BaseInv' /\ Base!FailedWithoutTrace
  <2>1. Base!Refuse("delete_stack") \/ Base!DeleteVariable(Base!Resolve(s), v)
    BY <1>2 DEF Base!DeleteStack, Base!On
  <2> QED BY <2>1, RefuseBase, DeleteVariableBase
<1>3. ASSUME NEW b, Base!AddBookmark(s, b)
      PROVE  BaseInv' /\ Base!FailedWithoutTrace
  <2>1. \/ Base!Refuse("add_bookmark")
        \/ Base!Resolve(s) # None /\ Base!Mark(Base!Resolve(s))
    BY <1>3 DEF Base!AddBookmark, Base!On
  <2> QED BY <2>1, RefuseBase, MarkBase
<1>4. ASSUME NEW b, Base!SetComment(s, b)
      PROVE  BaseInv' /\ Base!FailedWithoutTrace
  <2>1. Base!Refuse("set_comment") \/ \E a : Base!Note("set_comment", a)
    BY <1>4 DEF Base!SetComment, Base!On, Base!Comment
  <2> QED BY <2>1, RefuseBase, NoteBase
<1>5. ASSUME NEW b, Base!SetType(s, b)
      PROVE  BaseInv' /\ Base!FailedWithoutTrace
  <2>1. Base!Refuse("set_type") \/ \E a : Base!Note("set_type", a)
    BY <1>5 DEF Base!SetType, Base!On, Base!ApplyType
  <2> QED BY <2>1, RefuseBase, NoteBase
<1>6. ASSUME NEW b, Base!SetOpType(s, b)
      PROVE  BaseInv' /\ Base!FailedWithoutTrace
  <2>1. Base!Refuse("set_op_type") \/ \E a : Base!Note("set_op_type", a)
    BY <1>6 DEF Base!SetOpType, Base!On, Base!OperandType
  <2> QED BY <2>1, RefuseBase, NoteBase
<1>7. ASSUME Base!ForceRecompile(s)
      PROVE  BaseInv' /\ Base!FailedWithoutTrace
  <2>1. CASE Base!Refuse("force_recompile")
    BY <2>1, RefuseBase
  <2>2. CASE ~ Base!Refuse("force_recompile")
    <3>1. last'.ok /\ UNCHANGED <<items, funcs, text, names, types, locals, marks, cache, stale>>
      BY <1>7, <2>2 DEF Base!ForceRecompile, Base!On, Base!MarkDirty, Base!database, Base!Aside,
                        Base!Accept, Base!Answer
    <3> QED BY <3>1, QuietBase DEF Base!FailedWithoutTrace
  <2> QED BY <2>1, <2>2
<1> QED BY <1>1, <1>2, <1>3, <1>4, <1>5, <1>6, <1>7

LEMMA DeclareTypeBase ==
    ASSUME BaseInv, NEW ts, NEW parses, Base!DeclareType(ts, parses)
    PROVE  BaseInv' /\ Base!FailedWithoutTrace
  BY RefuseBase, ParseDeclsBase DEF Base!DeclareType

LEMMA EnumUpsertBase ==
    ASSUME BaseInv, NEW t \in Types, NEW new \in Base!Listings, Base!EnumUpsert(t, new)
    PROVE  BaseInv' /\ Base!FailedWithoutTrace
  BY RefuseBase, UpsertBase DEF Base!EnumUpsert

LEMMA ExecPythonBase ==
    ASSUME BaseInv, NEW blank, NEW ends, Base!ExecPython(blank, ends)
    PROVE  BaseInv' /\ Base!FailedWithoutTrace
<1>1. CASE Base!Refuse("exec_python")
  BY <1>1, RefuseBase
<1>2. CASE ~ Base!Refuse("exec_python")
  <2>1. /\ UNCHANGED <<items, funcs, names, types, locals, marks, notes>>
        /\ last' = [tool |-> "exec_python", ok |-> ends]
        /\ cache' = cache /\ stale' = (stale \/ cache # None)
    BY <1>2 DEF Base!ExecPython, Base!RunScript, Base!Bypass, Base!Answer
  <2>2. \A l \in locals' : l[1] \in funcs'
    BY <2>1 DEF BaseInv, Base!NothingTwice
  <2> QED BY <2>1, <2>2, TablesStay DEF CacheFollows, Base!FailedWithoutTrace
<1> QED BY <1>1, <1>2

LEMMA SnapshotBase ==
    ASSUME BaseInv, NEW saves, Base!Snapshot(saves)
    PROVE  BaseInv' /\ Base!FailedWithoutTrace
<1>1. UNCHANGED <<items, funcs, text, names, types, locals, marks, notes, cache, stale>>
  BY DEF Base!Snapshot, Base!database, Base!Aside
<1> QED BY <1>1, QuietBase DEF Base!FailedWithoutTrace, Base!database

LEMMA ListStringsBase ==
    ASSUME BaseInv, Base!ListStrings
    PROVE  BaseInv' /\ Base!FailedWithoutTrace
<1>1. /\ UNCHANGED <<items, funcs, text, names, types, locals, marks, notes>> /\ last'.ok
      /\ cache' = Base!Strings \/ UNCHANGED <<cache, stale>>
  BY DEF Base!ListStrings, Base!Rows, Base!database, Base!Aside, Base!Accept, Base!Answer
<1>2. \A l \in locals' : l[1] \in funcs'
  BY <1>1 DEF BaseInv, Base!NothingTwice
<1> QED BY <1>1, <1>2, TablesStay DEF CacheFollows, Base!FailedWithoutTrace

LEMMA NextBase == BaseInv /\ Base!Next => BaseInv' /\ Base!FailedWithoutTrace
  BY ToolBase, NotingBase, DeclareTypeBase, EnumUpsertBase, ExecPythonBase, SnapshotBase,
     ListStringsBase DEF Base!Next

(* Whatever the database and however many calls of its tools: the strings  *)
(* that list_strings answers are those of the database, unless a tool that *)
(* does not know the cache changed them (strings_cache.py:1-10); no two    *)
(* slots mark one address, no two addresses share a name, an enum has a    *)
(* member once, and every frame variable has its function.                 *)
THEOREM DatabaseStaysSound == Base!Spec => []BaseStaysSound
<1>1. BaseInv /\ [Base!Next]_Base!vars => BaseInv'
  <2>1. ASSUME BaseInv, UNCHANGED Base!vars PROVE BaseInv'
    BY <2>1, QuietBase DEF Base!vars, Base!database
  <2> QED BY <2>1, NextBase
<1>2. BaseInv => BaseStaysSound
  BY DEF BaseInv, BaseStaysSound
<1> QED BY <1>1, <1>2, InitBase, PTL DEF Base!Spec

(* A tool that says that it failed has left the database as it was, but    *)
(* for a script, a declaration that parsed in part and the item make_data  *)
(* clears before it is refused (data_definition_adapter.py:85-88).         *)
THEOREM FailuresLeaveNoTrace == Base!Spec => FailureLeavesNoTrace
<1>1. BaseInv /\ [Base!Next]_Base!vars => BaseInv'
  <2>1. ASSUME BaseInv, UNCHANGED Base!vars PROVE BaseInv'
    BY <2>1, QuietBase DEF Base!vars, Base!database
  <2> QED BY <2>1, NextBase
<1>2. BaseInv /\ [Base!Next]_Base!vars => [part = "base" => Base!FailedWithoutTrace]_baseVars
  BY NextBase DEF Base!vars, Base!database, baseVars
<1> QED BY <1>1, <1>2, InitBase, PTL DEF Base!Spec, FailureLeavesNoTrace
-----------------------------------------------------------------------------
(* Induction over an interval: what holds of its beginning, and of each    *)
(* number after one it holds of, holds of the whole.                       *)
LEMMA Upwards ==
    ASSUME NEW a \in Int, NEW b \in Int, NEW T, a \in T,
           \A i \in a + 1 .. b : i - 1 \in T => i \in T
    PROVE  a .. b \subseteq T
<1> DEFINE gaps == {k \in Nat : a + k \in a .. b /\ a + k \notin T}
<1>1. gaps \in SUBSET Nat
    OBVIOUS
<1>2. ASSUME gaps # {} PROVE FALSE
    <2>1. PICK k \in gaps : \A m \in gaps : ~ (<<m, k>> \in OpToRel(<, Nat))
        <3> HIDE DEF gaps
        <3> QED BY <1>1, <1>2, NatLessThanWellFounded, WFMin
    <2>2. k # 0
        OBVIOUS
    <2>3. a + k \in a + 1 .. b /\ (a + k) - 1 = a + (k - 1) /\ k - 1 \in Nat
        BY <2>2
    <2>4. a + (k - 1) \notin T
        BY <2>3
    <2>5. k - 1 \in gaps
        BY <2>3, <2>4
    <2>6. <<k - 1, k>> \in OpToRel(<, Nat)
        BY <2>3 DEF OpToRel
    <2> QED BY <2>1, <2>5, <2>6
<1>3. ASSUME NEW i \in a .. b, i \notin T PROVE FALSE
    <2>1. i - a \in Nat /\ a + (i - a) = i
        OBVIOUS
    <2>2. i - a \in gaps
        BY <1>3, <2>1
    <2> QED BY <1>2, <2>2
<1> QED BY <1>3

-----------------------------------------------------------------------------
(* The tracing of data flow.  The three tracers are recursive functions of *)
(* an index, and what is known of them is proved by induction over it.     *)

WalkedOn(prog, a, b, seeds, cap, w) ==
    /\ w[a] = Flow!Untraced(seeds)
    /\ \A i \in a + 1 .. b : w[i] = Flow!ForwardVisit(prog, i, cap, w[i - 1])

(* The walk that traces forward: where it begins, and its steps.           *)
LEMMA ForwardWalkIs ==
    ASSUME NEW prog, NEW a \in Int, NEW b \in Int, a <= b, Len(prog) = b, NEW seeds, NEW cap
    PROVE  WalkedOn(prog, a, b, seeds, cap, Flow!ForwardWalk(prog, a, seeds, cap))
<1> DEFINE next(i, w) == IF i = a THEN Flow!Untraced(seeds)
                         ELSE Flow!ForwardVisit(prog, i, cap, w[i - 1])
           Is(w, n) == w = [i \in a .. n |-> next(i, w)]
           T == {n \in Int : \E w : Is(w, n)}
<1>1. a \in T
    <2>1. Is([i \in a .. a |-> Flow!Untraced(seeds)], a)
        OBVIOUS
    <2> QED BY <2>1
<1>2. ASSUME NEW n \in a + 1 .. b, n - 1 \in T PROVE n \in T
    <2>1. PICK w : Is(w, n - 1)
        <3> HIDE DEF Is
        <3> QED BY <1>2
    <2> DEFINE v == [i \in a .. n |-> next(i, w)]
    <2>2. ASSUME NEW i \in a .. n, i # a PROVE v[i - 1] = w[i - 1]
        <3>1. i - 1 \in a .. n - 1 /\ i - 1 \in a .. n
            BY <2>2
        <3> QED BY <2>1, <3>1
    <2>3. Is(v, n)
        BY <2>2
    <2> HIDE DEF Is, v
    <2> QED BY <2>3
<1>3. \E w : Is(w, b)
    <2>1. b \in a .. b
        OBVIOUS
    <2>2. a .. b \subseteq T
        <3> HIDE DEF T
        <3> QED BY <1>1, <1>2, Upwards
    <2> QED BY <2>1, <2>2
<1> DEFINE w == Flow!ForwardWalk(prog, a, seeds, cap)
<1>4. w = [i \in a .. b |-> next(i, w)]
    BY <1>3 DEF Flow!ForwardWalk
<1> HIDE DEF w
<1>5. a \in a .. b /\ \A i \in a + 1 .. b : i \in a .. b /\ i # a
    OBVIOUS
<1>6. WalkedOn(prog, a, b, seeds, cap, w)
    BY <1>4, <1>5 DEF WalkedOn
<1> QED BY <1>6 DEF w

WalkedBack(prog, anchor, seed, cap, w) ==
    /\ w[0] = Flow!Untraced({seed})
    /\ \A k \in 1 .. anchor - 1 : w[k] = Flow!BackwardVisit(prog, anchor - k, cap, w[k - 1])

(* The walk that traces backward: where it begins, and its steps.          *)
LEMMA BackwardWalkIs ==
    ASSUME NEW prog, NEW anchor \in Int, anchor >= 1, NEW seed, NEW cap
    PROVE  WalkedBack(prog, anchor, seed, cap, Flow!BackwardWalk(prog, anchor, seed, cap))
<1>0. PICK b \in Int : b = anchor - 1
    OBVIOUS
<1> DEFINE next(i, w) == IF i = 0 THEN Flow!Untraced({seed})
                         ELSE Flow!BackwardVisit(prog, anchor - i, cap, w[i - 1])
           Is(w, n) == w = [i \in 0 .. n |-> next(i, w)]
           T == {n \in Int : \E w : Is(w, n)}
<1>1. 0 \in T
    <2>1. Is([i \in 0 .. 0 |-> Flow!Untraced({seed})], 0)
        OBVIOUS
    <2> HIDE DEF Is
    <2> QED BY <2>1
<1>2. ASSUME NEW n \in 0 + 1 .. b, n - 1 \in T PROVE n \in T
    <2>1. PICK w : Is(w, n - 1)
        <3> HIDE DEF Is
        <3> QED BY <1>2
    <2> DEFINE v == [i \in 0 .. n |-> next(i, w)]
    <2>2. ASSUME NEW i \in 0 .. n, i # 0 PROVE v[i - 1] = w[i - 1]
        <3>1. i - 1 \in 0 .. n - 1 /\ i - 1 \in 0 .. n
            BY <2>2
        <3> QED BY <2>1, <3>1
    <2>3. Is(v, n)
        BY <2>2
    <2> HIDE DEF Is, v
    <2> QED BY <2>3
<1>3. \E w : Is(w, b)
    <2>1. b \in 0 .. b
        BY <1>0
    <2>2. 0 .. b \subseteq T
        <3> HIDE DEF T
        <3> QED BY <1>1, <1>2, Upwards
    <2> QED BY <2>1, <2>2
<1> DEFINE w == Flow!BackwardWalk(prog, anchor, seed, cap)
<1>4. w = [i \in 0 .. anchor - 1 |-> next(i, w)]
    <2>1. \E v : v = [i \in 0 .. anchor - 1 |-> next(i, v)]
        <3>1. \E v : Is(v, anchor - 1)
            <4> HIDE DEF Is
            <4> QED BY <1>0, <1>3
        <3> HIDE DEF next
        <3> QED BY <3>1
    <2> QED BY <2>1 DEF Flow!BackwardWalk
<1> HIDE DEF w
<1>5. /\ 0 \in 0 .. anchor - 1
      /\ \A k \in 1 .. anchor - 1 : k \in 0 .. anchor - 1 /\ k # 0
    OBVIOUS
<1> HIDE DEF w
<1>6. WalkedBack(prog, anchor, seed, cap, w)
    BY <1>4, <1>5 DEF WalkedBack
<1> QED BY <1>6 DEF w

TaintedOn(prog, a, b, seeds, w) ==
    /\ w[a] = seeds
    /\ \A i \in a + 1 .. b : w[i] = Flow!Propagate(prog[i - 1], w[i - 1])

(* What is tainted: at the beginning, and after each instruction.          *)
LEMMA TaintedIs ==
    ASSUME NEW prog, NEW start \in Int, NEW a \in Int, a = start + 1,
           NEW b \in Int, Len(prog) = b, a <= b, NEW seeds
    PROVE  TaintedOn(prog, a, b, seeds, Flow!Tainted(prog, start, seeds))
<1> DEFINE next(i, w) == IF i = a THEN seeds
                         ELSE Flow!Propagate(prog[i - 1], w[i - 1])
           Is(w, n) == w = [i \in a .. n |-> next(i, w)]
           T == {n \in Int : \E w : Is(w, n)}
<1>1. a \in T
    <2>1. Is([i \in a .. a |-> seeds], a)
        OBVIOUS
    <2> QED BY <2>1
<1>2. ASSUME NEW n \in a + 1 .. b, n - 1 \in T PROVE n \in T
    <2>1. PICK w : Is(w, n - 1)
        <3> HIDE DEF Is
        <3> QED BY <1>2
    <2> DEFINE v == [i \in a .. n |-> next(i, w)]
    <2>2. ASSUME NEW i \in a .. n, i # a PROVE v[i - 1] = w[i - 1]
        <3>1. i - 1 \in a .. n - 1 /\ i - 1 \in a .. n
            BY <2>2
        <3> QED BY <2>1, <3>1
    <2>3. Is(v, n)
        BY <2>2
    <2> HIDE DEF Is, v
    <2> QED BY <2>3
<1>3. \E w : Is(w, b)
    <2>1. b \in a .. b
        OBVIOUS
    <2>2. a .. b \subseteq T
        <3> HIDE DEF T
        <3> QED BY <1>1, <1>2, Upwards
    <2> QED BY <2>1, <2>2
<1> DEFINE w == Flow!Tainted(prog, start, seeds)
<1>4. w = [i \in a .. b |-> next(i, w)]
    BY <1>3 DEF Flow!Tainted
<1> HIDE DEF w
<1>5. a \in a .. b /\ \A i \in a + 1 .. b : i \in a .. b /\ i # a
    OBVIOUS
<1>6. TaintedOn(prog, a, b, seeds, w)
    BY <1>4, <1>5 DEF TaintedOn
<1> QED BY <1>6 DEF w
-----------------------------------------------------------------------------
(* Traces.                                                                 *)

Locs(prog, seeds) == seeds \cup Flow!Places(prog)

Notes == {"propagate", "transform", "use", "redefined", "def"}

Trail(locs) == Seq(Int \X Notes \X SUBSET locs)

Traced(locs) == [tracked : SUBSET locs, steps : Trail(locs), stop : BOOLEAN, truncated : BOOLEAN]

(* A move's destination is written and its source is read.                 *)
LEMMA MovesTouch ==
    ASSUME NEW insn
    PROVE  /\ Flow!MoveDestination(insn) # None => Flow!MoveDestination(insn) \in Flow!Writes(insn)
           /\ Flow!MoveSource(insn) # None => Flow!MoveSource(insn) \in Flow!Reads(insn)
<1>1. ASSUME NEW k, Flow!Operand(insn, k) # None
      PROVE  Flow!Operand(insn, k) \in Flow!Operands(insn)
    BY <1>1 DEF Flow!Operand, Flow!Operands
<1> QED BY <1>1 DEF Flow!MoveDestination, Flow!MoveSource, Flow!Writes, Flow!Reads, Flow!Named

(* What a program writes to and moves from are among its places.           *)
LEMMA MovesThroughPlaces ==
    ASSUME NEW prog, NEW i \in DOMAIN prog
    PROVE  /\ {Flow!MoveDestination(prog[i])} \ {None} \subseteq Flow!Places(prog)
           /\ {Flow!MoveSource(prog[i])} \ {None} \subseteq Flow!Places(prog)
           /\ Flow!Writes(prog[i]) \subseteq Flow!Places(prog)
BY MovesTouch DEF Flow!Places

(* One more step leaves the earlier ones as they were.                     *)
LEMMA TrailGrows ==
    ASSUME NEW locs, NEW s \in Trail(locs), NEW i \in Int, NEW note \in Notes, NEW S \in SUBSET locs
    PROVE  /\ Append(s, <<i, note, S>>) \in Trail(locs)
           /\ Len(Append(s, <<i, note, S>>)) = Len(s) + 1
           /\ \A c \in 0 .. Len(s) : SubSeq(Append(s, <<i, note, S>>), 1, c) = SubSeq(s, 1, c)
<1> DEFINE e == <<i, note, S>>
           E == Int \X Notes \X SUBSET locs
<1>1. e \in E
    OBVIOUS
<1> HIDE DEF e, E
<1>2. s \in Seq(E)
    BY DEF Trail, E
<1> QED BY <1>1, <1>2 DEF Trail, e, E

Touches(insn, locs) == locs \cap (Flow!Reads(insn) \cup Flow!Writes(insn)) # {}

OneStep(locs, w, v) ==
    /\ v \in Traced(locs) /\ v.stop = w.stop /\ v.truncated = w.truncated
    /\ Len(v.steps) \in {Len(w.steps), Len(w.steps) + 1}
    /\ \A c \in 0 .. Len(w.steps) : SubSeq(v.steps, 1, c) = SubSeq(w.steps, 1, c)

ForwardOneStep(locs, insn, w, v) ==
    /\ OneStep(locs, w, v)
    /\ Touches(insn, w.tracked) => Len(v.steps) = Len(w.steps) + 1
    /\ ~ Touches(insn, w.tracked) => v = w

(* An instruction adds one step to the trace or leaves it alone, and a     *)
(* forward trace is left alone by those that touch nothing it follows.     *)
LEMMA StepIsOne ==
    ASSUME NEW prog, NEW locs, Flow!Places(prog) \subseteq locs,
           NEW i \in DOMAIN prog, i \in Int, NEW w \in Traced(locs)
    PROVE  /\ ForwardOneStep(locs, prog[i], w, Flow!ForwardStep(prog[i], i, w))
           /\ OneStep(locs, w, Flow!BackwardStep(prog[i], i, w))
<1> DEFINE dest == Flow!MoveDestination(prog[i])
           followed == {Flow!MoveSource(prog[i])} \ {None}
           written == w.tracked \cap Flow!Writes(prog[i])
           noted(note, S, T) == Flow!Noted(w, i, note, S, T)
           F == Flow!ForwardStep(prog[i], i, w)
           B == Flow!BackwardStep(prog[i], i, w)
<1>0. {"propagate", "transform", "use", "redefined", "def"} \subseteq Notes
    BY DEF Notes
<1>1. w.tracked \in SUBSET locs /\ w.steps \in Trail(locs) /\ Len(w.steps) \in Nat
    BY DEF Traced, Trail
<1>2. ASSUME NEW note \in Notes, NEW S \in SUBSET locs, NEW T \in SUBSET locs
      PROVE  /\ noted(note, S, T) \in Traced(locs)
             /\ noted(note, S, T).stop = w.stop /\ noted(note, S, T).truncated = w.truncated
             /\ Len(noted(note, S, T).steps) = Len(w.steps) + 1
             /\ \A c \in 0 .. Len(w.steps) : SubSeq(noted(note, S, T).steps, 1, c) = SubSeq(w.steps, 1, c)
    <2> DEFINE e == Append(w.steps, <<i, note, S>>)
    <2>1. e \in Trail(locs)
        BY <1>1, TrailGrows
    <2> HIDE DEF e
    <2>2. /\ noted(note, S, T).steps = e
          /\ noted(note, S, T).stop = w.stop /\ noted(note, S, T).truncated = w.truncated
          /\ noted(note, S, T) \in Traced(locs)
        BY <2>1 DEF Flow!Noted, Traced, e
    <2> HIDE DEF noted
    <2> QED BY <1>1, <2>2, TrailGrows DEF e
<1>3. dest # None => {dest} \in SUBSET locs
    BY MovesThroughPlaces
<1>4. followed \in SUBSET locs /\ written \in SUBSET locs
    BY <1>1, MovesThroughPlaces
<1> DEFINE Longer(v) == \E note \in Notes, S \in SUBSET locs, T \in SUBSET locs :
                            v = Flow!Noted(w, i, note, S, T)
           touched == w.tracked \cap Flow!Reads(prog[i])
<1>5. IF w.tracked \cap (Flow!Reads(prog[i]) \cup Flow!Writes(prog[i])) = {}
      THEN F = w ELSE Longer(F)
    <2>1. CASE touched # {} /\ dest # None /\ dest \notin w.tracked
        <3>1. F = Flow!Noted(w, i, "propagate", {dest}, w.tracked \cup {dest})
            BY <2>1 DEF Flow!ForwardStep
        <3>2. w.tracked \cup {dest} \in SUBSET locs /\ {dest} \in SUBSET locs
            BY <1>1, <1>3, <2>1
        <3> HIDE DEF F, dest
        <3>3. Longer(F)
            BY <1>0, <3>1, <3>2
        <3> QED BY <2>1, <3>3
    <2>2. CASE touched # {} /\ ~ (dest # None /\ dest \notin w.tracked)
        <3>1. \E note \in Notes : F = Flow!Noted(w, i, note, {}, w.tracked)
            <4>1. CASE written # {}
                <5>1. F = Flow!Noted(w, i, "transform", {}, w.tracked)
                    BY <2>2, <4>1 DEF Flow!ForwardStep
                <5> QED BY <1>0, <5>1
            <4>2. CASE written = {}
                <5>1. F = Flow!Noted(w, i, "use", {}, w.tracked)
                    BY <2>2, <4>2 DEF Flow!ForwardStep
                <5> QED BY <1>0, <5>1
            <4> QED BY <4>1, <4>2
        <3> HIDE DEF F
        <3>2. Longer(F)
            BY <1>1, <3>1
        <3> QED BY <2>2, <3>2
    <2>3. CASE touched = {} /\ written # {}
        <3>1. F = Flow!Noted(w, i, "redefined", written, w.tracked \ written)
            BY <2>3 DEF Flow!ForwardStep
        <3>2. w.tracked \ written \in SUBSET locs
            BY <1>1
        <3> HIDE DEF F, written
        <3>3. Longer(F)
            BY <1>0, <1>4, <3>1, <3>2
        <3> QED BY <2>3, <3>3 DEF written
    <2>4. CASE touched = {} /\ written = {}
        BY <2>4 DEF Flow!ForwardStep
    <2> QED BY <2>1, <2>2, <2>3, <2>4
<1>6. B = w \/ Longer(B)
    <2>1. B = w \/ B = Flow!Noted(w, i, "def", followed, (w.tracked \ written) \cup followed)
        BY DEF Flow!BackwardStep
    <2>2. (w.tracked \ written) \cup followed \in SUBSET locs
        BY <1>1, <1>4
    <2> HIDE DEF B, followed, written
    <2> QED BY <1>0, <1>4, <2>1, <2>2
<1>7. \A v : Longer(v) =>
        /\ v \in Traced(locs)
        /\ v.stop = w.stop /\ v.truncated = w.truncated
        /\ Len(v.steps) = Len(w.steps) + 1
        /\ \A c \in 0 .. Len(w.steps) : SubSeq(v.steps, 1, c) = SubSeq(w.steps, 1, c)
    <2> SUFFICES ASSUME NEW v, NEW note \in Notes, NEW S \in SUBSET locs, NEW T \in SUBSET locs,
                        v = noted(note, S, T)
                 PROVE  /\ v \in Traced(locs)
                        /\ v.stop = w.stop /\ v.truncated = w.truncated
                        /\ Len(v.steps) = Len(w.steps) + 1
                        /\ \A c \in 0 .. Len(w.steps) : SubSeq(v.steps, 1, c) = SubSeq(w.steps, 1, c)
        OBVIOUS
    <2> HIDE DEF noted
    <2> QED BY <1>2
<1> HIDE DEF F, B, Longer
<1>8. \A v : v = w \/ Longer(v) => OneStep(locs, w, v)
    BY <1>1, <1>7 DEF OneStep
<1>9. IF w.tracked \cap (Flow!Reads(prog[i]) \cup Flow!Writes(prog[i])) = {}
      THEN F = w ELSE Len(F.steps) = Len(w.steps) + 1
    BY <1>5, <1>7
<1> QED BY <1>5, <1>6, <1>8, <1>9 DEF F, B, Touches, ForwardOneStep

(* The smaller of two numbers.                                             *)
LEMMA MinOfTwo ==
    ASSUME NEW x \in Int, NEW y \in Int
    PROVE  Flow!Min({x, y}) = IF x <= y THEN x ELSE y
BY DEF Flow!Min

(* A trace at its beginning.                                               *)
LEMMA UntracedIs ==
    ASSUME NEW locs, NEW seeds \in SUBSET locs
    PROVE  /\ Flow!Untraced(seeds) \in Traced(locs)
           /\ Flow!Untraced(seeds).tracked = seeds
           /\ Len(Flow!Untraced(seeds).steps) = 0
           /\ ~ Flow!Untraced(seeds).stop /\ ~ Flow!Untraced(seeds).truncated
BY DEF Flow!Untraced, Traced, Trail

(* A trace h that was never cut and the trace c that may keep cap steps,   *)
(* after the same instructions: as long as c is not cut they are equal,    *)
(* and then it is the beginning of h.                                      *)
CutOf(locs, cap, c, h) ==
    /\ c \in Traced(locs) /\ h \in Traced(locs)
    /\ ~ h.stop /\ ~ h.truncated
    /\ ~ c.stop => c = h /\ Len(h.steps) <= cap
    /\ c.stop => Len(h.steps) >= cap /\ c.steps = SubSeq(h.steps, 1, cap)

(* A cut forward trace says whether the whole one went on, or would in     *)
(* what is left of the program.                                            *)
TellsOfMore(prog, i, cap, c, h) == c.stop =>
    /\ Len(h.steps) = cap => c.tracked = h.tracked
    /\ c.truncated <=> Len(h.steps) > cap \/ Flow!HasMore(prog, i, c.tracked)

(* The steps of a trace, and how many of them a beginning has.             *)
LEMMA TrailLength ==
    ASSUME NEW locs, NEW w \in Traced(locs)
    PROVE  /\ Len(w.steps) \in Nat
           /\ \A n \in 0 .. Len(w.steps) : Len(SubSeq(w.steps, 1, n)) = n
           /\ SubSeq(w.steps, 1, Len(w.steps)) = w.steps
<1>1. w.steps \in Trail(locs)
    BY DEF Traced
<1>2. /\ Len(w.steps) \in Nat
      /\ \A n \in 0 .. Len(w.steps) : Len(SubSeq(w.steps, 1, n)) = n
      /\ SubSeq(w.steps, 1, Len(w.steps)) = w.steps
    BY <1>1 DEF Trail
<1> QED BY <1>2

Stopped(locs, more, w, v) ==
    /\ v \in Traced(locs) /\ v.stop /\ v.truncated = more
    /\ v.steps = w.steps /\ v.tracked = w.tracked

(* A trace that is stopped keeps what it has found.                        *)
LEMMA StopKeeps ==
    ASSUME NEW locs, NEW w \in Traced(locs), NEW more \in BOOLEAN, NEW v,
           v = [w EXCEPT !.stop = TRUE, !.truncated = more]
    PROVE  Stopped(locs, more, w, v)
BY DEF Traced, Stopped

(* What is left of a program is one instruction and what is left after it. *)
LEMMA HasMoreHereOrLater ==
    ASSUME NEW prog, Len(prog) \in Nat, NEW i \in Int, i <= Len(prog), NEW tracked
    PROVE  Flow!HasMore(prog, i, tracked) <=>
                \/ Touches(prog[i], tracked)
                \/ Flow!HasMore(prog, i + 1, tracked)
<1>1. i .. Len(prog) = {i} \cup (i + 1 .. Len(prog))
    OBVIOUS
<1> QED BY <1>1 DEF Flow!HasMore, Touches

(* A cut forward trace stays the beginning of the whole one.               *)
LEMMA ForwardCutStep ==
    ASSUME NEW prog, Len(prog) \in Nat, DOMAIN prog = 1 .. Len(prog),
           NEW locs, Flow!Places(prog) \subseteq locs,
           NEW i \in 1 .. Len(prog), NEW cap \in Nat, NEW c, NEW h,
           CutOf(locs, cap, c, h), TellsOfMore(prog, i, cap, c, h), Len(h.steps) < Len(prog)
    PROVE  LET d == Flow!ForwardVisit(prog, i, cap, c)
               g == Flow!ForwardVisit(prog, i, Len(prog), h)
           IN  /\ CutOf(locs, cap, d, g) /\ TellsOfMore(prog, i + 1, cap, d, g)
               /\ Len(g.steps) <= Len(h.steps) + 1
<1> SUFFICES ASSUME NEW d, d = Flow!ForwardVisit(prog, i, cap, c),
                    NEW g, g = Flow!ForwardVisit(prog, i, Len(prog), h)
             PROVE  /\ CutOf(locs, cap, d, g) /\ TellsOfMore(prog, i + 1, cap, d, g)
                    /\ Len(g.steps) <= Len(h.steps) + 1
    OBVIOUS
<1>1. c \in Traced(locs) /\ h \in Traced(locs)
    BY DEF CutOf
<1>2. Len(h.steps) \in Nat
    BY <1>1, TrailLength
<1>3. g = Flow!ForwardStep(prog[i], i, h)
    BY <1>2 DEF CutOf, Flow!ForwardVisit
<1>4. /\ g \in Traced(locs) /\ ~ g.stop /\ ~ g.truncated
      /\ Len(g.steps) \in {Len(h.steps), Len(h.steps) + 1}
      /\ \A n \in 0 .. Len(h.steps) : SubSeq(g.steps, 1, n) = SubSeq(h.steps, 1, n)
      /\ IF Touches(prog[i], h.tracked) THEN Len(g.steps) = Len(h.steps) + 1 ELSE g = h
    <2>1. i \in DOMAIN prog /\ i \in Int /\ ~ h.stop /\ ~ h.truncated
        BY DEF CutOf
    <2>2. ForwardOneStep(locs, prog[i], h, g)
        BY <1>1, <1>3, <2>1, StepIsOne
    <2> QED BY <2>1, <2>2 DEF OneStep, ForwardOneStep
<1>5. CASE c.stop
    <2>1. d = c
        BY <1>5 DEF Flow!ForwardVisit
    <2>2. CutOf(locs, cap, d, g)
        BY <1>1, <1>2, <1>4, <1>5, <2>1 DEF CutOf
    <2>3. ASSUME Len(g.steps) = cap PROVE c.tracked = g.tracked
        BY <1>2, <1>4, <1>5, <2>3 DEF CutOf, TellsOfMore
    <2>4. c.truncated <=> Len(g.steps) > cap \/ Flow!HasMore(prog, i + 1, c.tracked)
        <3>1. CASE Len(h.steps) > cap
            BY <1>2, <1>4, <1>5, <3>1 DEF TellsOfMore
        <3>2. CASE Len(h.steps) = cap
            <4>1. c.tracked = h.tracked
                BY <1>5, <3>2 DEF TellsOfMore
            <4> QED BY <1>2, <1>4, <1>5, <3>2, <4>1, HasMoreHereOrLater DEF TellsOfMore
        <3> QED BY <1>2, <1>5, <3>1, <3>2 DEF CutOf
    <2> QED BY <1>2, <1>4, <2>1, <2>2, <2>3, <2>4 DEF TellsOfMore
<1>6. CASE ~ c.stop /\ Len(c.steps) >= cap
    <2>1. c = h /\ Len(h.steps) = cap
        BY <1>2, <1>6 DEF CutOf
    <2>2. d = [h EXCEPT !.stop = TRUE, !.truncated = Flow!HasMore(prog, i, h.tracked)]
        BY <1>6, <2>1 DEF Flow!ForwardVisit
    <2>3. Flow!HasMore(prog, i, h.tracked) \in BOOLEAN
        BY DEF Flow!HasMore
    <2>4. /\ d \in Traced(locs) /\ d.stop /\ d.steps = h.steps /\ d.tracked = h.tracked
          /\ d.truncated = Flow!HasMore(prog, i, h.tracked)
        <3>1. Stopped(locs, Flow!HasMore(prog, i, h.tracked), h, d)
            BY <1>1, <2>2, <2>3, StopKeeps
        <3> QED BY <3>1 DEF Stopped
    <2>5. CutOf(locs, cap, d, g)
        <3>0. SubSeq(h.steps, 1, Len(h.steps)) = h.steps
            BY <1>1, TrailLength
        <3>1. cap \in 0 .. Len(h.steps) /\ h.steps = SubSeq(h.steps, 1, cap)
            BY <1>2, <2>1, <3>0
        <3>2. Len(g.steps) >= cap /\ h.steps = SubSeq(g.steps, 1, cap)
            BY <1>2, <1>4, <2>1, <3>1
        <3> QED BY <1>4, <2>4, <3>2 DEF CutOf
    <2>6. TellsOfMore(prog, i + 1, cap, d, g)
        <3>1. d.truncated <=> Touches(prog[i], h.tracked) \/ Flow!HasMore(prog, i + 1, h.tracked)
            BY <2>4, HasMoreHereOrLater
        <3>2. Touches(prog[i], h.tracked) <=> Len(g.steps) > cap
            BY <1>2, <1>4, <2>1
        <3>3. Len(g.steps) = cap => g = h
            BY <1>2, <1>4, <2>1
        <3> QED BY <2>4, <3>1, <3>2, <3>3 DEF TellsOfMore
    <2> QED BY <1>2, <1>4, <2>5, <2>6
<1>7. CASE ~ c.stop /\ Len(c.steps) < cap
    <2>1. c = h
        BY <1>7 DEF CutOf
    <2>2. d = g
        BY <1>1, <1>2, <1>3, <1>7, <2>1 DEF Flow!ForwardVisit
    <2>3. Len(c.steps) = Len(h.steps) /\ Len(g.steps) <= cap /\ ~ d.stop
        BY <1>2, <1>4, <1>7, <2>1, <2>2
    <2> QED BY <1>2, <1>4, <2>2, <2>3 DEF CutOf, TellsOfMore
<1>8. Len(c.steps) \in Nat
    BY <1>1, TrailLength
<1> QED BY <1>5, <1>6, <1>7, <1>8

(* And so does a cut backward trace.                                       *)
LEMMA BackwardCutStep ==
    ASSUME NEW prog, Len(prog) \in Nat, DOMAIN prog = 1 .. Len(prog),
           NEW locs, Flow!Places(prog) \subseteq locs,
           NEW i \in 1 .. Len(prog), NEW cap \in Nat, NEW c, NEW h,
           CutOf(locs, cap, c, h), c.stop => c.truncated, Len(h.steps) < Len(prog)
    PROVE  LET d == Flow!BackwardVisit(prog, i, cap, c)
               g == Flow!BackwardVisit(prog, i, Len(prog), h)
           IN  /\ CutOf(locs, cap, d, g) /\ (d.stop => d.truncated)
               /\ Len(g.steps) <= Len(h.steps) + 1
<1> SUFFICES ASSUME NEW d, d = Flow!BackwardVisit(prog, i, cap, c),
                    NEW g, g = Flow!BackwardVisit(prog, i, Len(prog), h)
             PROVE  /\ CutOf(locs, cap, d, g) /\ (d.stop => d.truncated)
                    /\ Len(g.steps) <= Len(h.steps) + 1
    OBVIOUS
<1>1. c \in Traced(locs) /\ h \in Traced(locs)
    BY DEF CutOf
<1>2. Len(h.steps) \in Nat
    BY <1>1, TrailLength
<1>3. g = Flow!BackwardStep(prog[i], i, h)
    BY <1>2 DEF CutOf, Flow!BackwardVisit
<1>4. /\ g \in Traced(locs) /\ ~ g.stop /\ ~ g.truncated
      /\ Len(g.steps) \in {Len(h.steps), Len(h.steps) + 1}
      /\ \A n \in 0 .. Len(h.steps) : SubSeq(g.steps, 1, n) = SubSeq(h.steps, 1, n)
    <2>1. i \in DOMAIN prog /\ i \in Int /\ ~ h.stop /\ ~ h.truncated
        BY DEF CutOf
    <2>2. OneStep(locs, h, g)
        BY <1>1, <1>3, <2>1, StepIsOne
    <2> QED BY <2>1, <2>2 DEF OneStep
<1>5. CASE c.stop
    <2>1. d = c
        BY <1>5 DEF Flow!BackwardVisit
    <2> QED BY <1>1, <1>2, <1>4, <1>5, <2>1 DEF CutOf
<1>6. CASE ~ c.stop /\ Len(c.steps) >= cap
    <2>1. c = h /\ Len(h.steps) = cap
        BY <1>2, <1>6 DEF CutOf
    <2>2. d = [h EXCEPT !.stop = TRUE, !.truncated = TRUE]
        BY <1>6, <2>1 DEF Flow!BackwardVisit
    <2>3. d \in Traced(locs) /\ d.stop /\ d.truncated /\ d.steps = h.steps
        <3>1. Stopped(locs, TRUE, h, d)
            BY <1>1, <2>2, StopKeeps
        <3> QED BY <3>1 DEF Stopped
    <2>4. CutOf(locs, cap, d, g)
        <3>0. SubSeq(h.steps, 1, Len(h.steps)) = h.steps
            BY <1>1, TrailLength
        <3>1. cap \in 0 .. Len(h.steps) /\ h.steps = SubSeq(h.steps, 1, cap)
            BY <1>2, <2>1, <3>0
        <3>2. Len(g.steps) >= cap /\ h.steps = SubSeq(g.steps, 1, cap)
            BY <1>2, <1>4, <2>1, <3>1
        <3> QED BY <1>4, <2>3, <3>2 DEF CutOf
    <2> QED BY <1>2, <1>4, <2>3, <2>4
<1>7. CASE ~ c.stop /\ Len(c.steps) < cap
    <2>1. c = h
        BY <1>7 DEF CutOf
    <2>2. d = g
        BY <1>1, <1>2, <1>3, <1>7, <2>1 DEF Flow!BackwardVisit
    <2>3. Len(c.steps) = Len(h.steps) /\ Len(g.steps) <= cap /\ ~ d.stop
        BY <1>2, <1>4, <1>7, <2>1, <2>2
    <2> QED BY <1>2, <1>4, <2>2, <2>3 DEF CutOf
<1>8. Len(c.steps) \in Nat
    BY <1>1, TrailLength
<1> QED BY <1>5, <1>6, <1>7, <1>8

(* A forward trace that keeps some of its steps, and the one that keeps    *)
(* all.                                                                    *)
LEMMA ForwardIsCut ==
    ASSUME NEW prog \in Seq(Insns), NEW anchor \in DOMAIN prog, NEW seeds, NEW cap \in Nat
    PROVE  LET c == Flow!Forward(prog, anchor, seeds, cap)
               h == Flow!Forward(prog, anchor, seeds, Len(prog))
           IN  /\ CutOf(Locs(prog, seeds), cap, c, h)
               /\ TellsOfMore(prog, Len(prog) + 1, cap, c, h)
<1> DEFINE locs == Locs(prog, seeds)
           C == Flow!ForwardWalk(prog, anchor, seeds, cap)
           H == Flow!ForwardWalk(prog, anchor, seeds, Len(prog))
           T == {i \in anchor .. Len(prog) :
                    /\ CutOf(locs, cap, C[i], H[i]) /\ TellsOfMore(prog, i + 1, cap, C[i], H[i])
                    /\ Len(H[i].steps) <= i - anchor}
<1>1. Len(prog) \in Nat /\ DOMAIN prog = 1 .. Len(prog) /\ anchor \in Int
    OBVIOUS
<1>2. /\ C[anchor] = Flow!Untraced(seeds) /\ H[anchor] = Flow!Untraced(seeds)
      /\ \A i \in anchor + 1 .. Len(prog) :
            /\ C[i] = Flow!ForwardVisit(prog, i, cap, C[i - 1])
            /\ H[i] = Flow!ForwardVisit(prog, i, Len(prog), H[i - 1])
    <2>1. anchor <= Len(prog)
        BY <1>1
    <2>2. WalkedOn(prog, anchor, Len(prog), seeds, cap, C)
        BY <1>1, <2>1, ForwardWalkIs
    <2>3. WalkedOn(prog, anchor, Len(prog), seeds, Len(prog), H)
        BY <1>1, <2>1, ForwardWalkIs
    <2> HIDE DEF C, H
    <2> QED BY <2>2, <2>3 DEF WalkedOn
<1> HIDE DEF C, H
<1>3. anchor \in T
    <2>1. seeds \in SUBSET locs
        BY DEF Locs
    <2> HIDE DEF locs
    <2>2. H[anchor] \in Traced(locs) /\ Len(H[anchor].steps) = 0 /\ ~ H[anchor].stop /\ ~ H[anchor].truncated
        BY <1>2, <2>1, UntracedIs
    <2>3. C[anchor] = H[anchor]
        BY <1>2
    <2>4. CutOf(locs, cap, C[anchor], H[anchor]) /\ TellsOfMore(prog, anchor + 1, cap, C[anchor], H[anchor])
        BY <2>2, <2>3 DEF CutOf, TellsOfMore
    <2> QED BY <1>1, <2>2, <2>4
<1>4. ASSUME NEW i \in anchor + 1 .. Len(prog), i - 1 \in T PROVE i \in T
    <2> HIDE DEF locs
    <2>1. /\ CutOf(locs, cap, C[i - 1], H[i - 1]) /\ TellsOfMore(prog, i, cap, C[i - 1], H[i - 1])
          /\ Len(H[i - 1].steps) <= i - 1 - anchor /\ Len(H[i - 1].steps) \in Nat
        <3>1. (i - 1) + 1 = i
            OBVIOUS
        <3> QED BY <1>4, <3>1, TrailLength DEF CutOf
    <2>2. Len(H[i - 1].steps) < Len(prog) /\ i \in 1 .. Len(prog)
        BY <1>1, <2>1
    <2>3. Flow!Places(prog) \subseteq locs
        BY DEF Locs, locs
    <2>4. /\ CutOf(locs, cap, C[i], H[i]) /\ TellsOfMore(prog, i + 1, cap, C[i], H[i])
          /\ Len(H[i].steps) <= Len(H[i - 1].steps) + 1
        <3>1. PICK c, h : c = C[i - 1] /\ h = H[i - 1]
            OBVIOUS
        <3>2. C[i] = Flow!ForwardVisit(prog, i, cap, c) /\ H[i] = Flow!ForwardVisit(prog, i, Len(prog), h)
            BY <1>2, <3>1
        <3>3. CutOf(locs, cap, c, h) /\ TellsOfMore(prog, i, cap, c, h) /\ Len(h.steps) < Len(prog)
            BY <2>1, <2>2, <3>1
        <3> QED BY <1>1, <2>2, <2>3, <3>1, <3>2, <3>3, ForwardCutStep
    <2>5. Len(H[i].steps) \in Nat
        BY <2>4, TrailLength DEF CutOf
    <2>6. Len(H[i].steps) <= i - anchor
        <3>1. PICK m \in Nat, n \in Nat : m = Len(H[i].steps) /\ n = Len(H[i - 1].steps)
            BY <2>1, <2>5
        <3>2. m <= n + 1 /\ n <= i - 1 - anchor
            BY <2>1, <2>4, <3>1
        <3> QED BY <1>1, <3>1, <3>2
    <2> QED BY <1>1, <2>4, <2>6
<1>5. Len(prog) \in T
    <2>1. anchor .. Len(prog) \subseteq T
        <3> HIDE DEF T
        <3>1. \A i \in anchor + 1 .. Len(prog) : i - 1 \in T => i \in T
            BY <1>4
        <3>2. \A n \in Int : (\A i \in anchor + 1 .. n : i - 1 \in T => i \in T) => anchor .. n \subseteq T
            BY ONLY <1>1, <1>3, Upwards
        <3> QED BY <1>1, <3>1, <3>2
    <2>2. Len(prog) \in anchor .. Len(prog)
        BY <1>1
    <2> QED BY <2>1, <2>2
<1> QED BY <1>5 DEF Flow!Forward, C, H

(* The same of the backward traces.                                        *)
LEMMA BackwardIsCut ==
    ASSUME NEW prog \in Seq(Insns), NEW anchor \in DOMAIN prog, NEW seed, NEW cap \in Nat
    PROVE  LET c == Flow!Backward(prog, anchor, seed, cap)
               h == Flow!Backward(prog, anchor, seed, Len(prog))
           IN  CutOf(Locs(prog, {seed}), cap, c, h) /\ (c.stop => c.truncated)
<1> DEFINE locs == Locs(prog, {seed})
           C == Flow!BackwardWalk(prog, anchor, seed, cap)
           H == Flow!BackwardWalk(prog, anchor, seed, Len(prog))
<1>0. PICK b \in Nat : b = anchor - 1
    OBVIOUS
<1> DEFINE T == {k \in 0 .. b : /\ CutOf(locs, cap, C[k], H[k]) /\ (C[k].stop => C[k].truncated)
                                /\ Len(H[k].steps) <= k}
<1>1. Len(prog) \in Nat /\ DOMAIN prog = 1 .. Len(prog) /\ anchor \in Int
    OBVIOUS
<1>2. /\ C[0] = Flow!Untraced({seed}) /\ H[0] = Flow!Untraced({seed})
      /\ \A k \in 1 .. b :
            /\ C[k] = Flow!BackwardVisit(prog, anchor - k, cap, C[k - 1])
            /\ H[k] = Flow!BackwardVisit(prog, anchor - k, Len(prog), H[k - 1])
    <2> anchor >= 1
        BY <1>1
    <2>1. WalkedBack(prog, anchor, seed, cap, C)
        BY <1>1, BackwardWalkIs
    <2>2. WalkedBack(prog, anchor, seed, Len(prog), H)
        BY <1>1, BackwardWalkIs
    <2> HIDE DEF C, H
    <2> QED BY <1>0, <2>1, <2>2 DEF WalkedBack
<1> HIDE DEF C, H
<1>3. 0 \in T
    <2>1. {seed} \in SUBSET locs
        BY DEF Locs
    <2> HIDE DEF locs
    <2>2. H[0] \in Traced(locs) /\ Len(H[0].steps) = 0 /\ ~ H[0].stop /\ ~ H[0].truncated
        BY <1>2, <2>1, UntracedIs
    <2>3. C[0] = H[0]
        BY <1>2
    <2>4. CutOf(locs, cap, C[0], H[0])
        BY <2>2, <2>3 DEF CutOf
    <2> QED BY <1>1, <2>2, <2>3, <2>4
<1>4. ASSUME NEW k \in 0 + 1 .. b, k - 1 \in T PROVE k \in T
    <2> HIDE DEF locs
    <2>1. /\ CutOf(locs, cap, C[k - 1], H[k - 1]) /\ (C[k - 1].stop => C[k - 1].truncated)
          /\ Len(H[k - 1].steps) <= k - 1 /\ Len(H[k - 1].steps) \in Nat
        BY <1>4, TrailLength DEF CutOf
    <2>2. Len(H[k - 1].steps) < Len(prog) /\ anchor - k \in 1 .. Len(prog)
        BY <1>0, <1>1, <2>1
    <2>3. Flow!Places(prog) \subseteq locs
        BY DEF Locs, locs
    <2>4. /\ CutOf(locs, cap, C[k], H[k]) /\ (C[k].stop => C[k].truncated)
          /\ Len(H[k].steps) <= Len(H[k - 1].steps) + 1
        <3>1. k \in 1 .. b
            OBVIOUS
        <3>2. PICK i \in 1 .. Len(prog) : i = anchor - k
            BY <2>2
        <3>3. /\ C[k] = Flow!BackwardVisit(prog, i, cap, C[k - 1])
              /\ H[k] = Flow!BackwardVisit(prog, i, Len(prog), H[k - 1])
            BY <1>2, <3>1, <3>2
        <3>4. PICK c, h : c = C[k - 1] /\ h = H[k - 1]
            OBVIOUS
        <3>5. CutOf(locs, cap, c, h) /\ (c.stop => c.truncated) /\ Len(h.steps) < Len(prog)
            BY <2>1, <2>2, <3>4
        <3> QED BY <1>1, <2>3, <3>3, <3>4, <3>5, BackwardCutStep
    <2>5. Len(H[k].steps) \in Nat
        BY <2>4, TrailLength DEF CutOf
    <2> QED BY <1>1, <2>1, <2>4, <2>5
<1>5. b \in T
    <2>1. 0 .. b \subseteq T
        <3> HIDE DEF T
        <3>1. \A k \in 0 + 1 .. b : k - 1 \in T => k \in T
            BY <1>4
        <3> QED BY ONLY <1>1, <1>3, <3>1, Upwards
    <2>2. b \in 0 .. b
        BY <1>1
    <2> HIDE DEF T
    <2> QED BY <2>1, <2>2
<1> QED BY <1>0, <1>5 DEF Flow!Backward, C, H

Begins(cap, c, h) ==
    /\ c.steps = SubSeq(h.steps, 1, Flow!Min({cap, Len(h.steps)}))
    /\ Len(c.steps) < Len(h.steps) => c.stop
    /\ c.stop => Len(c.steps) = cap
    /\ c.truncated => c.stop
    /\ Len(c.steps) \in Nat /\ Len(h.steps) \in Nat

(* What a cut trace keeps and how it says so, in the terms of Trace.       *)
LEMMA CutSays ==
    ASSUME NEW locs, NEW cap \in Nat, NEW c, NEW h, CutOf(locs, cap, c, h)
    PROVE  Begins(cap, c, h)
<1>1. /\ Len(h.steps) \in Nat /\ Len(c.steps) \in Nat
      /\ \A n \in 0 .. Len(h.steps) : Len(SubSeq(h.steps, 1, n)) = n
      /\ SubSeq(h.steps, 1, Len(h.steps)) = h.steps
    BY TrailLength DEF CutOf
<1>2. Flow!Min({cap, Len(h.steps)}) = IF cap <= Len(h.steps) THEN cap ELSE Len(h.steps)
    BY <1>1, MinOfTwo
<1>3. CASE c.stop
    <2>1. Len(h.steps) >= cap /\ c.steps = SubSeq(h.steps, 1, cap)
        BY <1>3 DEF CutOf
    <2>2. Flow!Min({cap, Len(h.steps)}) = cap /\ cap \in 0 .. Len(h.steps)
        BY <1>1, <1>2, <2>1
    <2> QED BY <1>1, <1>3, <2>1, <2>2 DEF Begins
<1>4. CASE ~ c.stop
    <2>1. c = h /\ Len(h.steps) <= cap /\ ~ c.truncated
        BY <1>4 DEF CutOf
    <2>2. Flow!Min({cap, Len(h.steps)}) = Len(h.steps)
        BY <1>1, <1>2, <2>1
    <2> QED BY <1>1, <1>4, <2>1, <2>2 DEF Begins
<1> QED BY <1>3, <1>4

(* A cut trace is the beginning of the whole one and says that it is cut.  *)
LEMMA CutsAreTold ==
    ASSUME NEW prog \in Seq(Insns), NEW start \in DOMAIN prog, NEW operand, NEW cap \in Int
    PROVE  Flow!CutWhereItSays(prog, start, operand, cap)
<1> DEFINE o == Flow!Operand(prog[start], operand)
           seed == IF o = None THEN None ELSE Flow!Location(o)
           m == Flow!Clamp(cap, Len(prog))
           Says(direction) ==
              LET c == Flow!Trace(prog, start, operand, direction, cap, Len(prog))
                  whole == Flow!Trace(prog, start, operand, direction, Len(prog), Len(prog))
              IN  /\ c.steps = SubSeq(whole.steps, 1, Flow!Min({m, Len(whole.steps)}))
                  /\ Len(c.steps) < Len(whole.steps) => c.truncated
                  /\ c.truncated /\ direction = "forward" => Len(c.steps) < Len(whole.steps)
<1>1. Len(prog) \in Nat /\ m \in Nat /\ Flow!Clamp(Len(prog), Len(prog)) = Len(prog)
    BY DEF Flow!Clamp
<1> HIDE DEF m
<1>2. CASE seed = None
    <2>1. \A direction, n : Flow!Trace(prog, start, operand, direction, n, Len(prog)) = Flow!Untraced({})
        BY <1>2 DEF Flow!Trace
    <2>2. Flow!Untraced({}).steps = <<>> /\ ~ Flow!Untraced({}).truncated
        BY DEF Flow!Untraced
    <2>3. SubSeq(<<>>, 1, Flow!Min({m, 0})) = <<>>
        <3>1. Flow!Min({m, 0}) = 0
            BY <1>1, MinOfTwo
        <3>2. SubSeq(<<>>, 1, 0) = <<>>
            OBVIOUS
        <3> QED BY <3>1, <3>2
    <2>4. Len(<<>>) = 0
        OBVIOUS
    <2>5. PICK u : u = Flow!Untraced({})
        OBVIOUS
    <2>6. /\ u.steps = SubSeq(u.steps, 1, Flow!Min({m, Len(u.steps)}))
          /\ ~ (Len(u.steps) < Len(u.steps))
          /\ ~ u.truncated
        <3>1. u.steps = <<>> /\ ~ u.truncated
            BY <2>2, <2>5
        <3>2. u.steps = SubSeq(u.steps, 1, Flow!Min({m, Len(u.steps)}))
            BY <2>3, <2>4, <3>1
        <3>3. Len(u.steps) = 0
            BY <2>4, <3>1
        <3>4. ~ (Len(u.steps) < Len(u.steps))
            BY <3>3
        <3> QED BY <3>1, <3>2, <3>4
    <2>7. \A direction : Says(direction)
        <3>1. \A direction, n : Flow!Trace(prog, start, operand, direction, n, Len(prog)) = u
            BY <2>1, <2>5
        <3> QED BY <2>6, <3>1
    <2> QED BY <2>7 DEF Flow!CutWhereItSays, m
<1>3. CASE seed # None
    <2>1. /\ Flow!Trace(prog, start, operand, "backward", cap, Len(prog)) = Flow!Backward(prog, start, seed, m)
          /\ Flow!Trace(prog, start, operand, "backward", Len(prog), Len(prog))
                = Flow!Backward(prog, start, seed, Len(prog))
          /\ Flow!Trace(prog, start, operand, "forward", cap, Len(prog)) = Flow!Forward(prog, start, {seed}, m)
          /\ Flow!Trace(prog, start, operand, "forward", Len(prog), Len(prog))
                = Flow!Forward(prog, start, {seed}, Len(prog))
        BY <1>1, <1>3 DEF Flow!Trace, m
    <2> HIDE DEF seed
    <2>2. Says("backward")
        <3>1. PICK c, h : /\ c = Flow!Backward(prog, start, seed, m)
                          /\ h = Flow!Backward(prog, start, seed, Len(prog))
            OBVIOUS
        <3>2. CutOf(Locs(prog, {seed}), m, c, h) /\ (c.stop => c.truncated)
            BY <1>1, <3>1, BackwardIsCut
        <3>3. /\ c.steps = SubSeq(h.steps, 1, Flow!Min({m, Len(h.steps)}))
              /\ Len(c.steps) < Len(h.steps) => c.truncated
            <4>1. Begins(m, c, h)
                BY <1>1, <3>2, CutSays
            <4> QED BY <3>2, <4>1 DEF Begins
        <3> QED BY <2>1, <3>1, <3>3
    <2>3. Says("forward")
        <3>1. PICK c, h : /\ c = Flow!Forward(prog, start, {seed}, m)
                          /\ h = Flow!Forward(prog, start, {seed}, Len(prog))
            OBVIOUS
        <3>2. CutOf(Locs(prog, {seed}), m, c, h) /\ TellsOfMore(prog, Len(prog) + 1, m, c, h)
            BY <1>1, <3>1, ForwardIsCut
        <3>3. /\ c.steps = SubSeq(h.steps, 1, Flow!Min({m, Len(h.steps)}))
              /\ Len(c.steps) < Len(h.steps) => c.stop
              /\ c.stop => Len(c.steps) = m
              /\ c.truncated => c.stop
              /\ Len(c.steps) \in Nat /\ Len(h.steps) \in Nat
            BY <1>1, <3>2, CutSays DEF Begins
        <3>4. ~ Flow!HasMore(prog, Len(prog) + 1, c.tracked)
            <4>1. Len(prog) + 1 .. Len(prog) = {}
                BY <1>1
            <4> QED BY <4>1 DEF Flow!HasMore
        <3>5. /\ Len(c.steps) < Len(h.steps) => c.truncated
              /\ c.truncated => Len(c.steps) < Len(h.steps)
            BY <1>1, <3>2, <3>3, <3>4 DEF TellsOfMore
        <3> QED BY <2>1, <3>1, <3>3, <3>5
    <2> QED BY <2>2, <2>3 DEF Flow!CutWhereItSays, m
<1> QED BY <1>2, <1>3

(* Calls and zeroing idioms apart, the definition tracer follows a value   *)
(* over an instruction as the taint tracer does.                           *)
LEMMA StepPropagates ==
    ASSUME NEW locs, NEW w \in Traced(locs), NEW i,
           NEW insn, insn.mn # "call", ~ Flow!IsZeroing(insn)
    PROVE  Flow!ForwardStep(insn, i, w).tracked = Flow!Propagate(insn, w.tracked)
<1> DEFINE dest == Flow!MoveDestination(insn)
           touched == w.tracked \cap Flow!Reads(insn)
           written == w.tracked \cap Flow!Writes(insn)
           F == Flow!ForwardStep(insn, i, w)
<1>1. \A note, S, T : Flow!Noted(w, i, note, S, T).tracked = T
    BY DEF Flow!Noted, Traced
<1>2. CASE touched # {}
    <2>1. Flow!Propagate(insn, w.tracked) = w.tracked \cup ({dest} \ {None})
        BY <1>2 DEF Flow!Propagate
    <2>2. CASE dest # None /\ dest \notin w.tracked
        <3>1. F = Flow!Noted(w, i, "propagate", {dest}, w.tracked \cup {dest})
            BY <1>2, <2>2 DEF Flow!ForwardStep
        <3> HIDE DEF F, dest
        <3>2. F.tracked = w.tracked \cup {dest}
            BY <1>1, <3>1
        <3> QED BY <2>1, <2>2, <3>2 DEF F
    <2>3. CASE ~ (dest # None /\ dest \notin w.tracked)
        <3>1. \E note : F = Flow!Noted(w, i, note, {}, w.tracked)
            <4>1. CASE written # {}
                <5>1. F = Flow!Noted(w, i, "transform", {}, w.tracked)
                    BY <1>2, <2>3, <4>1 DEF Flow!ForwardStep
                <5> QED BY <5>1
            <4>2. CASE written = {}
                <5>1. F = Flow!Noted(w, i, "use", {}, w.tracked)
                    BY <1>2, <2>3, <4>2 DEF Flow!ForwardStep
                <5> QED BY <5>1
            <4> QED BY <4>1, <4>2
        <3> HIDE DEF F, dest
        <3>2. F.tracked = w.tracked
            BY <1>1, <3>1
        <3>3. w.tracked \cup ({dest} \ {None}) = w.tracked
            BY <2>3
        <3> QED BY <2>1, <3>2, <3>3 DEF F
    <2> QED BY <2>2, <2>3
<1>3. CASE touched = {}
    <2>1. Flow!Propagate(insn, w.tracked) = w.tracked \ Flow!Writes(insn)
        BY <1>3 DEF Flow!Propagate
    <2>2. CASE written # {}
        <3>1. F = Flow!Noted(w, i, "redefined", written, w.tracked \ written)
            BY <1>3, <2>2 DEF Flow!ForwardStep
        <3>2. F.tracked = w.tracked \ written
            <4> HIDE DEF F, written
            <4> QED BY <1>1, <3>1
        <3>3. w.tracked \ written = w.tracked \ Flow!Writes(insn)
            OBVIOUS
        <3> QED BY <2>1, <3>2, <3>3
    <2>3. CASE written = {}
        <3>1. F = w
            BY <1>3, <2>3 DEF Flow!ForwardStep
        <3>2. w.tracked = w.tracked \ Flow!Writes(insn)
            BY <2>3
        <3> QED BY <2>1, <3>1, <3>2
    <2> QED BY <2>2, <2>3
<1> QED BY <1>2, <1>3

(* Without calls and zeroing idioms, what an uncut forward trace follows   *)
(* is what is tainted.                                                     *)
LEMMA ForwardIsTainted ==
    ASSUME NEW prog \in Seq(Insns), Flow!Plain(prog), NEW start \in DOMAIN prog, NEW seeds,
           NEW i \in start + 1 .. Len(prog)
    PROVE  Flow!Forward(SubSeq(prog, 1, i - 1), start, seeds, Flow!Uncapped(prog)).tracked
                = Flow!Tainted(prog, start, seeds)[i]
<1>1. PICK n \in Nat, a \in Nat, b \in Nat, cap \in Nat :
            n = i - 1 /\ a = start + 1 /\ b = Len(prog) /\ cap = Flow!Uncapped(prog)
    <2>1. i - 1 \in Nat /\ start + 1 \in Nat /\ Len(prog) \in Nat /\ Flow!Uncapped(prog) \in Nat
        BY DEF Flow!Uncapped
    <2> QED BY <2>1
<1>2. start \in 1 .. n /\ n < b /\ cap = b + 1 /\ i = n + 1
    BY <1>1 DEF Flow!Uncapped
<1>3. PICK p : p = SubSeq(prog, 1, n)
    OBVIOUS
<1>4. p \in Seq(Insns) /\ Len(p) = n /\ DOMAIN p = 1 .. n /\ \A j \in 1 .. n : p[j] = prog[j]
    BY <1>1, <1>2, <1>3
<1> DEFINE locs == Locs(p, seeds)
           W == Flow!ForwardWalk(p, start, seeds, cap)
           B == Flow!Tainted(prog, start, seeds)
           T == {j \in start .. n : /\ W[j] \in Traced(locs) /\ ~ W[j].stop
                                    /\ Len(W[j].steps) <= j - start
                                    /\ W[j].tracked = B[j + 1]}
<1>5. /\ W[start] = Flow!Untraced(seeds)
      /\ \A j \in start + 1 .. n : W[j] = Flow!ForwardVisit(p, j, cap, W[j - 1])
    <2>1. WalkedOn(p, start, n, seeds, cap, W)
        BY <1>2, <1>4, ForwardWalkIs
    <2> HIDE DEF W
    <2> QED BY <2>1 DEF WalkedOn
<1>6. /\ B[start + 1] = seeds
      /\ \A j \in start + 1 .. n : B[j + 1] = Flow!Propagate(prog[j], B[j])
    <2>1. TaintedOn(prog, a, b, seeds, B)
        BY <1>1, <1>2, TaintedIs
    <2> HIDE DEF B
    <2>2. \A j \in start + 1 .. n : j + 1 \in a + 1 .. b /\ (j + 1) - 1 = j
        BY <1>1, <1>2
    <2> QED BY <1>1, <2>1, <2>2 DEF TaintedOn
<1> HIDE DEF W, B
<1>7. start \in T
    <2>1. seeds \in SUBSET locs
        BY DEF Locs
    <2> HIDE DEF locs
    <2>2. /\ W[start] \in Traced(locs) /\ ~ W[start].stop
          /\ Len(W[start].steps) = 0 /\ W[start].tracked = seeds
        BY <1>5, <2>1, UntracedIs
    <2> QED BY <1>2, <1>6, <2>2
<1>8. ASSUME NEW j \in start + 1 .. n, j - 1 \in T PROVE j \in T
    <2>1. Flow!Places(p) \subseteq locs
        BY DEF Locs
    <2> HIDE DEF locs
    <2>2. PICK w : w = W[j - 1]
        OBVIOUS
    <2>3. /\ w \in Traced(locs) /\ ~ w.stop /\ Len(w.steps) <= (j - 1) - start
          /\ w.tracked = B[(j - 1) + 1] /\ Len(w.steps) \in Nat
        BY <1>8, <2>2, TrailLength
    <2>4. j \in 1 .. n /\ p[j] = prog[j] /\ Len(w.steps) < cap
        BY <1>2, <1>4, <2>3
    <2>5. W[j] = Flow!ForwardStep(p[j], j, w)
        <3>1. W[j] = Flow!ForwardVisit(p, j, cap, w)
            BY <1>5, <2>2
        <3>2. ~ (Len(w.steps) >= cap)
            BY <2>3, <2>4
        <3> QED BY <2>3, <3>1, <3>2 DEF Flow!ForwardVisit
    <2>6. ForwardOneStep(locs, p[j], w, W[j])
        <3>1. j \in DOMAIN p /\ j \in Int
            BY <1>4, <2>4
        <3> QED BY <2>1, <2>3, <2>5, <3>1, StepIsOne
    <2>7. p[j].mn # "call" /\ ~ Flow!IsZeroing(p[j])
        BY <1>2, <1>4, <2>4 DEF Flow!Plain
    <2>8. W[j].tracked = Flow!Propagate(prog[j], B[j])
        <3>1. w.tracked = B[j]
            BY <1>2, <2>3
        <3>2. W[j].tracked = Flow!Propagate(p[j], w.tracked)
            BY <2>3, <2>5, <2>7, StepPropagates
        <3> QED BY <2>4, <3>1, <3>2
    <2>9. W[j] \in Traced(locs) /\ ~ W[j].stop /\ Len(W[j].steps) <= j - start
        <3>1. W[j] \in Traced(locs) /\ ~ W[j].stop /\ Len(W[j].steps) <= Len(w.steps) + 1
            BY <2>3, <2>6 DEF OneStep, ForwardOneStep
        <3>2. Len(W[j].steps) \in Nat
            BY <3>1, TrailLength
        <3>3. PICK m \in Nat, o \in Nat : m = Len(W[j].steps) /\ o = Len(w.steps)
            BY <2>3, <3>2
        <3>4. m <= o + 1 /\ o <= (j - 1) - start
            BY <2>3, <3>1, <3>3
        <3> QED BY <1>2, <3>1, <3>3, <3>4
    <2>10. W[j].tracked = B[j + 1]
        <3>1. B[j + 1] = Flow!Propagate(prog[j], B[j])
            BY <1>6
        <3> QED BY <2>8, <3>1
    <2> QED BY <1>2, <2>9, <2>10
<1>9. n \in T
    <2>1. start .. n \subseteq T
        <3> HIDE DEF T
        <3>1. \A j \in start + 1 .. n : j - 1 \in T => j \in T
            BY <1>8
        <3>2. start \in Int /\ n \in Int
            BY <1>2
        <3> QED BY ONLY <1>7, <3>1, <3>2, Upwards
    <2>2. n \in start .. n
        BY <1>2
    <2> HIDE DEF T
    <2> QED BY <2>1, <2>2
<1>10. W[n].tracked = B[i]
    BY <1>2, <1>9
<1> QED BY <1>1, <1>3, <1>4, <1>10 DEF Flow!Forward, W, B

(* What reaches an instruction is what is tainted before it.               *)
ReachedAt(prog, start, seeds, i) ==
    LET reach == Flow!ForwardReach(prog, start, seeds, Len(prog))
    IN  IF i \in DOMAIN reach THEN reach[i] ELSE {}

LEMMA ReachIsTainted ==
    ASSUME NEW prog \in Seq(Insns), NEW start \in Nat, NEW seeds, NEW i \in start + 1 .. Len(prog)
    PROVE  ReachedAt(prog, start, seeds, i) = Flow!Tainted(prog, start, seeds)[i]
<1>1. Len(prog) \in Nat /\ i - start <= Len(prog)
    OBVIOUS
<1> QED BY <1>1 DEF ReachedAt, Flow!ForwardReach

(* The two forward tracers agree.                                          *)
LEMMA TrackersDoAgree ==
    ASSUME NEW prog \in Seq(Insns), NEW start \in DOMAIN prog, NEW seed
    PROVE  Flow!TrackersAgree(prog, start, seed)
<1> DEFINE reach == Flow!ForwardReach(prog, start, {seed}, Len(prog))
           tracked(i) == Flow!Forward(SubSeq(prog, 1, i - 1), start, {seed}, Flow!Uncapped(prog)).tracked
<1>1. ASSUME Flow!Plain(prog), NEW i \in start + 1 .. Len(prog)
      PROVE  tracked(i) = IF i \in DOMAIN reach THEN reach[i] ELSE {}
    <2>1. tracked(i) = Flow!Tainted(prog, start, {seed})[i]
        BY <1>1, ForwardIsTainted
    <2>2. start \in Nat
        OBVIOUS
    <2>3. ReachedAt(prog, start, {seed}, i) = Flow!Tainted(prog, start, {seed})[i]
        BY <2>2, ReachIsTainted
    <2> HIDE DEF tracked
    <2> QED BY <2>1, <2>3 DEF ReachedAt
<1> QED BY <1>1 DEF Flow!TrackersAgree

(* What the backward trace follows before an instruction, from what it     *)
(* follows after it.                                                       *)
Back(insn, T) ==
    IF T \cap Flow!Writes(insn) = {} THEN T
    ELSE (T \ Flow!Writes(insn)) \cup ({Flow!MoveSource(insn)} \ {None})

(* A step of the backward trace.                                           *)
LEMMA StepGoesBack ==
    ASSUME NEW locs, NEW w \in Traced(locs), NEW i, NEW insn
    PROVE  Flow!BackwardStep(insn, i, w).tracked = Back(insn, w.tracked)
<1> DEFINE followed == {Flow!MoveSource(insn)} \ {None}
           defined == w.tracked \cap Flow!Writes(insn)
           B == Flow!BackwardStep(insn, i, w)
<1>1. CASE defined = {}
    BY <1>1 DEF Flow!BackwardStep, Back
<1>2. CASE defined # {}
    <2>1. B = Flow!Noted(w, i, "def", followed, (w.tracked \ defined) \cup followed)
        BY <1>2 DEF Flow!BackwardStep
    <2>2. \A S, T : Flow!Noted(w, i, "def", S, T).tracked = T
        BY DEF Flow!Noted, Traced
    <2>3. B.tracked = (w.tracked \ defined) \cup followed
        <3> HIDE DEF B, followed, defined
        <3> QED BY <2>1, <2>2
    <2>4. Back(insn, w.tracked) = (w.tracked \ Flow!Writes(insn)) \cup followed
        BY <1>2 DEF Back
    <2>5. w.tracked \ defined = w.tracked \ Flow!Writes(insn)
        OBVIOUS
    <2> HIDE DEF B, followed, defined
    <2> QED BY <2>3, <2>4, <2>5 DEF B
<1> QED BY <1>1, <1>2

(* The sets that an uncut backward trace goes through.                     *)
GoesBack(prog, start, seed, q) ==
    /\ q[start] = {seed}
    /\ \A i \in 1 .. start - 1 : q[i] = Back(prog[i], q[i + 1])
    /\ q[1] = Flow!Backward(prog, start, seed, Flow!Uncapped(prog)).tracked
    /\ q[1] \in SUBSET Locs(prog, {seed})

(* An uncut backward trace goes through such sets.                         *)
LEMMA BackwardGoesBack ==
    ASSUME NEW prog \in Seq(Insns), NEW start \in DOMAIN prog, NEW seed
    PROVE  \E q : GoesBack(prog, start, seed, q)
<1>1. PICK n \in Nat, b \in Nat, cap \in Nat :
            n = start - 1 /\ b = Len(prog) /\ cap = Flow!Uncapped(prog)
    <2>1. start - 1 \in Nat /\ Len(prog) \in Nat /\ Flow!Uncapped(prog) \in Nat
        BY DEF Flow!Uncapped
    <2> QED BY <2>1
<1>2. start \in 1 .. b /\ n < b /\ cap = b + 1 /\ start = n + 1 /\ DOMAIN prog = 1 .. b
    BY <1>1 DEF Flow!Uncapped
<1> DEFINE locs == Locs(prog, {seed})
           W == Flow!BackwardWalk(prog, start, seed, cap)
           T == {k \in 0 .. n : /\ W[k] \in Traced(locs) /\ ~ W[k].stop
                                /\ Len(W[k].steps) <= k
                                /\ k # 0 => W[k].tracked = Back(prog[start - k], W[k - 1].tracked)}
<1>3. /\ W[0] = Flow!Untraced({seed})
      /\ \A k \in 1 .. n : W[k] = Flow!BackwardVisit(prog, start - k, cap, W[k - 1])
    <2>1. WalkedBack(prog, start, seed, cap, W)
        BY <1>2, BackwardWalkIs
    <2> HIDE DEF W
    <2> QED BY <1>1, <2>1 DEF WalkedBack
<1> HIDE DEF W
<1>4. W[0].tracked = {seed} /\ 0 \in T
    <2>1. {seed} \in SUBSET locs
        BY DEF Locs
    <2> HIDE DEF locs
    <2>2. /\ W[0] \in Traced(locs) /\ ~ W[0].stop
          /\ Len(W[0].steps) = 0 /\ W[0].tracked = {seed}
        BY <1>3, <2>1, UntracedIs
    <2> QED BY <1>1, <2>2
<1>5. ASSUME NEW k \in 0 + 1 .. n, k - 1 \in T PROVE k \in T
    <2>1. Flow!Places(prog) \subseteq locs
        BY DEF Locs
    <2> HIDE DEF locs
    <2>2. PICK w, i : w = W[k - 1] /\ i = start - k
        OBVIOUS
    <2>3. w \in Traced(locs) /\ ~ w.stop /\ Len(w.steps) <= k - 1 /\ Len(w.steps) \in Nat
        BY <1>5, <2>2, TrailLength
    <2>4. i \in DOMAIN prog /\ Len(w.steps) < cap
        <3>1. i \in 1 .. b
            BY <1>1, <1>2, <2>2
        <3> QED BY <1>2, <2>3, <3>1
    <2>5. W[k] = Flow!BackwardStep(prog[i], i, w)
        <3>1. W[k] = Flow!BackwardVisit(prog, i, cap, w)
            BY <1>3, <2>2
        <3>2. ~ (Len(w.steps) >= cap)
            BY <2>3, <2>4
        <3> QED BY <2>3, <3>1, <3>2 DEF Flow!BackwardVisit
    <2>6. OneStep(locs, w, W[k])
        <3>1. i \in Int
            BY <1>2, <2>4
        <3> QED BY <2>1, <2>3, <2>4, <2>5, <3>1, StepIsOne
    <2>7. W[k].tracked = Back(prog[i], w.tracked)
        BY <2>3, <2>5, StepGoesBack
    <2>8. W[k] \in Traced(locs) /\ ~ W[k].stop /\ Len(W[k].steps) <= k
        <3>1. W[k] \in Traced(locs) /\ ~ W[k].stop /\ Len(W[k].steps) <= Len(w.steps) + 1
            BY <2>3, <2>6 DEF OneStep
        <3>2. Len(W[k].steps) \in Nat
            BY <3>1, TrailLength
        <3> QED BY <2>3, <3>1, <3>2
    <2> QED BY <2>2, <2>7, <2>8
<1>6. 0 .. n \subseteq T
    <2> HIDE DEF T
    <2>1. \A k \in 0 + 1 .. n : k - 1 \in T => k \in T
        BY <1>5
    <2>2. 0 \in Int /\ n \in Int
        OBVIOUS
    <2> QED BY ONLY <1>4, <2>1, <2>2, Upwards
<1>7. PICK q : q = [i \in 1 .. start |-> W[start - i].tracked]
    OBVIOUS
<1>8. q[start] = {seed}
    BY <1>2, <1>4, <1>7
<1>9. ASSUME NEW i \in 1 .. start - 1 PROVE q[i] = Back(prog[i], q[i + 1])
    <2>1. PICK k \in 1 .. n : k = start - i
        BY <1>2
    <2>2. start - k = i /\ k - 1 = start - (i + 1) /\ i \in 1 .. start /\ i + 1 \in 1 .. start
        BY <1>2, <2>1
    <2>3. W[k].tracked = Back(prog[i], W[k - 1].tracked)
        <3>1. k \in T /\ k # 0
            <4>1. k \in 0 .. n /\ k # 0
                BY <1>2, <2>1
            <4> HIDE DEF T
            <4> QED BY <1>6, <4>1
        <3> QED BY <2>2, <3>1
    <2>4. q[i] = W[k].tracked /\ q[i + 1] = W[k - 1].tracked
        BY <1>7, <2>1, <2>2
    <2> QED BY <2>3, <2>4
<1>10. q[1] = W[n].tracked /\ W[n] \in Traced(locs)
    <2>1. 1 \in 1 .. start /\ start - 1 = n /\ n \in 0 .. n
        BY <1>1, <1>2
    <2>2. n \in T
        <3> HIDE DEF T
        <3> QED BY <1>6, <2>1
    <2> QED BY <1>7, <2>1, <2>2
<1>11. W[n].tracked \in SUBSET locs
    BY <1>10 DEF Traced
<1>12. W[n] = Flow!Backward(prog, start, seed, Flow!Uncapped(prog))
    BY <1>1 DEF Flow!Backward, W
<1>13. GoesBack(prog, start, seed, q)
    BY <1>8, <1>9, <1>10, <1>11, <1>12 DEF GoesBack
<1> QED BY <1>13

(* Of the places a value may have been in before an instruction that       *)
(* defines one it is followed to, one leads there.                         *)
LEMMA BackLeadsOn ==
    ASSUME NEW insn, Flow!Decoded(insn), insn.mn # "call", ~ Flow!IsZeroing(insn),
           NEW S, NEW T, S \cap Back(insn, T) # {}
    PROVE  Flow!Propagate(insn, S) \cap T # {}
<1>1. PICK x \in S : x \in Back(insn, T)
    OBVIOUS
<1>2. CASE x \in T /\ x \notin Flow!Writes(insn)
    <2>1. x \in Flow!Propagate(insn, S)
        BY <1>2 DEF Flow!Propagate
    <2> QED BY <1>2, <2>1
<1>3. CASE T \cap Flow!Writes(insn) # {} /\ x = Flow!MoveSource(insn) /\ x # None
    <2>1. x \in Flow!Reads(insn) /\ insn.mn \in Flow!Moves
        BY <1>3, MovesTouch DEF Flow!MoveSource
    <2>2. Flow!MoveDestination(insn) \in T /\ Flow!MoveDestination(insn) # None
        <3>1. PICK y \in T : y \in Flow!Writes(insn)
            BY <1>3
        <3>2. y = Flow!MoveDestination(insn)
            BY <2>1, <3>1 DEF Flow!Decoded
        <3>3. y # None
            BY <3>1 DEF Flow!Writes, Flow!Named
        <3> QED BY <3>1, <3>2, <3>3
    <2>3. Flow!MoveDestination(insn) \in Flow!Propagate(insn, S)
        BY <2>1, <2>2 DEF Flow!Propagate
    <2> QED BY <2>2, <2>3
<1> QED BY <1>1, <1>2, <1>3 DEF Back

(* And of those a copy may have been in, no other does.                    *)
LEMMA BackMissesNothing ==
    ASSUME NEW insn, insn.mn # "call", ~ Flow!IsZeroing(insn),
           NEW places, Flow!Reads(insn) \cap places \subseteq {Flow!MoveSource(insn)}, None \notin places,
           NEW S \in SUBSET places, NEW T, S \cap Back(insn, T) = {}
    PROVE  Flow!Propagate(insn, S) \cap T = {}
<1> SUFFICES ASSUME NEW y \in T, y \in Flow!Propagate(insn, S) PROVE FALSE
    OBVIOUS
<1>1. CASE S \cap Flow!Reads(insn) = {}
    <2>1. y \in S /\ y \notin Flow!Writes(insn)
        BY <1>1 DEF Flow!Propagate
    <2> QED BY <2>1 DEF Back
<1>2. CASE S \cap Flow!Reads(insn) # {}
    <2>1. Flow!MoveSource(insn) \in S /\ Flow!MoveSource(insn) # None
        BY <1>2
    <2>2. y \in S \/ (y = Flow!MoveDestination(insn) /\ y # None)
        BY <1>2 DEF Flow!Propagate
    <2>3. T \cap Flow!Writes(insn) = {}
        BY <2>1 DEF Back
    <2>4. y \notin Flow!Writes(insn)
        BY <2>3
    <2>5. y \in S
        BY <2>2, <2>4, MovesTouch
    <2> QED BY <2>3, <2>5 DEF Back
<1> QED BY <1>1, <1>2

(* Where the backward trace says a value came from, a forward trace finds  *)
(* that it went; and copies are traced back to the one place they were in. *)
LEMMA BackwardDoesInvertForward ==
    ASSUME NEW prog \in Seq(Insns), \A insn \in Insns : Flow!Decoded(insn),
           NEW start \in DOMAIN prog, NEW seed \in Flow!Places(prog)
    PROVE  Flow!BackwardInvertsForward(prog, start, seed)
<1> DEFINE places == Flow!Places(prog)
           reach(l) == Flow!ForwardReach(prog, 0, {l}, Len(prog))
           arrives(l) == start \in DOMAIN reach(l) /\ seed \in reach(l)[start]
           origins == Flow!Backward(prog, start, seed, Flow!Uncapped(prog)).tracked
           copies == \A i \in DOMAIN prog :
                /\ prog[i].mn \in Flow!Moves
                /\ Flow!Reads(prog[i]) \cap places \subseteq {Flow!MoveSource(prog[i])}
<1>1. PICK b \in Nat : b = Len(prog) /\ DOMAIN prog = 1 .. b
    OBVIOUS
<1>2. start \in 1 .. b /\ start \in Int
    BY <1>1
<1>3. PICK q : GoesBack(prog, start, seed, q)
    BY BackwardGoesBack
<1>4. \A l : arrives(l) <=> seed \in Flow!Tainted(prog, 0, {l})[start]
    <2>1. start \in 0 + 1 .. Len(prog) /\ 0 \in Nat
        BY <1>1, <1>2
    <2>2. \A l : ReachedAt(prog, 0, {l}, start) = Flow!Tainted(prog, 0, {l})[start]
        BY <2>1, ReachIsTainted
    <2>3. \A l : arrives(l) <=> seed \in ReachedAt(prog, 0, {l}, start)
        BY DEF ReachedAt
    <2> HIDE DEF arrives
    <2> QED BY <2>2, <2>3
<1>5. q[start] = {seed} /\ q[1] = origins /\ origins \in SUBSET places
    BY <1>3 DEF GoesBack, Locs
<1> HIDE DEF arrives, origins, copies
<1> SUFFICES ASSUME Flow!Plain(prog)
             PROVE  /\ \A l \in origins : arrives(l)
                    /\ copies => origins = {l \in places : arrives(l)}
    BY DEF Flow!BackwardInvertsForward, arrives, origins, copies
<1>6. ASSUME NEW i \in 2 .. start
      PROVE  /\ i - 1 \in DOMAIN prog /\ prog[i - 1].mn # "call" /\ ~ Flow!IsZeroing(prog[i - 1])
             /\ Flow!Decoded(prog[i - 1])
             /\ q[i - 1] = Back(prog[i - 1], q[i])
    <2>1. PICK j \in 1 .. start - 1 : j = i - 1 /\ j + 1 = i
        BY <1>2
    <2>2. j \in DOMAIN prog /\ prog[j] \in Insns
        BY <1>1, <1>2, <2>1
    <2>3. q[j] = Back(prog[j], q[j + 1])
        BY <1>3 DEF GoesBack
    <2> QED BY <2>1, <2>2, <2>3 DEF Flow!Plain
<1>7. ASSUME NEW l, NEW w, w = Flow!Tainted(prog, 0, {l})
      PROVE  /\ w[1] = {l} /\ 1 \in 1 .. start
             /\ \A i \in 1 + 1 .. start : /\ w[i] = Flow!Propagate(prog[i - 1], w[i - 1])
                                         /\ i \in 2 .. start /\ i \in 1 .. start
    <2>2. 1 <= b /\ 1 = 0 + 1
        BY <1>2
    <2>3. TaintedOn(prog, 1, b, {l}, w)
        BY <1>1, <1>7, <2>2, TaintedIs
    <2>4. \A i \in 1 + 1 .. start : i \in 1 + 1 .. b /\ i \in 2 .. start /\ i \in 1 .. start
        BY <1>2
    <2>5. 1 \in 1 .. start
        BY <1>2
    <2> QED BY <2>3, <2>4, <2>5 DEF TaintedOn
<1>8. ASSUME NEW l \in origins PROVE arrives(l)
    <2>1. PICK w : w = Flow!Tainted(prog, 0, {l})
        OBVIOUS
    <2>2. /\ w[1] = {l} /\ 1 \in 1 .. start
          /\ \A i \in 1 + 1 .. start : /\ w[i] = Flow!Propagate(prog[i - 1], w[i - 1])
                                      /\ i \in 2 .. start /\ i \in 1 .. start
        BY <1>7, <2>1
    <2> DEFINE T == {i \in 1 .. start : w[i] \cap q[i] # {}}
    <2>3. 1 \in T
        BY <1>5, <2>2
    <2>4. ASSUME NEW i \in 1 + 1 .. start, i - 1 \in T PROVE i \in T
        <3>1. w[i] = Flow!Propagate(prog[i - 1], w[i - 1]) /\ i \in 2 .. start /\ i \in 1 .. start
            BY <2>2
        <3>2. w[i - 1] \cap Back(prog[i - 1], q[i]) # {}
            BY <1>6, <2>4, <3>1
        <3>3. w[i] \cap q[i] # {}
            BY <1>6, <3>1, <3>2, BackLeadsOn
        <3> QED BY <3>1, <3>3
    <2>5. start \in T
        <3> HIDE DEF T
        <3>1. 1 \in Int /\ start \in Int /\ start \in 1 .. start
            BY <1>2
        <3>2. \A i \in 1 + 1 .. start : i - 1 \in T => i \in T
            BY <2>4
        <3>3. 1 .. start \subseteq T
            BY ONLY <2>3, <3>1, <3>2, Upwards
        <3> QED BY <3>1, <3>3
    <2>6. seed \in w[start]
        BY <1>5, <2>5
    <2> QED BY <1>4, <2>1, <2>6
<1>9. ASSUME copies, NEW l \in places, arrives(l) PROVE l \in origins
    <2> SUFFICES ASSUME l \notin origins PROVE FALSE
        OBVIOUS
    <2>1. PICK w : w = Flow!Tainted(prog, 0, {l})
        OBVIOUS
    <2>2. /\ w[1] = {l} /\ 1 \in 1 .. start
          /\ \A i \in 1 + 1 .. start : /\ w[i] = Flow!Propagate(prog[i - 1], w[i - 1])
                                      /\ i \in 2 .. start /\ i \in 1 .. start
        BY <1>7, <2>1
    <2> DEFINE T == {i \in 1 .. start : w[i] \in SUBSET places /\ w[i] \cap q[i] = {}}
    <2>3. 1 \in T
        <3> HIDE DEF places
        <3> QED BY <1>5, <2>2
    <2>4. ASSUME NEW i \in 1 + 1 .. start, i - 1 \in T PROVE i \in T
        <3>1. w[i] = Flow!Propagate(prog[i - 1], w[i - 1]) /\ i \in 2 .. start /\ i \in 1 .. start
            BY <2>2
        <3>2. PICK insn : insn = prog[i - 1]
            OBVIOUS
        <3>3. /\ w[i - 1] \cap Back(insn, q[i]) = {} /\ w[i - 1] \in SUBSET places
              /\ insn.mn # "call" /\ ~ Flow!IsZeroing(insn)
            BY <1>6, <2>4, <3>1, <3>2
        <3>4. Flow!Reads(insn) \cap places \subseteq {Flow!MoveSource(insn)}
            BY <1>6, <1>9, <3>1, <3>2 DEF copies
        <3>5. None \notin places
            BY DEF Flow!Places, Flow!Writes, Flow!Named
        <3>6. Flow!MoveDestination(insn) # None => Flow!MoveDestination(insn) \in places
            BY <1>6, <3>1, <3>2, MovesThroughPlaces
        <3> HIDE DEF places
        <3>7. w[i] \cap q[i] = {}
            <4>1. PICK S, U : S = w[i - 1] /\ U = q[i]
                OBVIOUS
            <4>2. S \in SUBSET places /\ S \cap Back(insn, U) = {}
                BY <3>3, <4>1
            <4>3. Flow!Propagate(insn, S) \cap U = {}
                BY <3>3, <3>4, <3>5, <4>2, BackMissesNothing
            <4> QED BY <3>1, <3>2, <4>1, <4>3
        <3>8. w[i] \in SUBSET places
            <4>1. Flow!Propagate(insn, w[i - 1]) \subseteq w[i - 1] \cup ({Flow!MoveDestination(insn)} \ {None})
                BY <3>3 DEF Flow!Propagate
            <4> QED BY <3>1, <3>2, <3>3, <3>6, <4>1
        <3> QED BY <3>1, <3>7, <3>8
    <2>5. start \in T
        <3> HIDE DEF T
        <3>1. 1 \in Int /\ start \in Int /\ start \in 1 .. start
            BY <1>2
        <3>2. \A i \in 1 + 1 .. start : i - 1 \in T => i \in T
            BY <2>4
        <3>3. 1 .. start \subseteq T
            BY ONLY <2>3, <3>1, <3>2, Upwards
        <3> QED BY <3>1, <3>3
    <2>6. seed \notin w[start]
        BY <1>5, <2>5
    <2> QED BY <1>4, <1>9, <2>1, <2>6
<1> HIDE DEF places
<1> QED BY <1>5, <1>8, <1>9

(* What is tainted and was not has been written to meanwhile.              *)
LEMMA TaintIsWritten ==
    ASSUME NEW prog, NEW s \in Int, NEW b \in Int, NEW seeds, NEW t, TaintedOn(prog, s, b, seeds, t),
           NEW a \in s .. b, NEW i \in a .. b, NEW l, l \notin t[a], l \in t[i]
    PROVE  \E k \in a .. i - 1 : l \in Flow!Writes(prog[k])
<1> DEFINE T == {j \in a .. i : l \in t[j] => \E k \in a .. j - 1 : l \in Flow!Writes(prog[k])}
<1>1. a \in T
    OBVIOUS
<1>2. ASSUME NEW j \in a + 1 .. i, j - 1 \in T PROVE j \in T
    <2>1. j \in a .. i /\ j \in s + 1 .. b /\ j - 1 \in a .. j - 1 /\ a .. (j - 1) - 1 \subseteq a .. j - 1
        OBVIOUS
    <2>2. PICK insn : insn = prog[j - 1]
        OBVIOUS
    <2>3. t[j] = Flow!Propagate(insn, t[j - 1])
        BY <2>1, <2>2 DEF TaintedOn
    <2>4. Flow!Propagate(insn, t[j - 1]) \subseteq t[j - 1] \cup Flow!Writes(insn)
        BY MovesTouch DEF Flow!Propagate
    <2>5. ASSUME l \in t[j] PROVE \E k \in a .. j - 1 : l \in Flow!Writes(prog[k])
        <3>1. CASE l \in t[j - 1]
            <4>1. PICK k \in a .. (j - 1) - 1 : l \in Flow!Writes(prog[k])
                BY <1>2, <3>1
            <4> QED BY <2>1, <4>1
        <3>2. CASE l \in Flow!Writes(insn)
            BY <2>1, <2>2, <3>2
        <3> QED BY <2>3, <2>4, <2>5, <3>1, <3>2
    <2> QED BY <2>1, <2>5
<1>3. i \in T
    <2> HIDE DEF T
    <2>1. a \in Int /\ i \in Int /\ i \in a .. i
        OBVIOUS
    <2>2. \A j \in a + 1 .. i : j - 1 \in T => j \in T
        BY <1>2
    <2>3. a .. i \subseteq T
        BY ONLY <1>1, <2>1, <2>2, Upwards
    <2> QED BY <2>1, <2>3
<1> QED BY <1>3

(* Some of the numbers between two have a last one.                        *)
LEMMA LastOf ==
    ASSUME NEW a \in Int, NEW b \in Int, NEW S \in SUBSET (a .. b), S # {}
    PROVE  Flow!Max(S) \in S /\ \A x \in S : x <= Flow!Max(S)
<1> DEFINE gaps == {k \in Nat : b - k \in S}
<1>1. gaps \in SUBSET Nat /\ gaps # {}
    <2>1. PICK x \in S : x \in a .. b
        OBVIOUS
    <2>2. b - x \in Nat /\ b - (b - x) = x
        BY <2>1
    <2> QED BY <2>1, <2>2
<1>2. PICK k \in gaps : \A m \in gaps : ~ (<<m, k>> \in OpToRel(<, Nat))
    <2> HIDE DEF gaps
    <2> QED BY <1>1, NatLessThanWellFounded, WFMin
<1>3. ASSUME NEW x \in S PROVE b - k >= x
    <2>1. x \in Int /\ b - x \in Nat /\ b - (b - x) = x
        OBVIOUS
    <2>2. b - x \in gaps
        BY <2>1
    <2>3. ~ (b - x < k)
        BY <1>2, <2>1, <2>2 DEF OpToRel
    <2>4. k \in Nat
        OBVIOUS
    <2> HIDE DEF gaps
    <2> QED BY <2>1, <2>3, <2>4
<1>4. \E x \in S : \A y \in S : x >= y
    BY <1>2, <1>3
<1>5. Flow!Max(S) \in S /\ \A y \in S : Flow!Max(S) >= y
    BY <1>4 DEF Flow!Max
<1>6. \A x \in S : x \in Int
    OBVIOUS
<1> QED BY <1>5, <1>6

(* A sink is reported for an argument that was set up for it.              *)
LEMMA SinksHaveArguments ==
    ASSUME NEW prog \in Seq(Insns), ReturnReg \notin ArgRegs, None \notin InputSources,
           \A insn \in Insns : \A o \in Flow!Operands(insn) : <<"stack", o.disp>> # None
    PROVE  Flow!SinkHasItsArgument(prog, Len(prog))
<1> DEFINE writes(j, r) == <<"reg", r>> \in Flow!Writes(prog[j])
           callsOf(src, i) == {j \in src .. i - 1 : prog[j].mn = "call"}
           namedOf(src, i) == {j \in callsOf(src, i) : Flow!Callee(prog[j]) # None}
           Served(src, i) ==
              \/ \E j \in Flow!Max(callsOf(src, i)) .. i - 1 : \E r \in ArgRegs : writes(j, r)
              \/ \E j \in src .. i - 1 : \E r \in ArgRegs \ Clobbered : writes(j, r)
              \/ \E j \in Flow!Max(namedOf(src, i)) .. i - 1 : \E l \in Flow!Writes(prog[j]) :
                    l[1] = "stack" /\ l[2] >= 0
<1> SUFFICES ASSUME NEW src \in DOMAIN prog, Flow!Callee(prog[src]) \in InputSources,
                    NEW i \in Flow!Sinks(prog, src, Len(prog))
             PROVE  Served(src, i)
    BY DEF Flow!SinkHasItsArgument
<1>1. PICK b \in Nat, s \in Nat : b = Len(prog) /\ DOMAIN prog = 1 .. b /\ s = src + 1
    <2>1. Len(prog) \in Nat /\ DOMAIN prog = 1 .. Len(prog) /\ src + 1 \in Nat
        OBVIOUS
    <2> QED BY <2>1
<1>2. PICK t : t = Flow!Tainted(prog, src, {<<"reg", ReturnReg>>})
    OBVIOUS
<1>3. /\ i \in s .. b
      /\ Flow!ReachesArg(t[i], Flow!Window(prog, src, i))
    BY <1>1, <1>2 DEF Flow!Sinks, Flow!ForwardReach
<1>4. TaintedOn(prog, s, b, {<<"reg", ReturnReg>>}, t)
    <2>1. src \in Int /\ s \in Int /\ b \in Int /\ s <= b
        BY <1>1, <1>3
    <2> QED BY <1>1, <1>2, <2>1, TaintedIs
<1>5. src \in namedOf(src, i) /\ src \in callsOf(src, i)
    <2>1. src \in src .. i - 1
        BY <1>1, <1>3
    <2>2. prog[src].mn = "call" /\ Flow!Callee(prog[src]) # None
        BY DEF Flow!Callee
    <2> QED BY <2>1, <2>2
<1>6. /\ Flow!Max(callsOf(src, i)) \in callsOf(src, i)
      /\ Flow!Max(namedOf(src, i)) \in namedOf(src, i)
      /\ \A j \in namedOf(src, i) : j <= Flow!Max(namedOf(src, i))
    <2>1. src \in Int /\ i - 1 \in Int
        BY <1>1, <1>3
    <2>2. callsOf(src, i) \in SUBSET (src .. i - 1) /\ namedOf(src, i) \in SUBSET (src .. i - 1)
        OBVIOUS
    <2>3. callsOf(src, i) # {} /\ namedOf(src, i) # {}
        BY <1>5
    <2> HIDE DEF callsOf, namedOf
    <2> QED BY <2>1, <2>2, <2>3, LastOf
<1>7. ASSUME NEW r \in ArgRegs, <<"reg", r>> \in t[i] PROVE Served(src, i)
    <2>1. t[s] = {<<"reg", ReturnReg>>} /\ <<"reg", r>> \notin t[s]
        BY <1>4 DEF TaintedOn
    <2>2. s \in s .. b
        BY <1>1, <1>3
    <2>3. CASE r \notin Clobbered
        <3>1. PICK k \in s .. i - 1 : writes(k, r)
            BY <1>3, <1>4, <1>7, <2>1, <2>2, TaintIsWritten
        <3>2. k \in src .. i - 1
            BY <1>1
        <3> QED BY <2>3, <3>1, <3>2
    <2>4. CASE r \in Clobbered
        <3>1. PICK c : c = Flow!Max(callsOf(src, i))
            OBVIOUS
        <3>2. c \in src .. i - 1 /\ prog[c].mn = "call"
            BY <1>6, <3>1
        <3>3. PICK a \in Nat : a = c + 1 /\ a \in s .. b /\ i \in a .. b
            BY <1>1, <1>3, <3>2
        <3>4. <<"reg", r>> \notin t[a]
            <4>1. CASE a = s
                BY <2>1, <4>1
            <4>2. CASE a # s
                <5>1. a \in s + 1 .. b /\ a - 1 = c
                    BY <1>1, <3>2, <3>3, <4>2
                <5>2. t[a] = Flow!Propagate(prog[c], t[c])
                    BY <1>4, <5>1 DEF TaintedOn
                <5> QED BY <2>4, <3>2, <5>2 DEF Flow!Propagate
            <4> QED BY <4>1, <4>2
        <3>5. PICK k \in a .. i - 1 : writes(k, r)
            BY <1>3, <1>4, <1>7, <3>3, <3>4, TaintIsWritten
        <3>6. k \in c .. i - 1
            BY <1>1, <3>2, <3>3
        <3> HIDE DEF callsOf
        <3> QED BY <3>1, <3>5, <3>6
    <2> QED BY <2>3, <2>4
<1>8. ASSUME NEW l \in Flow!Window(prog, src, i), l[1] = "stack", l[2] >= 0 PROVE Served(src, i)
    <2>1. PICK k \in src + 1 .. i - 1 : /\ \A m \in k .. i - 1 : Flow!Callee(prog[m]) = None
                                       /\ l \in Flow!OutgoingArguments(prog[k])
        BY DEF Flow!Window
    <2>2. PICK o \in Flow!Operands(prog[k]) : o.write /\ Flow!StackSlot(o) # None /\ l = Flow!Location(o)
        BY <2>1 DEF Flow!OutgoingArguments
    <2>3. l = <<"stack", o.disp>> /\ l # None
        <3>1. prog[k] \in Insns
            BY <1>1, <1>3
        <3>2. o.kind # "reg" /\ Flow!StackSlot(o) = o.disp
            BY <2>2 DEF Flow!StackSlot
        <3> QED BY <2>2, <3>1, <3>2 DEF Flow!Location
    <2>4. l \in Flow!Writes(prog[k])
        BY <2>2, <2>3 DEF Flow!Writes, Flow!Named
    <2>5. PICK c : c = Flow!Max(namedOf(src, i))
        OBVIOUS
    <2>6. c \in src .. i - 1 /\ Flow!Callee(prog[c]) # None
        BY <1>6, <2>5
    <2>7. k \in c .. i - 1
        <3>1. k \in Int /\ c \in Int /\ i \in Int
            BY <1>1, <1>3, <2>6
        <3>2. ~ (k <= c)
            BY <2>1, <2>6, <3>1
        <3> QED BY <3>1, <3>2
    <2> HIDE DEF namedOf
    <2> QED BY <1>8, <2>4, <2>5, <2>7
<1> QED BY <1>3, <1>7, <1>8 DEF Flow!ReachesArg
-----------------------------------------------------------------------------
(* What the checks ask of one program holds of every program.              *)
LEMMA EveryTraceIsKept ==
    ASSUME NEW prog \in FlowPrograms
    PROVE  Flow!TracesKept(prog)
<1>1. prog \in Seq(Insns)
    BY FlowAssumption
<1>2. \A start \in DOMAIN prog, operand \in 1 .. 2, cap \in -1 .. Len(prog) :
            Flow!CutWhereItSays(prog, start, operand, cap)
    BY <1>1, CutsAreTold
<1>3. \A start \in DOMAIN prog, seed \in Flow!Places(prog) :
            Flow!TrackersAgree(prog, start, seed) /\ Flow!BackwardInvertsForward(prog, start, seed)
    BY <1>1, FlowAssumption, TrackersDoAgree, BackwardDoesInvertForward
<1>4. Flow!SinkHasItsArgument(prog, Len(prog))
    BY <1>1, FlowAssumption, SinksHaveArguments
<1> QED BY <1>2, <1>3, <1>4 DEF Flow!TracesKept

(* The tracing of data flow (domain/services/data_flow.py and taint.py)    *)
(* answers as it should about every program of decoded instructions: a cut *)
(* trace is the beginning of the whole one and a forward trace says that   *)
(* it is cut if and only if it is, the two forward tracers agree where     *)
(* there are no calls, the backward tracer inverts them, and no sink is    *)
(* reported whose argument was not set up for it.                          *)
THEOREM TracesAlwaysAgree == TraceSpec => []TracesAgree
<1> DEFINE Inv == part = "flow" => input \in FlowPrograms
<1>1. Asked("flow", FlowPrograms) => Inv
    BY DEF Asked
<1>2. Inv /\ [Answer /\ UNCHANGED part]_<<part, pureVars>> => Inv'
    BY DEF Answer, pureVars
<1>3. Inv => TracesAgree
    BY EveryTraceIsKept DEF TracesAgree, Answered
<1> QED BY <1>1, <1>2, <1>3, PTL DEF TraceSpec
=============================================================================
