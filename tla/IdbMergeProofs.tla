-------------------------- MODULE IdbMergeProofs --------------------------
(* Theorems about idb_merge: about the plan it computes, for every request *)
(* with whatever records, baselines, policy, fields, keys and values; and  *)
(* about the run, for every set of sessions, every database and every      *)
(* chunk size.                                                             *)
EXTENDS IdbMerge, WellFoundedInduction, FiniteSetTheorems, TLAPS

-----------------------------------------------------------------------------
(* The plan: reconcile.                                                    *)

(* What idb_merge hands to reconcile.                                      *)
IsRecord(r) == r.data \in Data

IsRequest(r, Ids) ==
    /\ \E n \in Nat : DOMAIN r.records = 1..n
    /\ \A i \in DOMAIN r.records :
          r.records[i].sid \in Ids /\ IsRecord(r.records[i].rec)
    /\ \A id \in Ids : IsRecord(BaselineOf(r, id))
    /\ r.fields \subseteq Fields
    /\ r.policy \in Policies

(* The same with its records in a sequence, so that one of them can be     *)
(* replaced and all of them reversed.                                      *)
Exports == [sha : Shas, imagebase : Bases, data : Data]

IsCall(r, Ids) ==
    /\ IsRequest(r, Ids)
    /\ r.records \in Seq([sid : Ids, rec : Exports])
    /\ r = [records |-> r.records, baselines |-> r.baselines, shared |-> r.shared,
            policy |-> r.policy, prefer |-> r.prefer, fields |-> r.fields]

(* An element of a sequence has the sequence's type.                       *)
LEMMA ElementTyped ==
    ASSUME NEW T, NEW s \in Seq(T), NEW i \in DOMAIN s
    PROVE  s[i] \in T
OBVIOUS

(* A non-empty set of naturals has a least element.                        *)
LEMMA LeastExists ==
    ASSUME NEW T \in SUBSET Nat, T # {}
    PROVE  \E i \in T : \A j \in T : i <= j
<1>1. PICK i \in T : \A j \in T : ~ (<<j, i>> \in OpToRel(<, Nat))
    BY NatLessThanWellFounded, WFMin
<1>2. \A j \in T : i <= j
    <2> SUFFICES ASSUME NEW j \in T PROVE ~ (j < i)
        OBVIOUS
    <2>1. i \in Nat /\ j \in Nat
        OBVIOUS
    <2> QED BY <1>1, <2>1 DEF OpToRel
<1> QED BY <1>2

(* A non-empty set of positions has an earliest and a latest one.          *)
LEMMA EarliestExists ==
    ASSUME NEW n \in Nat, NEW S \in SUBSET (1..n), S # {}
    PROVE  Earliest(S) \in S /\ \A j \in S : Earliest(S) <= j
<1>1. S \in SUBSET Nat
    OBVIOUS
<1>2. \E i \in S : \A j \in S : i <= j
    BY <1>1, LeastExists
<1> QED BY <1>2 DEF Earliest

LEMMA LatestExists ==
    ASSUME NEW n \in Nat, NEW S \in SUBSET (1..n), S # {}
    PROVE  Latest(S) \in S /\ \A j \in S : Latest(S) >= j
<1> DEFINE gaps == {n - i : i \in S}
<1>1. gaps # {}
    OBVIOUS
<1>2. gaps \in SUBSET Nat
    <2> SUFFICES ASSUME NEW i \in S PROVE n - i \in Nat
        OBVIOUS
    <2> QED OBVIOUS
<1>3. PICK g \in gaps : \A h \in gaps : g <= h
    <2> HIDE DEF gaps
    <2> QED BY <1>1, <1>2, LeastExists
<1>4. PICK i \in S : g = n - i
    OBVIOUS
<1>5. \A j \in S : i >= j
    <2> SUFFICES ASSUME NEW j \in S PROVE i >= j
        OBVIOUS
    <2>1. n - j \in gaps
        OBVIOUS
    <2>2. n - i <= n - j
        BY <1>3, <1>4, <2>1
    <2> QED BY <2>2
<1> QED BY <1>5 DEF Latest

LEMMA ContributorsArePositions ==
    ASSUME NEW r, NEW Ids, IsRequest(r, Ids), NEW f \in Fields, NEW k \in Keys
    PROVE  \E n \in Nat : /\ Contributors(r, f, k) \in SUBSET (1..n)
                          /\ Preferred(r, f, k) \in SUBSET (1..n)
BY DEF IsRequest, Contributors, Preferred

(* A resolved divergence takes a contributor's value.                      *)
LEMMA ResolvePicksAContributor ==
    ASSUME NEW r, NEW Ids, IsRequest(r, Ids), NEW f \in Fields, NEW k \in Keys,
           Contributors(r, f, k) # {}, Resolve(r, f, k) # NoValue
    PROVE  \E i \in Contributors(r, f, k) : Resolve(r, f, k) = ValueOf(r, i, f, k)
<1> DEFINE C == Contributors(r, f, k)
           P == Preferred(r, f, k)
<1>1. Earliest(C) \in C /\ Latest(C) \in C
    BY ContributorsArePositions, EarliestExists, LatestExists
<1>2. P # {} => Earliest(P) \in C
    <2>1. P # {} => Earliest(P) \in P
        BY ContributorsArePositions, EarliestExists
    <2>2. P \subseteq C
        BY DEF Preferred
    <2> QED BY <2>1, <2>2
<1>3. CASE r.policy = "first"
    BY <1>1, <1>3 DEF Resolve
<1>4. CASE r.policy = "last"
    BY <1>1, <1>4 DEF Resolve
<1>5. CASE r.policy = "prefer" /\ P # {}
    BY <1>2, <1>5 DEF Resolve
<1>6. CASE ~ (r.policy = "first" \/ r.policy = "last" \/ (r.policy = "prefer" /\ P # {}))
    BY <1>6 DEF Resolve
<1> QED BY <1>3, <1>4, <1>5, <1>6

LEMMA PlanPicksAContributor ==
    ASSUME NEW r, NEW Ids, IsRequest(r, Ids), NEW f \in Fields, NEW k \in Keys,
           Plan(r)[f][k] # NoValue
    PROVE  /\ f \in r.fields
           /\ \E i \in Contributors(r, f, k) : Plan(r)[f][k] = ValueOf(r, i, f, k)
<1>1. f \in r.fields /\ Plan(r)[f][k] = PlanValue(r, f, k)
    BY DEF Plan
<1>2. Contributors(r, f, k) # {}
    BY <1>1 DEF PlanValue
<1>3. Earliest(Contributors(r, f, k)) \in Contributors(r, f, k)
    BY <1>2, ContributorsArePositions, EarliestExists
<1>4. CASE Diverges(r, f, k)
    BY <1>1, <1>2, <1>4, ResolvePicksAContributor DEF PlanValue
<1>5. CASE ~ Diverges(r, f, k)
    BY <1>1, <1>2, <1>3, <1>5 DEF PlanValue
<1> QED BY <1>1, <1>4, <1>5

(* A planned value is a genuine edit of one of the sources.                *)
THEOREM PlanIsEdits ==
    ASSUME NEW r, NEW Ids, IsRequest(r, Ids)
    PROVE  PlanOnlyHasEdits(r)
<1> SUFFICES ASSUME NEW f \in Fields, NEW k \in Keys, Plan(r)[f][k] # NoValue
             PROVE  \E i \in DOMAIN r.records :
                       /\ ValueOf(r, i, f, k) = Plan(r)[f][k]
                       /\ BaselineOf(r, r.records[i].sid).data[f][k] # Plan(r)[f][k]
    BY DEF PlanOnlyHasEdits
<1>1. PICK i \in Contributors(r, f, k) : Plan(r)[f][k] = ValueOf(r, i, f, k)
    BY PlanPicksAContributor
<1> QED BY <1>1 DEF Contributors

(* No edit vanishes: it is planned, or it is in a reported conflict.       *)
THEOREM NoEditVanishes ==
    ASSUME NEW r, NEW Ids, IsRequest(r, Ids)
    PROVE  EveryEditAccounted(r)
<1> SUFFICES ASSUME NEW f \in r.fields, NEW k \in Keys,
                    NEW i \in Contributors(r, f, k),
                    Plan(r)[f][k] # ValueOf(r, i, f, k)
             PROVE  /\ <<f, k>> \in Conflicts(r)
                    /\ r.records[i].sid \in DOMAIN Candidates(r, f, k)
    BY DEF EveryEditAccounted
<1>1. f \in Fields
    BY DEF IsRequest
<1>2. Diverges(r, f, k)
    <2> SUFFICES ASSUME ~ Diverges(r, f, k) PROVE FALSE
        OBVIOUS
    <2>1. Plan(r)[f][k] = ValueOf(r, Earliest(Contributors(r, f, k)), f, k)
        BY <1>1 DEF Plan, PlanValue
    <2>2. Earliest(Contributors(r, f, k)) \in Contributors(r, f, k)
        BY <1>1, ContributorsArePositions, EarliestExists
    <2> QED BY <2>1, <2>2 DEF Diverges, Offered
<1>3. <<f, k>> \in Conflicts(r)
    BY <1>2 DEF Conflicts
<1>4. r.records[i].sid \in DOMAIN Candidates(r, f, k)
    BY DEF Candidates
<1> QED BY <1>3, <1>4

(* Under manual the plan never takes a side.                               *)
THEOREM ManualIsNeutral ==
    ASSUME NEW r, NEW Ids, IsRequest(r, Ids)
    PROVE  ManualTakesNoSide(r)
<1> SUFFICES ASSUME r.policy = "manual", NEW f \in Fields, NEW k \in Keys,
                    Plan(r)[f][k] # NoValue, NEW i \in Contributors(r, f, k)
             PROVE  ValueOf(r, i, f, k) = Plan(r)[f][k]
    BY DEF ManualTakesNoSide
<1>1. ~ Diverges(r, f, k)
    BY DEF Plan, PlanValue, Resolve
<1>2. PICK j \in Contributors(r, f, k) : Plan(r)[f][k] = ValueOf(r, j, f, k)
    BY PlanPicksAContributor
<1> QED BY <1>1, <1>2 DEF Diverges, Offered

(* The same sources in the opposite order.                                 *)
IsMirror(q, r) ==
    /\ q.baselines = r.baselines /\ q.shared = r.shared
    /\ q.prefer = r.prefer /\ q.fields = r.fields
    /\ DOMAIN q.records = DOMAIN r.records
    /\ \A i \in DOMAIN r.records : q.records[i] = r.records[Len(r.records) + 1 - i]

LEMMA ReversedIsMirror ==
    ASSUME NEW r, NEW Ids, IsCall(r, Ids), NEW p
    PROVE  LET q == [Reversed(r) EXCEPT !.policy = p]
           IN  IsMirror(q, r) /\ q.policy = p
BY DEF IsCall, IsMirror, Reversed

(* A mirrored set of positions has its ends swapped.                       *)
LEMMA MirroredEnds ==
    ASSUME NEW n \in Nat, NEW S \in SUBSET (1..n), S # {},
           NEW T \in SUBSET (1..n), \A i \in 1..n : i \in T <=> n + 1 - i \in S
    PROVE  /\ T # {}
           /\ Earliest(T) = n + 1 - Latest(S)
           /\ Latest(T) = n + 1 - Earliest(S)
<1>1. \A i \in S : i \in 1..n /\ n + 1 - i \in T
    <2> SUFFICES ASSUME NEW i \in S PROVE i \in 1..n /\ n + 1 - i \in T
        OBVIOUS
    <2>1. i \in 1..n /\ n + 1 - i \in 1..n /\ n + 1 - (n + 1 - i) = i
        OBVIOUS
    <2> QED BY <2>1
<1>2. \A i \in T : i \in 1..n /\ n + 1 - i \in S
    OBVIOUS
<1>3. T # {}
    BY <1>1
<1>4. /\ Earliest(T) \in T /\ \A j \in T : Earliest(T) <= j
      /\ Latest(T) \in T /\ \A j \in T : Latest(T) >= j
      /\ Earliest(S) \in S /\ \A j \in S : Earliest(S) <= j
      /\ Latest(S) \in S /\ \A j \in S : Latest(S) >= j
    BY <1>3, EarliestExists, LatestExists
<1>5. PICK a \in 1..n, b \in 1..n, c \in 1..n, d \in 1..n :
        a = Earliest(S) /\ b = Latest(S) /\ c = Earliest(T) /\ d = Latest(T)
    BY <1>4
<1>6. c <= n + 1 - b /\ b >= n + 1 - c
    BY <1>1, <1>2, <1>4, <1>5
<1>7. d >= n + 1 - a /\ a <= n + 1 - d
    BY <1>1, <1>2, <1>4, <1>5
<1>8. c = n + 1 - b /\ d = n + 1 - a
    BY <1>6, <1>7
<1> QED BY <1>3, <1>5, <1>8

LEMMA MirrorKeepsPlan ==
    ASSUME NEW r, NEW q, NEW Ids, IsCall(r, Ids), IsMirror(q, r),
           \/ r.policy = "first" /\ q.policy = "last"
           \/ r.policy = "last" /\ q.policy = "first"
           \/ /\ r.policy \in {"manual", "prefer"} /\ q.policy = r.policy
              /\ \A i, j \in DOMAIN r.records : r.records[i].sid = r.records[j].sid => i = j
    PROVE  Plan(q) = Plan(r)
<1>1. PICK n \in Nat : n = Len(r.records) /\ DOMAIN r.records = 1..n
    BY DEF IsCall
<1> SUFFICES ASSUME NEW f \in r.fields, NEW k \in Keys
             PROVE  PlanValue(q, f, k) = PlanValue(r, f, k)
    BY DEF Plan, IsMirror
<1> DEFINE C == Contributors(r, f, k)
           D == Contributors(q, f, k)
           P == Preferred(r, f, k)
           Q == Preferred(q, f, k)
<1>2. \A i \in 1..n : n + 1 - i \in 1..n /\ q.records[i] = r.records[n + 1 - i]
    BY <1>1 DEF IsMirror
<1>3. \A i \in 1..n : ValueOf(q, i, f, k) = ValueOf(r, n + 1 - i, f, k)
    BY <1>2 DEF ValueOf
<1>4. \A id : BaselineOf(q, id) = BaselineOf(r, id)
    BY DEF BaselineOf, IsMirror
<1>5. C \in SUBSET (1..n) /\ D \in SUBSET (1..n) /\ \A i \in 1..n : i \in D <=> n + 1 - i \in C
    BY <1>1, <1>2, <1>3, <1>4 DEF Contributors, IsMirror
<1>6. P \in SUBSET (1..n) /\ Q \in SUBSET (1..n) /\ \A i \in 1..n : i \in Q <=> n + 1 - i \in P
    BY <1>2, <1>5 DEF Preferred, IsMirror
<1>7. Offered(q, f, k) = Offered(r, f, k)
    <2>1. ASSUME NEW i \in D PROVE ValueOf(q, i, f, k) \in Offered(r, f, k)
        BY <1>3, <1>5 DEF Offered
    <2>2. ASSUME NEW i \in C PROVE ValueOf(r, i, f, k) \in Offered(q, f, k)
        <3>1. i \in 1..n /\ n + 1 - i \in 1..n /\ n + 1 - (n + 1 - i) = i
            BY <1>5
        <3>2. n + 1 - i \in D /\ ValueOf(q, n + 1 - i, f, k) = ValueOf(r, i, f, k)
            BY <1>3, <1>5, <3>1
        <3> QED BY <3>2 DEF Offered
    <2> QED BY <2>1, <2>2 DEF Offered
<1>8. Diverges(q, f, k) <=> Diverges(r, f, k)
    BY <1>7 DEF Diverges
<1>9. CASE C = {}
    <2>1. D = {}
        BY <1>5, <1>9
    <2> QED BY <1>9, <2>1 DEF PlanValue
<1>10. CASE C # {} /\ ~ Diverges(r, f, k)
    <2>1. D # {} /\ Earliest(D) \in D /\ Earliest(C) \in C
        BY <1>5, <1>10, MirroredEnds, EarliestExists
    <2>2. ValueOf(q, Earliest(D), f, k) \in Offered(r, f, k) /\ ValueOf(r, Earliest(C), f, k) \in Offered(r, f, k)
        BY <1>7, <2>1 DEF Offered
    <2>3. ValueOf(q, Earliest(D), f, k) = ValueOf(r, Earliest(C), f, k)
        BY <1>10, <2>2 DEF Diverges
    <2> QED BY <1>8, <1>10, <2>1, <2>3 DEF PlanValue
<1>11. CASE C # {} /\ Diverges(r, f, k)
    <2>1. /\ D # {} /\ Earliest(D) = n + 1 - Latest(C) /\ Latest(D) = n + 1 - Earliest(C)
          /\ Earliest(C) \in 1..n /\ Latest(C) \in 1..n
        BY <1>5, <1>11, MirroredEnds, EarliestExists, LatestExists
    <2>2. /\ ValueOf(q, Earliest(D), f, k) = ValueOf(r, Latest(C), f, k)
          /\ ValueOf(q, Latest(D), f, k) = ValueOf(r, Earliest(C), f, k)
        <3>1. /\ Earliest(D) \in 1..n /\ Latest(D) \in 1..n
              /\ n + 1 - Earliest(D) = Latest(C) /\ n + 1 - Latest(D) = Earliest(C)
            BY <2>1
        <3> QED BY <1>3, <3>1
    <2>3. Resolve(q, f, k) = Resolve(r, f, k)
        <3>1. CASE r.policy = "first" /\ q.policy = "last"
            BY <2>2, <3>1 DEF Resolve
        <3>2. CASE r.policy = "last" /\ q.policy = "first"
            BY <2>2, <3>2 DEF Resolve
        <3>3. CASE r.policy = "manual" /\ q.policy = "manual"
            BY <3>3 DEF Resolve
        <3>4. CASE r.policy = "prefer" /\ q.policy = "prefer" /\ P = {}
            <4>1. Q = {}
                BY <1>6, <3>4
            <4> QED BY <3>4, <4>1 DEF Resolve
        <3>5. CASE /\ r.policy = "prefer" /\ q.policy = "prefer" /\ P # {}
                   /\ \A i, j \in DOMAIN r.records : r.records[i].sid = r.records[j].sid => i = j
            <4>1. /\ Q # {} /\ Earliest(Q) = n + 1 - Latest(P)
                  /\ Earliest(P) \in P /\ Latest(P) \in P
                BY <1>6, <3>5, MirroredEnds, EarliestExists, LatestExists
            <4>2. Earliest(P) = Latest(P)
                <5>1. r.records[Earliest(P)].sid = r.prefer /\ r.records[Latest(P)].sid = r.prefer
                    BY <4>1 DEF Preferred
                <5>2. Earliest(P) \in DOMAIN r.records /\ Latest(P) \in DOMAIN r.records
                    BY <1>1, <1>6, <4>1
                <5> QED BY <3>5, <5>1, <5>2
            <4>3. Earliest(Q) \in 1..n /\ n + 1 - Earliest(Q) = Earliest(P)
                BY <1>6, <4>1, <4>2
            <4>4. ValueOf(q, Earliest(Q), f, k) = ValueOf(r, Earliest(P), f, k)
                BY <1>3, <4>3
            <4> QED BY <3>5, <4>1, <4>4 DEF Resolve
        <3> QED BY <3>1, <3>2, <3>3, <3>4, <3>5
    <2> QED BY <1>8, <1>11, <2>1, <2>3 DEF PlanValue
<1> QED BY <1>9, <1>10, <1>11

(* First and last are each other's mirror; under manual and prefer the     *)
(* order of distinct sessions decides nothing.                             *)
THEOREM OrderIsForFirstAndLast ==
    ASSUME NEW r, NEW Ids, IsCall(r, Ids)
    PROVE  OrderMatters(r)
<1>1. ASSUME NEW p PROVE IsMirror([Reversed(r) EXCEPT !.policy = p], r)
                         /\ [Reversed(r) EXCEPT !.policy = p].policy = p
    BY ReversedIsMirror
<1>2. CASE r.policy = "first"
    <2>1. Plan([Reversed(r) EXCEPT !.policy = "last"]) = Plan(r)
        BY <1>1, <1>2, MirrorKeepsPlan
    <2> QED BY <1>2, <2>1 DEF OrderMatters
<1>3. CASE r.policy = "last"
    <2>1. Plan([Reversed(r) EXCEPT !.policy = "first"]) = Plan(r)
        BY <1>1, <1>3, MirrorKeepsPlan
    <2> QED BY <1>3, <2>1 DEF OrderMatters
<1>4. CASE r.policy \in {"manual", "prefer"}
    <2>1. ASSUME \A i, j \in DOMAIN r.records : r.records[i].sid = r.records[j].sid => i = j
          PROVE  Plan([Reversed(r) EXCEPT !.policy = r.policy]) = Plan(r)
        BY <1>1, <1>4, <2>1, MirrorKeepsPlan
    <2> QED BY <1>4, <2>1 DEF OrderMatters
<1> QED BY <1>2, <1>3, <1>4 DEF IsCall, IsRequest, Policies

(* The request of a merge that is repeated after it was applied to the     *)
(* source at place at.                                                     *)
IsRepeat(q, r, at) ==
    /\ q.baselines = r.baselines /\ q.shared = r.shared
    /\ q.prefer = r.prefer /\ q.fields = r.fields /\ q.policy = r.policy
    /\ DOMAIN q.records = DOMAIN r.records
    /\ \A i \in DOMAIN r.records : q.records[i].sid = r.records[i].sid
    /\ \A i \in DOMAIN r.records, f \in Fields, k \in Keys :
        ValueOf(q, i, f, k) = IF i = at THEN Overlaid(r, at)[f][k] ELSE ValueOf(r, i, f, k)

LEMMA AppliedIsRepeat ==
    ASSUME NEW r, NEW Ids, IsCall(r, Ids), NEW at \in DOMAIN r.records
    PROVE  IsRepeat(Applied(r, at), r, at)
<1> DEFINE q == Applied(r, at)
<1>1. /\ q.baselines = r.baselines /\ q.shared = r.shared
      /\ q.prefer = r.prefer /\ q.fields = r.fields /\ q.policy = r.policy
      /\ q.records = [r.records EXCEPT ![at].rec.data = Overlaid(r, at)]
    BY DEF IsCall, Applied
<1>2. ASSUME NEW i \in DOMAIN r.records
      PROVE  /\ q.records[i].sid = r.records[i].sid
             /\ q.records[i].rec.data = IF i = at THEN Overlaid(r, at) ELSE r.records[i].rec.data
    <2>1. r.records[i] \in [sid : Ids, rec : Exports]
        <3>1. r.records \in Seq([sid : Ids, rec : Exports])
            BY DEF IsCall
        <3> QED BY <3>1, ElementTyped
    <2>2. CASE i # at
        BY <1>1, <2>2
    <2>3. CASE i = at
        <3> DEFINE new == [r.records[i] EXCEPT !.rec.data = Overlaid(r, at)]
        <3>1. q.records[i] = new
            BY <1>1, <2>3
        <3>2. new.sid = r.records[i].sid /\ new.rec.data = Overlaid(r, at)
            BY <2>1 DEF Exports
        <3> HIDE DEF new, q
        <3> QED BY <2>3, <3>1, <3>2
    <2> QED BY <2>2, <2>3
<1> HIDE DEF q
<1>3. DOMAIN q.records = DOMAIN r.records
    BY <1>1
<1> QED BY <1>1, <1>2, <1>3 DEF IsRepeat, ValueOf, q

LEMMA RepeatOfKey ==
    ASSUME NEW r, NEW q, NEW Ids, IsCall(r, Ids), NEW at \in DOMAIN r.records, IsRepeat(q, r, at),
           NEW f \in Fields, NEW k \in Keys
    PROVE  Plan(q)[f][k] \in {NoValue, Overlaid(r, at)[f][k]}
<1> DEFINE p == Plan(r)[f][k]
           C == Contributors(r, f, k)
           D == Contributors(q, f, k)
           P == Preferred(r, f, k)
           Q == Preferred(q, f, k)
<1>1. PICK n \in Nat : n = Len(r.records) /\ DOMAIN r.records = 1..n
    BY DEF IsCall
<1>2. \A id : BaselineOf(q, id) = BaselineOf(r, id)
    BY DEF BaselineOf, IsRepeat
<1>3. Overlaid(r, at)[f][k] = IF p = NoValue THEN ValueOf(r, at, f, k) ELSE p
    BY DEF Overlaid
<1>4. C \in SUBSET (1..n) /\ P \in SUBSET (1..n) /\ P \subseteq C
    BY <1>1 DEF Contributors, Preferred
<1>5. D \in SUBSET (1..n) /\ Q \in SUBSET (1..n) /\ Q \subseteq D
    BY <1>1 DEF Contributors, Preferred, IsRepeat
<1>6. CASE f \notin r.fields
    BY <1>6 DEF Plan, IsRepeat
(* Nothing was applied at this key.                                        *)
<1>7. CASE f \in r.fields /\ p = NoValue
    <2>1. \A i \in 1..n : ValueOf(q, i, f, k) = ValueOf(r, i, f, k)
        BY <1>1, <1>3, <1>7 DEF IsRepeat
    <2>2. D = C
        BY <1>1, <1>2, <2>1 DEF Contributors, IsRepeat
    <2>3. Q = P
        BY <1>1, <1>4, <2>2 DEF Preferred, IsRepeat
    <2>4. Diverges(q, f, k) <=> Diverges(r, f, k)
        <3>1. Offered(q, f, k) = Offered(r, f, k)
            BY <1>4, <2>1, <2>2 DEF Offered
        <3> QED BY <3>1 DEF Diverges
    <2>5. /\ C # {} => Earliest(C) \in 1..n /\ Latest(C) \in 1..n
          /\ P # {} => Earliest(P) \in 1..n
        BY <1>4, EarliestExists, LatestExists
    <2>6. C # {} => Resolve(q, f, k) = Resolve(r, f, k)
        BY <2>1, <2>2, <2>3, <2>5 DEF Resolve, IsRepeat
    <2>7. PlanValue(q, f, k) = PlanValue(r, f, k)
        BY <2>1, <2>2, <2>4, <2>5, <2>6 DEF PlanValue
    <2> QED BY <1>7, <2>7 DEF Plan, IsRepeat
(* The value applied is that of a source that still offers it.             *)
<1>8. CASE f \in r.fields /\ p # NoValue
    <2>1. p = PlanValue(r, f, k) /\ Plan(q)[f][k] = PlanValue(q, f, k) /\ C # {}
        BY <1>8 DEF Plan, PlanValue, IsRepeat
    <2>2. \A i \in 1..n : ValueOf(q, i, f, k) = IF i = at THEN p ELSE ValueOf(r, i, f, k)
        BY <1>1, <1>3, <1>8 DEF IsRepeat
    <2>3. \A i \in 1..n : ValueOf(r, i, f, k) = p => (i \in C => i \in D)
        BY <1>1, <1>2, <2>2 DEF Contributors, IsRepeat
    <2>4. \A i \in D : i # at => i \in C
        BY <1>1, <1>2, <1>5, <2>2 DEF Contributors, IsRepeat
    <2>5. ASSUME ~ Diverges(r, f, k)
          PROVE  \A i \in D : ValueOf(q, i, f, k) = p
        <3>1. Earliest(C) \in C /\ p = ValueOf(r, Earliest(C), f, k)
            BY <1>4, <2>1, <2>5, EarliestExists DEF PlanValue
        <3>2. \A i \in C : ValueOf(r, i, f, k) = p
            BY <2>5, <3>1 DEF Diverges, Offered
        <3> QED BY <1>5, <2>2, <2>4, <3>2
    <2>6. ASSUME D # {}, ~ Diverges(q, f, k), NEW e \in D, ValueOf(q, e, f, k) = p
          PROVE  PlanValue(q, f, k) = p
        <3>1. Earliest(D) \in D
            BY <1>5, <2>6, EarliestExists
        <3>2. ValueOf(q, Earliest(D), f, k) = p
            BY <2>6, <3>1 DEF Diverges, Offered
        <3> QED BY <2>6, <3>2 DEF PlanValue
    <2>7. CASE ~ Diverges(r, f, k)
        <3>1. ~ Diverges(q, f, k)
            BY <2>5, <2>7 DEF Diverges, Offered
        <3>2. CASE D = {}
            BY <2>1, <3>2 DEF PlanValue
        <3>3. CASE D # {}
            BY <1>3, <1>8, <2>1, <2>5, <2>6, <2>7, <3>1, <3>3
        <3> QED BY <3>2, <3>3
    <2>8. CASE Diverges(r, f, k)
        <3>1. p = Resolve(r, f, k)
            BY <2>1, <2>8 DEF PlanValue
        (* The end of a set is at a source with the planned value.         *)
        <3>2. ASSUME r.policy = "first"
              PROVE  \E e \in D : ValueOf(q, e, f, k) = p /\ e = Earliest(D)
            <4>1. /\ p = ValueOf(r, Earliest(C), f, k) /\ Earliest(C) \in C
                  /\ \A j \in C : Earliest(C) <= j
                BY <1>4, <2>1, <3>1, <3>2, EarliestExists DEF Resolve
            <4>2. Earliest(C) \in D
                BY <1>4, <2>3, <4>1
            <4>3. Earliest(D) \in D /\ Earliest(D) <= Earliest(C)
                BY <1>5, <4>2, EarliestExists
            <4>4. Earliest(D) # at => Earliest(D) = Earliest(C)
                <5> SUFFICES ASSUME Earliest(D) # at PROVE Earliest(D) = Earliest(C)
                    OBVIOUS
                <5>1. Earliest(C) <= Earliest(D)
                    BY <2>4, <4>1, <4>3
                <5>2. Earliest(C) \in 1..n /\ Earliest(D) \in 1..n
                    BY <1>4, <1>5, <4>1, <4>3
                <5> QED BY <4>3, <5>1, <5>2
            <4> QED BY <1>5, <2>2, <4>1, <4>3, <4>4
        <3>3. ASSUME r.policy = "last"
              PROVE  \E e \in D : ValueOf(q, e, f, k) = p /\ e = Latest(D)
            <4>1. /\ p = ValueOf(r, Latest(C), f, k) /\ Latest(C) \in C
                  /\ \A j \in C : Latest(C) >= j
                BY <1>4, <2>1, <3>1, <3>3, LatestExists DEF Resolve
            <4>2. Latest(C) \in D
                BY <1>4, <2>3, <4>1
            <4>3. Latest(D) \in D /\ Latest(D) >= Latest(C)
                BY <1>5, <4>2, LatestExists
            <4>4. Latest(D) # at => Latest(D) = Latest(C)
                <5> SUFFICES ASSUME Latest(D) # at PROVE Latest(D) = Latest(C)
                    OBVIOUS
                <5>1. Latest(C) >= Latest(D)
                    BY <2>4, <4>1, <4>3
                <5>2. Latest(C) \in 1..n /\ Latest(D) \in 1..n
                    BY <1>4, <1>5, <4>1, <4>3
                <5> QED BY <4>3, <5>1, <5>2
            <4> QED BY <1>5, <2>2, <4>1, <4>3, <4>4
        <3>4. ASSUME r.policy = "prefer" /\ P # {}
              PROVE  \E e \in D : ValueOf(q, e, f, k) = p /\ e = Earliest(Q) /\ Q # {}
            <4>1. /\ p = ValueOf(r, Earliest(P), f, k) /\ Earliest(P) \in P
                  /\ \A j \in P : Earliest(P) <= j
                BY <1>4, <3>1, <3>4, EarliestExists DEF Resolve
            <4>2. Earliest(P) \in Q
                <5>1. Earliest(P) \in D
                    BY <1>4, <2>3, <4>1
                <5> QED BY <1>1, <1>4, <4>1, <5>1 DEF Preferred, IsRepeat
            <4>3. Earliest(Q) \in Q /\ Earliest(Q) <= Earliest(P)
                BY <1>5, <4>2, EarliestExists
            <4>4. Earliest(Q) # at => Earliest(Q) = Earliest(P)
                <5> SUFFICES ASSUME Earliest(Q) # at PROVE Earliest(Q) = Earliest(P)
                    OBVIOUS
                <5>1. Earliest(Q) \in P
                    BY <1>1, <1>5, <2>4, <4>3 DEF Preferred, IsRepeat
                <5>2. Earliest(P) <= Earliest(Q)
                    BY <4>1, <5>1
                <5>3. Earliest(P) \in 1..n /\ Earliest(Q) \in 1..n
                    BY <1>4, <1>5, <4>1, <4>3
                <5> QED BY <4>3, <5>2, <5>3
            <4> QED BY <1>5, <2>2, <4>1, <4>2, <4>3, <4>4
        <3>5. r.policy \in {"first", "last"} \/ (r.policy = "prefer" /\ P # {})
            <4>1. r.policy \in {"manual", "first", "last", "prefer"}
                BY DEF IsCall, IsRequest, Policies
            <4>2. CASE r.policy = "manual" \/ (r.policy = "prefer" /\ P = {})
                BY <1>8, <3>1, <4>2 DEF Resolve
            <4> QED BY <4>1, <4>2
        <3>6. \E e \in D : ValueOf(q, e, f, k) = p
            BY <3>2, <3>3, <3>4, <3>5
        <3>7. CASE ~ Diverges(q, f, k)
            BY <1>3, <1>8, <2>1, <2>6, <3>6, <3>7
        <3>8. CASE Diverges(q, f, k)
            <4>1. Resolve(q, f, k) = p
                BY <3>2, <3>3, <3>4, <3>5 DEF Resolve, IsRepeat
            <4>2. PlanValue(q, f, k) = p
                BY <3>6, <3>8, <4>1 DEF PlanValue
            <4> QED BY <1>3, <1>8, <2>1, <4>2
        <3> QED BY <3>7, <3>8
    <2> QED BY <2>7, <2>8
<1> QED BY <1>6, <1>7, <1>8

(* Whichever source a merge is into: the plan of the same merge, repeated, *)
(* writes what is there already.                                           *)
THEOREM RepeatedMergeIsIdle ==
    ASSUME NEW r, NEW Ids, IsCall(r, Ids)
    PROVE  RepeatIsIdle(r)
BY AppliedIsRepeat, RepeatOfKey DEF RepeatIsIdle

(* What services checks of requests with three records, for any request.   *)
THEOREM PlansAreSound ==
    ASSUME NEW r, NEW Ids, IsCall(r, Ids)
    PROVE  PlanIsSound(r)
BY PlanIsEdits, NoEditVanishes, ManualIsNeutral, OrderIsForFirstAndLast, RepeatedMergeIsIdle
   DEF PlanIsSound, IsCall

-----------------------------------------------------------------------------
(* The run: idb_merge.                                                     *)

(* The request only ever differs from the arguments in what was gathered.  *)
RequestShape ==
    req = [records |-> req.records, baselines |-> req.baselines,
           shared |-> NoRecord, policy |-> args.policy,
           prefer |-> args.prefer, fields |-> args.fields]

RequestTyped ==
    /\ req.records \in Seq([sid : Copies, rec : Exports])
    /\ \A b \in DOMAIN req.baselines : req.baselines[b] \in Exports

RequestOK == RequestShape /\ RequestTyped

(* The parts that never change.                                            *)
LEMMA RequestParts ==
    ASSUME RequestOK
    PROVE  /\ req.shared = NoRecord
           /\ req.policy = args.policy
           /\ req.fields = args.fields
BY DEF RequestOK, RequestShape

(* A record is its session's; with no failure so far they are the sources' *)
(* in order.                                                               *)
RecordsOK == \A i \in DOMAIN req.records :
    /\ req.records[i].sid \in SourceIds(args)
    /\ req.records[i].rec.sha = prov[req.records[i].sid].sha
    /\ req.records[i].rec.imagebase = prov[req.records[i].sid].imagebase
    /\ unreachable = {} => i \in DOMAIN args.sources /\ req.records[i].sid = args.sources[i]

Exported == pc \in {"reconcile", "target", "apply", "snapshot", "done"}

AllExported == Exported => unreachable = {} /\ Len(req.records) = Len(args.sources)

Agreement == pc \in {"target", "apply", "snapshot", "done"} => ProvenanceAgrees(req)

TargetOK == Writing => target \in Copies /\ Verified(target)

NothingToDo ==
    /\ pc \in {"idle", "export", "reconcile", "target"} => todo = {}
    /\ pc = "idle" => unreachable = {}

TodoOK == todo \subseteq Planned(req)

(* Adopted instances are refused as sources before anything is asked.      *)
SourcesArePool == pc \notin {"idle", "refused"} => SourceIds(args) \subseteq Sids

MergeInv == /\ SourcesArePool /\ RequestOK /\ RecordsOK /\ AllExported
            /\ Agreement /\ TargetOK /\ NothingToDo /\ TodoOK

IInv == TypeOK /\ MergeInv

(* The arguments of a merge are well-formed.                               *)
LEMMA ArgsTyped ==
    ASSUME TypeOK
    PROVE  /\ args.sources \in Seq(Copies)
           /\ args.policy \in Policies
           /\ args.fields \subseteq Fields
           /\ SourceIds(args) \subseteq Copies
<1>1. CASE args = NoRequest
    BY <1>1 DEF NoRequest, Policies, SourceIds
<1>2. CASE args \in Requests
    <2>1. args \in [sources : Seq(Copies), into : Copies \cup {NoSid},
                    policy : Policies, prefer : Copies \cup {NoSid},
                    fields : SUBSET Fields, dryRun : BOOLEAN, useBaseline : BOOLEAN]
        BY <1>2, RequestsAssumption
    <2> QED BY <2>1 DEF SourceIds
<1> QED BY <1>1, <1>2 DEF TypeOK

(* The next source to ask is one, and its position is new.                 *)
LEMMA NextSource ==
    ASSUME TypeOK, RequestOK, Asked < Len(args.sources)
    PROVE  /\ Asked + 1 \in DOMAIN args.sources
           /\ Source \in SourceIds(args)
           /\ Source \in Copies
           /\ Cardinality(unreachable) \in Nat
           /\ unreachable = {} => Asked = Len(req.records)
<1>1. args.sources \in Seq(Copies) /\ req.records \in Seq([sid : Copies, rec : Exports])
    BY ArgsTyped DEF RequestOK, RequestTyped
<1>2. Cardinality(unreachable) \in Nat
    <2>1. IsFiniteSet(1..Len(args.sources))
        BY <1>1, FS_Interval
    <2>2. IsFiniteSet(unreachable)
        BY <1>1, <2>1, FS_Subset DEF TypeOK
    <2> QED BY <2>2, FS_CardinalityType
<1>3. Asked + 1 \in 1..Len(args.sources)
    BY <1>1, <1>2 DEF Asked
<1>4. unreachable = {} => Asked = Len(req.records)
    BY <1>1, FS_EmptySet DEF Asked
<1> QED BY <1>1, <1>2, <1>3, <1>4 DEF Source, SourceIds

(* What reconcile is handed is always a request it is specified for.       *)
LEMMA RequestIsOne ==
    ASSUME TypeOK, RequestOK
    PROVE  IsRequest(req, Copies)
<1> USE DEF RequestOK
<1>1. \E n \in Nat : DOMAIN req.records = 1..n
    BY DEF RequestTyped
<1>2. ASSUME NEW i \in DOMAIN req.records
      PROVE  req.records[i].sid \in Copies /\ IsRecord(req.records[i].rec)
    <2>1. req.records[i] \in [sid : Copies, rec : Exports]
        BY ElementTyped DEF RequestTyped
    <2> QED BY <2>1 DEF IsRecord, Exports
<1>3. IsRecord(req.shared)
    <2>1. NoRecord.data \in Data
        BY DEF NoRecord, EmptyData, Data
    <2> QED BY <2>1, RequestParts DEF IsRecord
<1>4. ASSUME NEW id \in Copies PROVE IsRecord(BaselineOf(req, id))
    <2>1. id \in DOMAIN req.baselines => req.baselines[id] \in Exports
        BY DEF RequestTyped
    <2> QED BY <1>3, <2>1 DEF IsRecord, Exports, BaselineOf
<1>5. req.fields \subseteq Fields /\ req.policy \in Policies
    BY ArgsTyped, RequestParts
<1> QED BY <1>1, <1>2, <1>4, <1>5 DEF IsRequest

LEMMA RequestIsCall ==
    ASSUME TypeOK, RequestOK
    PROVE  IsCall(req, Copies)
<1>1. req.records \in Seq([sid : Copies, rec : Exports])
    BY DEF RequestOK, RequestTyped
<1>2. req = [records |-> req.records, baselines |-> req.baselines, shared |-> req.shared,
             policy |-> req.policy, prefer |-> req.prefer, fields |-> req.fields]
    BY DEF RequestOK, RequestShape
<1> QED BY <1>1, <1>2, RequestIsOne DEF IsCall

(* A planned item is a signature, and installing it keeps the type.        *)
LEMMA PlannedIsValue ==
    ASSUME TypeOK, RequestOK, NEW f \in Fields, NEW k \in Keys,
           <<f, k>> \in Planned(req)
    PROVE  Plan(req)[f][k] \in Values
<1>1. Plan(req)[f][k] # NoValue
    BY DEF Planned
<1>2. PICK i \in Contributors(req, f, k) : Plan(req)[f][k] = ValueOf(req, i, f, k)
    BY <1>1, RequestIsOne, PlanPicksAContributor
<1>3. req.records[i].rec.data \in Data
    BY <1>2, RequestIsOne DEF Contributors, IsRequest, IsRecord
<1> QED BY <1>1, <1>2, <1>3 DEF ValueOf, Data

LEMMA InstallTyped ==
    ASSUME TypeOK, RequestOK, TodoOK, NEW S \in SUBSET todo
    PROVE  Install(S) \in [Copies -> Data]
<1> DEFINE data == [f \in Fields |-> [k \in Keys |->
        IF <<f, k>> \in S THEN Written(db[target][f][k], Plan(req)[f][k])
                          ELSE db[target][f][k]]]
<1>1. db \in [Copies -> Data]
    BY DEF TypeOK
<1>2. CASE target \in Copies
    <2>1. ASSUME NEW f \in Fields, NEW k \in Keys PROVE data[f][k] \in Values \cup {NoValue}
        <3>1. db[target][f][k] \in Values \cup {NoValue}
            BY <1>1, <1>2 DEF Data
        <3>2. <<f, k>> \in S => Plan(req)[f][k] \in Values
            BY PlannedIsValue DEF TodoOK
        <3>3. CASE <<f, k>> \in S /\ db[target][f][k] = NoValue
            BY <3>2, <3>3 DEF Written
        <3>4. CASE <<f, k>> \in S /\ db[target][f][k] # NoValue
            BY <3>1, <3>2, <3>4, ValuesClosed
        <3>5. CASE <<f, k>> \notin S
            BY <3>1, <3>5
        <3> QED BY <3>3, <3>4, <3>5
    <2>2. data \in Data
        BY <2>1 DEF Data
    <2>3. Install(S) = [db EXCEPT ![target] = data]
        BY DEF Install
    <2> HIDE DEF data
    <2> QED BY <1>1, <1>2, <2>2, <2>3
<1>3. CASE target \notin Copies
    <2>1. Install(S) = db
        <3> HIDE DEF data
        <3>1. Install(S) = [db EXCEPT ![target] = data]
            BY DEF Install, data
        <3> QED BY <1>1, <1>3, <3>1
    <2> QED BY <1>1, <2>1
<1> QED BY <1>2, <1>3

(* What happens around the merge does not reach its invariant.             *)
LEMMA MergeInvFrame == MergeInv /\ UNCHANGED <<merge, prov>> => MergeInv'
<1> SUFFICES ASSUME MergeInv, UNCHANGED <<merge, prov>> PROVE MergeInv'
    OBVIOUS
<1> USE DEF MergeInv, merge
<1>1. RequestOK'
    BY DEF RequestOK, RequestShape, RequestTyped
<1>2. RecordsOK'
    BY DEF RecordsOK, SourceIds
<1>3. AllExported'
    BY DEF AllExported, Exported
<1>4. Agreement'
    BY DEF Agreement
<1>5. TargetOK'
    BY DEF TargetOK, Writing, Verified, SourceIds, ShaConfirmed, BaseKnown,
           BaseConfirmed, AgreedSha, AgreedBase
<1>6. NothingToDo' /\ TodoOK'
    BY DEF NothingToDo, TodoOK
<1>7. SourcesArePool'
    BY DEF SourcesArePool, SourceIds
<1> QED BY <1>1, <1>2, <1>3, <1>4, <1>5, <1>6, <1>7

LEMMA InitIInv == Init => IInv
<1> SUFFICES ASSUME Init PROVE IInv
    OBVIOUS
<1> USE DEF Init
<1>1. TypeOK
    <2>1. db \in [Copies -> Data]
        BY PristineAssumption
    <2>2. args = NoRequest /\ args.sources = <<>>
        BY DEF NoRequest
    <2> QED BY <2>1, <2>2 DEF TypeOK, Items
<1>2. RequestOK
    <2>1. req.records = <<>> /\ req.baselines = <<>> /\ RequestShape
        BY DEF Asking, RequestShape
    <2> QED BY <2>1 DEF RequestOK, RequestTyped
<1>3. req.records = <<>>
    BY DEF Asking
<1>4. RecordsOK
    BY <1>3 DEF RecordsOK
<1>5. AllExported /\ Agreement /\ TargetOK /\ NothingToDo /\ TodoOK /\ SourcesArePool
    BY DEF AllExported, Exported, Agreement, TargetOK, Writing, NothingToDo,
           TodoOK, SourcesArePool
<1> QED BY <1>1, <1>2, <1>4, <1>5 DEF IInv, MergeInv

(* Agents, closes and captures.                                            *)
LEMMA WorkerStep ==
    ASSUME IInv,
           \/ \E c \in Copies, f \in Fields, k \in Keys, v \in Values \cup {NoValue} :
                  AgentEdit(c, f, k, v)
           \/ \E c \in Copies : SessionGone(c)
           \/ \E s \in Sids : Capture(s) \/ CaptureFails(s)
    PROVE  IInv'
<1>1. UNCHANGED <<merge, prov>>
    BY DEF AgentEdit, SessionGone, Capture, CaptureFails
<1>2. MergeInv'
    BY <1>1, MergeInvFrame DEF IInv
<1>3. TypeOK'
    <2> USE <1>1 DEF IInv, TypeOK, merge
    <2>1. ASSUME NEW c \in Copies, NEW f \in Fields, NEW k \in Keys,
                 NEW v \in Values \cup {NoValue}, AgentEdit(c, f, k, v)
          PROVE  TypeOK'
        <3>1. db' = [db EXCEPT ![c][f][k] = v]
            BY <2>1 DEF AgentEdit
        <3>2. db' \in [Copies -> Data]
            BY <3>1 DEF Data
        <3>3. <<c, f, k>> \in Items
            BY DEF Items
        <3>4. edited' \subseteq Items /\ late' \subseteq Items
            BY <2>1, <3>3 DEF AgentEdit
        <3>5. UNCHANGED <<open, capturing, baseline>>
            BY <2>1 DEF AgentEdit
        <3> QED BY <3>2, <3>4, <3>5
    <2>2. ASSUME NEW c \in Copies, SessionGone(c) PROVE TypeOK'
        BY <2>2 DEF SessionGone
    <2>3. ASSUME NEW x \in Sids, Capture(x) \/ CaptureFails(x) PROVE TypeOK'
        <3>1. x \in Copies
            BY DEF Copies
        <3>2. baseline' \in [Sids -> Data \cup {NoBaseline}]
            BY <2>3, <3>1 DEF Capture, CaptureFails
        <3> QED BY <2>3, <3>2 DEF Capture, CaptureFails
    <2> QED BY <2>1, <2>2, <2>3
<1> QED BY <1>2, <1>3 DEF IInv

LEMMA StartStep ==
    ASSUME IInv, NEW a \in Requests, Start(a)
    PROVE  IInv'
<1> USE DEF Start, worker, IInv, MergeInv
<1>1. unreachable = {} /\ todo = {}
    BY DEF NothingToDo
<1>2. /\ req'.records = <<>> /\ req'.baselines = <<>>
      /\ pc' \in {"export", "refused"}
    BY DEF Asking
<1>3. TypeOK'
    BY <1>1, <1>2 DEF TypeOK
<1>4. RequestOK'
    <2>1. RequestShape'
        BY DEF RequestShape, Asking
    <2> QED BY <1>2, <2>1 DEF RequestOK, RequestTyped
<1>5. RecordsOK'
    BY <1>2 DEF RecordsOK
<1>6. AllExported' /\ Agreement' /\ TargetOK' /\ NothingToDo' /\ TodoOK'
    BY <1>1, <1>2 DEF AllExported, Exported, Agreement, TargetOK, Writing, NothingToDo, TodoOK
<1>7. SourcesArePool'
    BY DEF SourcesArePool, SourceIds, Admissible
<1> QED BY <1>3, <1>4, <1>5, <1>6, <1>7

LEMMA ExportOkStep ==
    ASSUME IInv, ExportOk
    PROVE  IInv'
<1> USE DEF ExportOk, worker, IInv, MergeInv
<1> DEFINE entry == [sid |-> Source, rec |-> Export(Source)]
<1>1. /\ Source \in SourceIds(args) /\ Source \in Copies
      /\ Asked + 1 \in DOMAIN args.sources
      /\ unreachable = {} => Asked = Len(req.records)
    BY NextSource
<1>2. Export(Source) \in Exports
    <2>1. prov[Source] \in [sha : Shas, imagebase : Bases] /\ db[Source] \in Data
        BY <1>1 DEF TypeOK
    <2> QED BY <2>1 DEF Export, Exports
<1>3. entry \in [sid : Copies, rec : Exports]
    BY <1>1, <1>2
<1>4. /\ req'.records = Append(req.records, entry)
      /\ req'.baselines = req.baselines
      /\ RequestShape'
    <2>1. PICK R, B : req = [records |-> R, baselines |-> B,
              shared |-> NoRecord, policy |-> args.policy,
              prefer |-> args.prefer, fields |-> args.fields]
        BY DEF RequestOK, RequestShape
    <2>2. req' = [req EXCEPT !.records = Append(req.records, entry)]
        OBVIOUS
    <2> HIDE DEF entry
    <2>3. req' = [records |-> Append(R, entry), baselines |-> B,
              shared |-> NoRecord, policy |-> args.policy,
              prefer |-> args.prefer, fields |-> args.fields]
        BY <2>1, <2>2
    <2>4. args' = args /\ req.records = R /\ req.baselines = B
        BY <2>1
    <2>5. req'.records = Append(R, entry) /\ req'.baselines = B
        BY <2>3
    <2>6. RequestShape'
        <3> HIDE DEF ExportOk, IInv, MergeInv
        <3> QED BY <2>3, <2>4, <2>5 DEF RequestShape
    <2> QED BY <2>4, <2>5, <2>6
<1>5. req.records \in Seq([sid : Copies, rec : Exports])
    BY DEF RequestOK, RequestTyped
<1> HIDE DEF entry
<1>6. RequestOK'
    BY <1>3, <1>4, <1>5 DEF RequestOK, RequestTyped
<1>7. TypeOK'
    BY DEF TypeOK
<1>8. RecordsOK'
    <2> SUFFICES ASSUME NEW i \in DOMAIN req'.records
                 PROVE  /\ req'.records[i].sid \in SourceIds(args)
                        /\ req'.records[i].rec.sha = prov[req'.records[i].sid].sha
                        /\ req'.records[i].rec.imagebase = prov[req'.records[i].sid].imagebase
                        /\ unreachable = {} => /\ i \in DOMAIN args.sources
                                              /\ req'.records[i].sid = args.sources[i]
        BY DEF RecordsOK, SourceIds
    <2>1. CASE i \in DOMAIN req.records
        <3>1. req'.records[i] = req.records[i]
            BY <1>3, <1>4, <1>5, <2>1
        <3> QED BY <2>1, <3>1 DEF RecordsOK
    <2>2. CASE i \notin DOMAIN req.records
        <3>1. i = Len(req.records) + 1 /\ req'.records[i] = entry
            BY <1>3, <1>4, <1>5, <2>2
        <3>2. unreachable = {} => i = Asked + 1
            BY <1>1, <3>1
        <3> QED BY <1>1, <3>1, <3>2 DEF entry, Export, Source
    <2> QED BY <2>1, <2>2
<1>9. AllExported' /\ Agreement' /\ TargetOK' /\ NothingToDo' /\ TodoOK'
    BY DEF AllExported, Exported, Agreement, TargetOK, Writing, NothingToDo, TodoOK
<1>s. SourcesArePool'
    BY DEF SourcesArePool, SourceIds
<1> QED BY <1>6, <1>7, <1>8, <1>9, <1>s

LEMMA ExportFailsStep ==
    ASSUME IInv, ExportFails
    PROVE  IInv'
<1> USE DEF ExportFails, worker, IInv, MergeInv
<1>1. Asked + 1 \in DOMAIN args.sources
    BY NextSource
<1>2. TypeOK'
    BY <1>1 DEF TypeOK
<1>3. RequestOK'
    BY DEF RequestOK, RequestShape, RequestTyped
<1>4. RecordsOK'
    BY DEF RecordsOK, SourceIds
<1>5. AllExported' /\ Agreement' /\ TargetOK' /\ NothingToDo' /\ TodoOK'
    BY DEF AllExported, Exported, Agreement, TargetOK, Writing, NothingToDo, TodoOK
<1>s. SourcesArePool'
    BY DEF SourcesArePool, SourceIds
<1> QED BY <1>2, <1>3, <1>4, <1>5, <1>s

LEMMA ExportsEndStep ==
    ASSUME IInv, ExportsEnd
    PROVE  IInv'
<1> USE DEF ExportsEnd, worker, IInv, MergeInv
<1>1. TypeOK'
    BY DEF TypeOK
<1>2. RequestOK'
    BY DEF RequestOK, RequestShape, RequestTyped
<1>3. RecordsOK'
    BY DEF RecordsOK, SourceIds
<1>4. AllExported'
    <2>1. req.records \in Seq([sid : Copies, rec : Exports])
        BY DEF RequestOK, RequestTyped
    <2>2. unreachable = {} => Asked = Len(req.records)
        BY <2>1, FS_EmptySet DEF Asked
    <2> QED BY <2>2 DEF AllExported, Exported
<1>5. Agreement' /\ TargetOK' /\ NothingToDo' /\ TodoOK'
    BY DEF Agreement, TargetOK, Writing, NothingToDo, TodoOK
<1>s. SourcesArePool'
    BY DEF SourcesArePool, SourceIds
<1> QED BY <1>1, <1>2, <1>3, <1>4, <1>5, <1>s

LEMMA ReconcileStep ==
    ASSUME IInv, ReconcileSources
    PROVE  IInv'
<1> USE DEF ReconcileSources, worker, IInv, MergeInv
<1>1. /\ req'.records = req.records
      /\ req'.baselines = GatherBaselines
      /\ RequestShape'
    BY DEF RequestOK, RequestShape
<1>2. pc' \in {"refused", "report", "target"}
    OBVIOUS
<1>3. TypeOK'
    BY <1>2 DEF TypeOK
<1>4. RequestOK'
    <2>1. ASSUME NEW x \in Sids, baseline[x] # NoBaseline
          PROVE  [sha |-> prov[x].sha, imagebase |-> prov[x].imagebase,
                  data |-> baseline[x]] \in Exports
        <3>1. prov[x] \in [sha : Shas, imagebase : Bases] /\ baseline[x] \in Data
            BY <2>1 DEF TypeOK, Copies
        <3> QED BY <3>1 DEF Exports
    <2>2. DOMAIN GatherBaselines \subseteq {x \in SourceIds(args) : baseline[x] # NoBaseline}
        BY DEF GatherBaselines, Captured
    <2>3. SourceIds(args) \subseteq Sids
        BY DEF SourcesArePool
    <2>4. \A b \in DOMAIN GatherBaselines : GatherBaselines[b] \in Exports
        BY <2>1, <2>2, <2>3 DEF GatherBaselines
    <2> QED BY <1>1, <2>4 DEF RequestOK, RequestTyped
<1>5. RecordsOK'
    BY <1>1 DEF RecordsOK, SourceIds
<1>6. AllExported'
    BY <1>1 DEF AllExported, Exported
<1>7. Agreement'
    BY DEF Agreement
<1>8. TargetOK' /\ NothingToDo' /\ TodoOK'
    BY <1>2 DEF TargetOK, Writing, NothingToDo, TodoOK
<1>s. SourcesArePool'
    BY DEF SourcesArePool, SourceIds
<1> QED BY <1>1, <1>3, <1>4, <1>5, <1>6, <1>7, <1>8, <1>s
LEMMA TargetStep ==
    ASSUME IInv, AcceptTarget \/ RefuseTarget
    PROVE  IInv'
<1> USE DEF worker, IInv, MergeInv
<1>1. UNCHANGED <<worker, args, req, unreachable, failures, snapshot>>
    BY DEF AcceptTarget, RefuseTarget, EndAs
<1>2. pc' = "apply" \/ (pc' = "refused" /\ UNCHANGED <<target, todo>>)
    BY DEF AcceptTarget, RefuseTarget, EndAs
<1>3. RequestOK'
    BY <1>1 DEF RequestOK, RequestShape, RequestTyped
<1>4. RecordsOK' /\ AllExported' /\ Agreement' /\ SourcesArePool'
    BY <1>1, <1>2 DEF RecordsOK, SourceIds, AllExported, Exported, Agreement,
        SourcesArePool, AcceptTarget, RefuseTarget
<1>5. NothingToDo'
    BY <1>1, <1>2 DEF NothingToDo
<1>6. CASE AcceptTarget
    <2>1. target' \in Copies
        <3>1. SourceIds(args) \cup open \subseteq Copies
            BY ArgsTyped DEF TypeOK
        <3> QED BY <1>6, <3>1 DEF AcceptTarget, Found
    <2>2. TypeOK'
        BY <1>1, <1>6, <2>1 DEF TypeOK, AcceptTarget, Planned
    <2>3. TargetOK'
        BY <1>1, <1>6, <2>1 DEF AcceptTarget, TargetOK, Verified, SourceIds, ShaConfirmed,
            BaseKnown, BaseConfirmed, AgreedSha, AgreedBase
    <2>4. TodoOK'
        BY <1>1, <1>6 DEF AcceptTarget, TodoOK
    <2> QED BY <1>3, <1>4, <1>5, <2>2, <2>3, <2>4
<1>7. CASE RefuseTarget
    <2>1. TypeOK' /\ TargetOK' /\ TodoOK'
        BY <1>1, <1>2, <1>7 DEF RefuseTarget, EndAs, TypeOK, TargetOK, Writing, TodoOK
    <2> QED BY <1>3, <1>4, <1>5, <2>1
<1> QED BY <1>6, <1>7

(* The steps after the target was accepted.                                *)
LEMMA WritingFrame ==
    ASSUME IInv, UNCHANGED <<prov, args, req, unreachable, target>>,
           pc \in {"apply", "snapshot"}, pc' \in {"apply", "snapshot", "done", "error"},
           todo' \subseteq todo
    PROVE  MergeInv'
<1> USE DEF IInv, MergeInv
<1>1. RequestOK'
    BY DEF RequestOK, RequestShape, RequestTyped
<1>2. RecordsOK' /\ AllExported' /\ Agreement' /\ SourcesArePool'
    BY DEF RecordsOK, SourceIds, AllExported, Exported, Agreement, SourcesArePool
<1>3. TargetOK'
    BY DEF TargetOK, Writing, Verified, SourceIds, ShaConfirmed, BaseKnown,
           BaseConfirmed, AgreedSha, AgreedBase
<1>4. NothingToDo' /\ TodoOK'
    BY DEF NothingToDo, TodoOK
<1> QED BY <1>1, <1>2, <1>3, <1>4

LEMMA ApplyStep ==
    ASSUME IInv,
           \/ \E C \in SUBSET todo : \E R \in SUBSET C : ApplyChunk(C, R)
           \/ \E C \in SUBSET todo : ApplyFails(C)
    PROVE  IInv'
<1> USE DEF IInv
<1>1. ASSUME NEW C \in SUBSET todo, NEW R \in SUBSET C, ApplyChunk(C, R) PROVE IInv'
    <2>1. MergeInv'
        BY <1>1, WritingFrame DEF ApplyChunk
    <2>2. db' \in [Copies -> Data]
        BY <1>1, InstallTyped DEF ApplyChunk, MergeInv
    <2>3. TypeOK'
        BY <1>1, <2>2 DEF ApplyChunk, TypeOK
    <2> QED BY <2>1, <2>3
<1>2. ASSUME NEW C \in SUBSET todo, ApplyFails(C) PROVE IInv'
    <2>1. MergeInv'
        BY <1>2, WritingFrame DEF ApplyFails
    <2>2. db' \in [Copies -> Data]
        BY <1>2, InstallTyped DEF ApplyFails, MergeInv
    <2>3. TypeOK'
        BY <1>2, <2>2 DEF ApplyFails, TypeOK
    <2> QED BY <2>1, <2>3
<1> QED BY <1>1, <1>2

LEMMA SnapshotStep ==
    ASSUME IInv, SnapshotWritten \/ SnapshotSkipped \/ SnapshotFails
    PROVE  IInv'
<1> USE DEF IInv, worker, SnapshotWritten, SnapshotSkipped, SnapshotFails, EndAs
<1>1. MergeInv'
    BY WritingFrame
<1>2. TypeOK'
    BY DEF TypeOK
<1> QED BY <1>1, <1>2

LEMMA NextIInv == IInv /\ [Next]_vars => IInv'
<1> SUFFICES ASSUME IInv, [Next]_vars PROVE IInv'
    OBVIOUS
<1>1. CASE MergeStep
    BY <1>1, ExportOkStep, ExportFailsStep, ExportsEndStep, ReconcileStep,
       TargetStep, ApplyStep, SnapshotStep DEF MergeStep
<1>2. CASE \E a \in Requests : Start(a)
    BY <1>2, StartStep
<1>3. CASE UNCHANGED vars
    <2>1. MergeInv'
        BY <1>3, MergeInvFrame DEF vars, worker, IInv
    <2>2. TypeOK'
        BY <1>3 DEF vars, worker, merge, IInv, TypeOK
    <2> QED BY <2>1, <2>2 DEF IInv
<1>4. CASE \/ \E c \in Copies, f \in Fields, k \in Keys, v \in Values \cup {NoValue} :
                  AgentEdit(c, f, k, v)
           \/ \E c \in Copies : SessionGone(c)
           \/ \E s \in Sids : Capture(s) \/ CaptureFails(s)
    BY <1>4, WorkerStep
<1> QED BY <1>1, <1>2, <1>3, <1>4 DEF Next

(* The merge's state always has its type.                                  *)
THEOREM MergeTypeOK == Spec => []TypeOK
<1>1. IInv => TypeOK
    BY DEF IInv
<1> QED BY <1>1, InitIInv, NextIInv, PTL DEF Spec

(* Every known value of an attribute is the agreed one.                    *)
LEMMA AgreedIsTheKnown ==
    ASSUME NEW V, NEW v \in V, v # Unknown,
           \A w, z \in V : Unknown \in {w, z} \/ w = z
    PROVE  Agreed(V) = v
<1>1. \E w \in V : w # Unknown
    OBVIOUS
<1>2. Agreed(V) = CHOOSE w \in V : w # Unknown
    BY <1>1 DEF Agreed
<1> QED BY <1>1, <1>2

(* When the merge writes, every source has its record in the request.      *)
LEMMA SourceIsRecorded ==
    ASSUME IInv, Writing, NEW x \in SourceIds(args)
    PROVE  \E i \in DOMAIN req.records : req.records[i].sid = x
<1> USE DEF IInv, MergeInv
<1>1. PICK i \in DOMAIN args.sources : args.sources[i] = x
    BY DEF SourceIds
<1>2. unreachable = {} /\ Len(req.records) = Len(args.sources)
    BY DEF AllExported, Exported, Writing
<1>3. DOMAIN req.records = DOMAIN args.sources
    <2>1. args.sources \in Seq(Copies) /\ req.records \in Seq([sid : Copies, rec : Exports])
        BY ArgsTyped DEF RequestOK, RequestTyped
    <2> QED BY <1>2, <2>1
<1> QED BY <1>1, <1>2, <1>3 DEF RecordsOK

LEMMA SourceRecord ==
    ASSUME IInv, Writing, NEW x \in SourceIds(args)
    PROVE  \E i \in DOMAIN req.records :
               /\ req.records[i].rec.sha = prov[x].sha
               /\ req.records[i].rec.imagebase = prov[x].imagebase
BY SourceIsRecorded DEF IInv, MergeInv, RecordsOK

(* The gate holds in every state that writes.                              *)
LEMMA GateHolds == IInv => NoCrossBinaryWrite
<1> SUFFICES ASSUME IInv, Writing, NEW x \in SourceIds(args)
             PROVE  /\ SameBinary(x, target)
                    /\ target \in SourceIds(args) \/ prov[x].sha \in {Unknown, prov[target].sha}
    BY DEF NoCrossBinaryWrite
<1> USE DEF IInv, MergeInv
<1> DEFINE shas == {req.records[i].rec.sha : i \in DOMAIN req.records}
           bases == {req.records[i].rec.imagebase : i \in DOMAIN req.records}
<1>1. /\ \A w, z \in shas : Unknown \in {w, z} \/ w = z
      /\ \A w, z \in bases : Unknown \in {w, z} \/ w = z
    BY DEF Agreement, Writing, ProvenanceAgrees, AllRecords
<1>2. \A y \in SourceIds(args) : prov[y].sha \in shas /\ prov[y].imagebase \in bases
    BY SourceRecord
<1>3. CASE target \in SourceIds(args)
    BY <1>1, <1>2, <1>3 DEF SameBinary
<1>4. CASE target \notin SourceIds(args)
    <2>1. /\ AgreedSha # Unknown => ShaConfirmed(target)
          /\ BaseKnown(target) => BaseConfirmed(target)
        BY <1>4 DEF TargetOK, Verified
    <2>2. prov[x].sha # Unknown => AgreedSha = prov[x].sha
        <3> HIDE DEF shas
        <3>1. prov[x].sha # Unknown => Agreed(shas) = prov[x].sha
            BY <1>1, <1>2, AgreedIsTheKnown
        <3> QED BY <3>1 DEF AgreedSha, shas
    <2>3. prov[x].imagebase # Unknown => AgreedBase = prov[x].imagebase
        <3> HIDE DEF bases
        <3>1. prov[x].imagebase # Unknown => Agreed(bases) = prov[x].imagebase
            BY <1>1, <1>2, AgreedIsTheKnown
        <3> QED BY <3>1 DEF AgreedBase, bases
    <2>4. prov[x].sha \in {Unknown, prov[target].sha}
        BY <2>1, <2>2 DEF ShaConfirmed
    <2>5. Unknown \in {prov[x].imagebase, prov[target].imagebase}
              \/ prov[x].imagebase = prov[target].imagebase
        BY <2>1, <2>3 DEF BaseKnown, BaseConfirmed
    <2> QED BY <2>4, <2>5 DEF SameBinary
<1> QED BY <1>3, <1>4

(* A merge only ever writes into a copy of its sources' binary: the gates  *)
(* of merge.py keep address-keyed annotations out of any other database.   *)
THEOREM MergeStaysInOneBinary == Spec => []NoCrossBinaryWrite
BY InitIInv, NextIInv, GateHolds, PTL DEF Spec

(* The plan a merge writes holds nothing but genuine edits of its sources  *)
(* and accounts for every one, takes no side under manual, depends on the  *)
(* sources' order as its policy says, and can be applied twice.            *)
MergePlanIsSound == PlanIsSound(req)

THEOREM MergesPlanSoundly == Spec => []MergePlanIsSound
<1>1. IInv => MergePlanIsSound
    BY RequestIsCall, PlansAreSound DEF IInv, MergeInv, MergePlanIsSound
<1> QED BY <1>1, InitIInv, NextIInv, PTL DEF Spec

-----------------------------------------------------------------------------
(* The agents' work.  Before a target is chosen nothing is written.        *)
NoTargetYet ==
    /\ pc \in {"idle", "export", "reconcile", "target"} => target = NoSid
    /\ pc = "idle" => req.records = <<>>

(* What a record holds is still in its copy, unless an agent edited it     *)
(* since or the merge replaced it there by another value of the plan.      *)
Kept(i, f, k) ==
    LET s == req.records[i].sid
        v == ValueOf(req, i, f, k)
    IN  \/ db[s][f][k] = v
        \/ <<s, f, k>> \in late
        \/ s = target /\ Plan(req)[f][k] \notin {v, NoValue}

SourcesKept == \A i \in DOMAIN req.records : \A f \in Fields, k \in Keys : Kept(i, f, k)

(* The baselines handed to reconcile are the captured ones, which do not   *)
(* change any more.                                                        *)
CapturedOnce == \A s \in capturing : baseline[s] = NoBaseline

BaselinesKept == pc \in {"target", "apply", "snapshot", "done"} =>
    IF args.useBaseline
    THEN \A s \in SourceIds(args) :
            s \in DOMAIN req.baselines /\ req.baselines[s].data = baseline[s]
    ELSE DOMAIN req.baselines = {}

(* An item that was sent and not refused is in the target.                 *)
There(c) ==
    \/ Covers(db[target][c[1]][c[2]], Plan(req)[c[1]][c[2]])
    \/ <<target, c[1], c[2]>> \in late

SentIsThere ==
    /\ Writing => \A c \in Planned(req) \ (todo \cup failures) : There(c)
    /\ pc \in {"snapshot", "done"} => todo = {}

KeptInv == NoTargetYet /\ SourcesKept /\ CapturedOnce /\ BaselinesKept /\ SentIsThere

(* What the overlay of slots leaves behind.                                *)
LEMMA WrittenCovers ==
    ASSUME NEW old \in Values \cup {NoValue}, NEW new \in Values
    PROVE  Covers(Written(old, new), new)
<1>1. Written(old, new) # NoValue
    BY ValuesClosed, NoValueAssumption DEF Written
<1>2. new = Signature(new[1], new[2])
    BY ValuesArePairs
<1>3. CASE old = NoValue
    BY <1>1, <1>3 DEF Written, Covers
<1>4. CASE old # NoValue
    BY <1>1, <1>4 DEF Written, Covers, Signature
<1> QED BY <1>3, <1>4

LEMMA WrittenAgain ==
    ASSUME NEW v \in Values
    PROVE  Written(v, v) = v
BY ValuesArePairs, NoValueAssumption DEF Written

(* What an installation changes: the installed items of the target.        *)
LEMMA InstallAt ==
    ASSUME TypeOK, target \in Copies, NEW S,
           NEW c \in Copies, NEW f \in Fields, NEW k \in Keys
    PROVE  Install(S)[c][f][k] =
               IF c = target /\ <<f, k>> \in S
               THEN Written(db[c][f][k], Plan(req)[f][k]) ELSE db[c][f][k]
<1> DEFINE data == [g \in Fields |-> [j \in Keys |->
        IF <<g, j>> \in S THEN Written(db[target][g][j], Plan(req)[g][j])
                          ELSE db[target][g][j]]]
<1>1. Install(S) = [db EXCEPT ![target] = data]
    BY DEF Install
<1>2. data[f][k] = IF <<f, k>> \in S THEN Written(db[target][f][k], Plan(req)[f][k])
                                     ELSE db[target][f][k]
    OBVIOUS
<1> HIDE DEF data
<1>3. Install(S)[c] = IF c = target THEN data ELSE db[c]
    BY <1>1 DEF TypeOK
<1> QED BY <1>2, <1>3

(* The session of a record is a copy, so it is not the missing target.     *)
LEMMA RecordOfACopy ==
    ASSUME IInv, NEW i \in DOMAIN req.records
    PROVE  req.records[i].sid \in Copies /\ req.records[i].sid # NoSid
BY ArgsTyped, IdsAreDistinct DEF IInv, MergeInv, RecordsOK

LEMMA InstallKeeps ==
    ASSUME IInv, SourcesKept, target \in Copies, NEW S \in SUBSET todo,
           db' = Install(S), UNCHANGED <<req, late, target>>
    PROVE  SourcesKept'
<1> SUFFICES ASSUME NEW i \in DOMAIN req.records, NEW f \in Fields, NEW k \in Keys
             PROVE  Kept(i, f, k)'
    BY DEF SourcesKept
<1> DEFINE s == req.records[i].sid
           v == ValueOf(req, i, f, k)
<1>1. Kept(i, f, k) /\ s \in Copies
    BY RecordOfACopy DEF SourcesKept
<1>2. v' = v /\ s' = s /\ Plan(req)' = Plan(req)
    BY DEF ValueOf
<1>3. db'[s][f][k] = IF s = target /\ <<f, k>> \in S
                     THEN Written(db[s][f][k], Plan(req)[f][k]) ELSE db[s][f][k]
    BY <1>1, InstallAt DEF IInv
<1>4. CASE ~ (s = target /\ <<f, k>> \in S)
    BY <1>1, <1>2, <1>3, <1>4 DEF Kept
<1>5. CASE s = target /\ <<f, k>> \in S
    <2>1. Plan(req)[f][k] \in Values
        BY <1>5, PlannedIsValue DEF IInv, MergeInv, TodoOK
    <2>2. CASE Plan(req)[f][k] # v
        BY <1>2, <1>5, <2>1, <2>2, NoValueAssumption DEF Kept
    <2>3. CASE Plan(req)[f][k] = v
        <3>1. db[s][f][k] = v \/ <<s, f, k>> \in late
            BY <1>1, <2>3 DEF Kept
        <3>2. db[s][f][k] = v => db'[s][f][k] = v
            BY <1>3, <1>5, <2>1, <2>3, WrittenAgain
        <3> QED BY <1>2, <3>1, <3>2 DEF Kept
    <2> QED BY <2>2, <2>3
<1> QED BY <1>4, <1>5

LEMMA InitKept == Init => KeptInv
<1> SUFFICES ASSUME Init PROVE KeptInv
    OBVIOUS
<1>1. req.records = <<>>
    BY DEF Init, Asking
<1> QED BY <1>1 DEF Init, KeptInv, NoTargetYet, SourcesKept, CapturedOnce, BaselinesKept,
        SentIsThere, Writing

(* Steps that leave the request as it is, and the databases too but for    *)
(* what agents edit.                                                       *)
LEMMA KeptFrame ==
    ASSUME IInv, SourcesKept, UNCHANGED req,
           UNCHANGED target \/ target = NoSid,
           late \subseteq late',
           \A i \in DOMAIN req.records, f \in Fields, k \in Keys :
               LET s == req.records[i].sid
               IN  db'[s][f][k] = db[s][f][k] \/ <<s, f, k>> \in late'
    PROVE  SourcesKept'
<1> SUFFICES ASSUME NEW i \in DOMAIN req.records, NEW f \in Fields, NEW k \in Keys
             PROVE  Kept(i, f, k)'
    BY DEF SourcesKept
<1>1. Kept(i, f, k) /\ req.records[i].sid # NoSid
    BY RecordOfACopy DEF SourcesKept
<1>2. \/ db'[req.records[i].sid][f][k] = db[req.records[i].sid][f][k]
      \/ <<req.records[i].sid, f, k>> \in late'
    OBVIOUS
<1> QED BY <1>1, <1>2 DEF Kept, ValueOf

(* An agent's edit during the merge is remembered as late.                 *)
LEMMA AgentKeeps ==
    ASSUME IInv, KeptInv, NEW c \in Copies, NEW f \in Fields, NEW k \in Keys,
           NEW v \in Values \cup {NoValue}, AgentEdit(c, f, k, v)
    PROVE  KeptInv'
<1> USE DEF KeptInv
<1>1. UNCHANGED <<capturing, baseline, merge>>
    BY DEF AgentEdit
<1>2. /\ late \subseteq late'
      /\ pc # "idle" => <<c, f, k>> \in late'
    BY DEF AgentEdit
<1>3. ASSUME NEW d \in Copies, NEW g \in Fields, NEW j \in Keys, <<d, g, j>> # <<c, f, k>>
      PROVE  db'[d][g][j] = db[d][g][j]
    BY <1>3 DEF AgentEdit, IInv, TypeOK, Data
<1>4. NoTargetYet' /\ CapturedOnce' /\ BaselinesKept'
    BY <1>1 DEF merge, NoTargetYet, CapturedOnce, BaselinesKept, SourceIds
<1>5. SourcesKept'
    <2>1. CASE pc = "idle"
        BY <1>1, <2>1 DEF merge, NoTargetYet, SourcesKept
    <2>2. CASE pc # "idle"
        <3>1. ASSUME NEW i \in DOMAIN req.records, NEW g \in Fields, NEW j \in Keys
              PROVE  \/ db'[req.records[i].sid][g][j] = db[req.records[i].sid][g][j]
                     \/ <<req.records[i].sid, g, j>> \in late'
            BY <1>2, <1>3, <2>2, RecordOfACopy
        <3> QED BY <1>1, <1>2, <3>1, KeptFrame DEF merge
    <2> QED BY <2>1, <2>2
<1>6. SentIsThere'
    <2>1. UNCHANGED <<pc, req, target, todo, failures>>
        BY <1>1 DEF merge
    <2>2. ASSUME Writing, NEW p \in Planned(req) \ (todo \cup failures) PROVE There(p)'
        <3>1. There(p)
            BY <2>2 DEF SentIsThere
        <3>2. target \in Copies /\ pc # "idle"
            BY <2>2 DEF IInv, MergeInv, TargetOK, Writing
        <3>3. PICK g \in Fields, j \in Keys : p = <<g, j>>
            BY DEF Planned
        <3>4. db'[target][g][j] = db[target][g][j] \/ <<target, g, j>> \in late'
            BY <1>2, <1>3, <3>2
        <3> QED BY <1>2, <2>1, <3>1, <3>3, <3>4 DEF There
    <2> QED BY <2>1, <2>2 DEF SentIsThere, Writing, Planned
<1> QED BY <1>4, <1>5, <1>6

(* Closes and captures: a session is captured once.                        *)
LEMMA CaptureKeeps ==
    ASSUME IInv, KeptInv,
           (\E c \in Copies : SessionGone(c)) \/ (\E s \in Sids : Capture(s) \/ CaptureFails(s))
    PROVE  KeptInv'
<1> USE DEF KeptInv
<1>1. UNCHANGED <<merge, db, late>>
    BY DEF SessionGone, Capture, CaptureFails
<1>2. NoTargetYet' /\ SourcesKept' /\ SentIsThere'
    BY <1>1 DEF merge, NoTargetYet, SourcesKept, Kept, ValueOf, SentIsThere, There, Writing,
        Planned
<1>3. /\ capturing' \subseteq capturing
      /\ \A s \in capturing' : baseline'[s] = baseline[s]
      /\ \A s \in Sids : baseline[s] # NoBaseline => baseline'[s] = baseline[s]
    BY DEF SessionGone, Capture, CaptureFails, CapturedOnce, IInv, TypeOK
<1>4. CapturedOnce'
    BY <1>3 DEF CapturedOnce
<1>5. BaselinesKept'
    <2> SUFFICES ASSUME pc \in {"target", "apply", "snapshot", "done"}, args.useBaseline,
                        NEW s \in SourceIds(args)
                 PROVE  baseline'[s] = baseline[s]
        BY <1>1 DEF merge, BaselinesKept, SourceIds
    <2>1. s \in Sids
        BY DEF IInv, MergeInv, SourcesArePool
    <2>2. s \in DOMAIN req.baselines /\ req.baselines[s].data = baseline[s]
        BY DEF BaselinesKept
    <2>3. baseline[s] # NoBaseline
        BY <2>2, IdsAreDistinct DEF IInv, MergeInv, RequestOK, RequestTyped, Exports
    <2> QED BY <1>3, <2>1, <2>3
<1> QED BY <1>2, <1>4, <1>5

(* The merge's steps up to the choice of a target.                         *)
LEMMA StartKeeps ==
    ASSUME IInv, KeptInv, NEW a \in Requests, Start(a)
    PROVE  KeptInv'
<1>1. /\ req'.records = <<>> /\ pc' \in {"export", "refused"} /\ target' = NoSid
      /\ UNCHANGED <<capturing, baseline>>
    BY DEF Start, Asking, worker, KeptInv, NoTargetYet
<1> QED BY <1>1 DEF KeptInv, NoTargetYet, SourcesKept, CapturedOnce, BaselinesKept,
        SentIsThere, Writing

LEMMA ExportAppends ==
    ASSUME IInv, ExportOk
    PROVE  req'.records = Append(req.records, [sid |-> Source, rec |-> Export(Source)])
BY DEF ExportOk, IInv, MergeInv, RequestOK, RequestShape

LEMMA ExportOkKeeps ==
    ASSUME IInv, KeptInv, ExportOk
    PROVE  KeptInv'
<1> USE DEF KeptInv
<1>1. /\ pc = "export" /\ target = NoSid
      /\ UNCHANGED <<db, late, capturing, baseline, pc, target>>
    BY DEF ExportOk, worker, NoTargetYet
<1>2. SourcesKept'
    <2> DEFINE entry == [sid |-> Source, rec |-> Export(Source)]
    <2> SUFFICES ASSUME NEW i \in DOMAIN req'.records, NEW f \in Fields, NEW k \in Keys
                 PROVE  Kept(i, f, k)'
        BY DEF SourcesKept
    <2>1. req'.records = Append(req.records, entry)
        BY ExportAppends
    <2>2. req.records \in Seq([sid : Copies, rec : Exports])
        BY DEF IInv, MergeInv, RequestOK, RequestTyped
    <2>3. CASE i \in DOMAIN req.records
        <3>1. req'.records[i] = req.records[i]
            BY <2>1, <2>2, <2>3
        <3>2. Kept(i, f, k) /\ req.records[i].sid # NoSid
            BY <2>3, RecordOfACopy DEF SourcesKept
        <3> QED BY <1>1, <3>1, <3>2 DEF Kept, ValueOf
    <2>4. CASE i \notin DOMAIN req.records
        <3>1. req'.records[i] = entry
            BY <2>1, <2>2, <2>4
        <3> QED BY <1>1, <3>1 DEF Kept, ValueOf, Export
    <2> QED BY <2>3, <2>4
<1> QED BY <1>1, <1>2 DEF NoTargetYet, CapturedOnce, BaselinesKept, SentIsThere, Writing

LEMMA ExportingKeeps ==
    ASSUME IInv, KeptInv, ExportFails \/ ExportsEnd
    PROVE  KeptInv'
<1> USE DEF KeptInv
<1>1. /\ pc = "export" /\ target = NoSid /\ pc' \in {"export", "reconcile", "refused"}
      /\ UNCHANGED <<db, late, capturing, baseline, req, target>>
    BY DEF ExportFails, ExportsEnd, worker, NoTargetYet
<1>2. SourcesKept'
    BY <1>1, KeptFrame
<1> QED BY <1>1, <1>2 DEF NoTargetYet, CapturedOnce, BaselinesKept, SentIsThere, Writing

LEMMA ReconcileKeeps ==
    ASSUME IInv, KeptInv, ReconcileSources
    PROVE  KeptInv'
<1> USE DEF KeptInv
<1>1. /\ pc = "reconcile" /\ target = NoSid /\ pc' \in {"refused", "report", "target"}
      /\ UNCHANGED <<db, late, capturing, baseline, args, target>>
    BY DEF ReconcileSources, worker, NoTargetYet
<1>2. req'.records = req.records /\ req'.baselines = GatherBaselines
    BY DEF ReconcileSources, IInv, MergeInv, RequestOK, RequestShape
<1>3. SourcesKept'
    <2> SUFFICES ASSUME NEW i \in DOMAIN req.records, NEW f \in Fields, NEW k \in Keys
                 PROVE  Kept(i, f, k)'
        BY <1>2 DEF SourcesKept
    <2>1. Kept(i, f, k) /\ req.records[i].sid # NoSid
        BY RecordOfACopy DEF SourcesKept
    <2> QED BY <1>1, <1>2, <2>1 DEF Kept, ValueOf
<1>4. BaselinesKept'
    <2> SUFFICES ASSUME pc' = "target" PROVE BaselinesKept'
        BY <1>1 DEF BaselinesKept
    <2>1. ~ BaselineMissing
        BY DEF ReconcileSources
    <2>2. CASE args.useBaseline
        BY <1>1, <1>2, <2>1, <2>2
            DEF BaselinesKept, BaselineMissing, GatherBaselines, SourceIds
    <2>3. CASE ~ args.useBaseline
        BY <1>1, <1>2, <2>3 DEF BaselinesKept, GatherBaselines
    <2> QED BY <2>2, <2>3
<1> QED BY <1>1, <1>3, <1>4 DEF NoTargetYet, CapturedOnce, SentIsThere, Writing

LEMMA TargetKeeps ==
    ASSUME IInv, KeptInv, AcceptTarget \/ RefuseTarget
    PROVE  KeptInv'
<1> USE DEF KeptInv
<1>1. /\ pc = "target" /\ target = NoSid
      /\ UNCHANGED <<db, late, capturing, baseline, args, req>>
    BY DEF AcceptTarget, RefuseTarget, EndAs, worker, NoTargetYet
<1>2. SourcesKept'
    BY <1>1, KeptFrame
<1>3. NoTargetYet' /\ CapturedOnce'
    BY <1>1 DEF AcceptTarget, RefuseTarget, EndAs, NoTargetYet, CapturedOnce
<1>4. BaselinesKept'
    BY <1>1 DEF AcceptTarget, RefuseTarget, EndAs, BaselinesKept, SourceIds
<1>5. SentIsThere'
    BY <1>1 DEF AcceptTarget, RefuseTarget, EndAs, SentIsThere, Writing, Planned
<1> QED BY <1>2, <1>3, <1>4, <1>5

(* A chunk that was sent is there, but for the items that were refused.    *)
LEMMA ChunkKeeps ==
    ASSUME IInv, KeptInv, NEW C \in SUBSET todo, NEW R \in SUBSET C, ApplyChunk(C, R)
    PROVE  KeptInv'
<1> USE DEF KeptInv
<1>1. /\ pc = "apply" /\ pc' \in {"apply", "snapshot"} /\ target \in Copies
      /\ db' = Install(C \ R) /\ todo' = todo \ C /\ failures' = failures \cup R
      /\ pc' = "snapshot" => todo' = {}
      /\ UNCHANGED <<late, capturing, baseline, args, req, target>>
    BY DEF ApplyChunk, IInv, MergeInv, TargetOK, Writing
<1>2. SourcesKept'
    <2>1. C \ R \in SUBSET todo
        OBVIOUS
    <2> QED BY <1>1, <2>1, InstallKeeps
<1>3. NoTargetYet' /\ CapturedOnce' /\ BaselinesKept'
    BY <1>1 DEF NoTargetYet, CapturedOnce, BaselinesKept, SourceIds
<1>4. SentIsThere'
    <2> SUFFICES ASSUME NEW c \in Planned(req), c \notin todo', c \notin failures'
                 PROVE  There(c)'
        BY <1>1 DEF SentIsThere, Planned
    <2>1. PICK f \in Fields, k \in Keys : c = <<f, k>>
        BY DEF Planned
    <2>2. db'[target][f][k] = IF c \in C \ R
                              THEN Written(db[target][f][k], Plan(req)[f][k])
                              ELSE db[target][f][k]
        BY <1>1, <2>1, InstallAt DEF IInv
    <2>3. CASE c \in C
        <3>1. c \in C \ R
            BY <1>1, <2>3
        <3>2. Plan(req)[f][k] \in Values
            BY <2>1, PlannedIsValue DEF IInv, MergeInv
        <3>3. db[target][f][k] \in Values \cup {NoValue}
            BY <1>1 DEF IInv, TypeOK, Data
        <3>4. Covers(db'[target][f][k], Plan(req)[f][k])
            BY <2>2, <3>1, <3>2, <3>3, WrittenCovers
        <3> QED BY <1>1, <2>1, <3>4 DEF There
    <2>4. CASE c \notin C
        <3>1. There(c)
            BY <1>1, <2>4 DEF SentIsThere, Writing
        <3> QED BY <1>1, <2>1, <2>2, <2>4, <3>1 DEF There
    <2> QED BY <2>3, <2>4
<1> QED BY <1>2, <1>3, <1>4

LEMMA ApplyFailsKeeps ==
    ASSUME IInv, KeptInv, NEW C \in SUBSET todo, ApplyFails(C)
    PROVE  KeptInv'
<1> USE DEF KeptInv
<1>1. /\ pc = "apply" /\ pc' = "error" /\ target \in Copies /\ db' = Install(C)
      /\ UNCHANGED <<late, capturing, baseline, args, req, target>>
    BY DEF ApplyFails, IInv, MergeInv, TargetOK, Writing
<1>2. SourcesKept'
    BY <1>1, InstallKeeps
<1> QED BY <1>1, <1>2 DEF NoTargetYet, CapturedOnce, BaselinesKept, SentIsThere, Writing

LEMMA SnapshotKeeps ==
    ASSUME IInv, KeptInv, SnapshotWritten \/ SnapshotSkipped \/ SnapshotFails
    PROVE  KeptInv'
<1> USE DEF KeptInv
<1>1. /\ pc = "snapshot" /\ pc' \in {"done", "error"}
      /\ UNCHANGED <<db, late, capturing, baseline, args, req, target, todo, failures>>
    BY DEF SnapshotWritten, SnapshotSkipped, SnapshotFails, EndAs, worker
<1>2. SourcesKept'
    BY <1>1, KeptFrame
<1>3. SentIsThere'
    BY <1>1 DEF SentIsThere, Writing, There, Planned
<1> QED BY <1>1, <1>2, <1>3 DEF NoTargetYet, CapturedOnce, BaselinesKept, SourceIds

LEMMA NextKept == IInv /\ KeptInv /\ [Next]_vars => KeptInv'
<1> SUFFICES ASSUME IInv, KeptInv, [Next]_vars PROVE KeptInv'
    OBVIOUS
<1>1. CASE MergeStep
    BY <1>1, ExportOkKeeps, ExportingKeeps, ReconcileKeeps, TargetKeeps, ChunkKeeps,
       ApplyFailsKeeps, SnapshotKeeps DEF MergeStep
<1>2. CASE \E a \in Requests : Start(a)
    BY <1>2, StartKeeps
<1>3. CASE \E c \in Copies, f \in Fields, k \in Keys, v \in Values \cup {NoValue} :
               AgentEdit(c, f, k, v)
    BY <1>3, AgentKeeps
<1>4. CASE (\E c \in Copies : SessionGone(c)) \/ (\E s \in Sids : Capture(s) \/ CaptureFails(s))
    BY <1>4, CaptureKeeps
<1>5. CASE UNCHANGED vars
    BY <1>5 DEF vars, worker, merge, KeptInv, NoTargetYet, SourcesKept, Kept, ValueOf,
        CapturedOnce, BaselinesKept, SourceIds, SentIsThere, There, Writing, Planned
<1> QED BY <1>1, <1>2, <1>3, <1>4, <1>5 DEF Next

LEMMA SpecKept == Spec => [](IInv /\ KeptInv)
<1>1. IInv /\ KeptInv /\ [Next]_vars => (IInv /\ KeptInv)'
    BY NextIInv, NextKept
<1> QED BY <1>1, InitIInv, InitKept, PTL DEF Spec

(* What a merge that returns its report does not list as a failure is in   *)
(* the target, whatever the chunk size, the refusals and the agents do.    *)
THEOREM MergeReportIsTrue == Spec => []ReportedAsAppliedIsThere
<1>1. KeptInv => ReportedAsAppliedIsThere
    BY DEF KeptInv, SentIsThere, There, Writing, ReportedAsAppliedIsThere
<1> QED BY <1>1, SpecKept, PTL

(* A contributor's value that its own copy or the target lost was reported *)
(* as a conflict.                                                          *)
LEMMA LostIsReported ==
    ASSUME IInv, NEW f \in args.fields, NEW k \in Keys, NEW i \in Contributors(req, f, k),
           Plan(req)[f][k] # ValueOf(req, i, f, k)
    PROVE  <<f, k>> \in Conflicts(req)
<1>1. EveryEditAccounted(req)
    BY RequestIsOne, NoEditVanishes DEF IInv, MergeInv
<1>2. f \in req.fields
    BY RequestParts DEF IInv, MergeInv
<1> QED BY <1>1, <1>2 DEF EveryEditAccounted

(* A merge into one of its sources, under any policy, changes that         *)
(* source's own edits only where it reports a conflict.                    *)
THEOREM MergeTargetKeepsItsEdits == Spec => []TargetKeepsItsEdits
<1>1. IInv /\ KeptInv => TargetKeepsItsEdits
    <2> SUFFICES ASSUME IInv, KeptInv, target \in SourceIds(args),
                        NEW i \in DOMAIN req.records, NEW f \in Fields, NEW k \in Keys,
                        req.records[i].sid = target,
                        f \in args.fields => i \in Contributors(req, f, k),
                        db[target][f][k] # ValueOf(req, i, f, k),
                        <<target, f, k>> \notin late
                 PROVE  <<f, k>> \in Conflicts(req)
        BY DEF TargetKeepsItsEdits
    <2>1. Plan(req)[f][k] \notin {ValueOf(req, i, f, k), NoValue}
        BY DEF KeptInv, SourcesKept, Kept
    <2>2. f \in args.fields
        BY <2>1, RequestParts DEF Plan, IInv, MergeInv
    <2> QED BY <2>1, <2>2, LostIsReported
<1> QED BY <1>1, SpecKept, PTL

(* A merge that says ok has lost nobody's work: every edit of a source is  *)
(* in the target or in a reported conflict.                                *)
THEOREM MergeKeepsEveryEdit == Spec => []OkMergeKeepsEveryEdit
<1>1. IInv /\ KeptInv => OkMergeKeepsEveryEdit
    <2> SUFFICES ASSUME IInv, KeptInv, pc = "done", failures = {},
                        NEW s \in SourceIds(args), NEW f \in args.fields, NEW k \in Keys,
                        IsEdit(s, f, k), <<f, k>> \notin Conflicts(req),
                        <<s, f, k>> \notin late, <<target, f, k>> \notin late
                 PROVE  Covers(db[target][f][k], db[s][f][k])
        BY DEF OkMergeKeepsEveryEdit
    <2> USE DEF IInv, KeptInv, MergeInv
    <2>0. f \in Fields /\ s \in Copies
        BY ArgsTyped
    <2>1. CASE s = target
        BY <2>1 DEF IsEdit, Covers
    <2>2. CASE s # target
        <3>1. PICK i \in DOMAIN req.records : req.records[i].sid = s
            BY SourceIsRecorded DEF Writing
        <3>2. db[s][f][k] = ValueOf(req, i, f, k)
            BY <2>0, <2>2, <3>1 DEF SourcesKept, Kept
        <3>3. ValueOf(req, i, f, k) # BaselineOf(req, s).data[f][k]
            <4>1. CASE args.useBaseline
                BY <3>2, <4>1 DEF IsEdit, BaselinesKept, BaselineOf
            <4>2. CASE ~ args.useBaseline
                <5>1. BaselineOf(req, s) = NoRecord
                    BY <4>2, RequestParts DEF BaselinesKept, BaselineOf
                <5> QED BY <2>0, <3>2, <5>1 DEF IsEdit, NoRecord, EmptyData
            <4> QED BY <4>1, <4>2
        <3>4. i \in Contributors(req, f, k)
            BY <3>1, <3>2, <3>3 DEF Contributors, IsEdit
        <3>5. Plan(req)[f][k] = db[s][f][k]
            BY <3>2, <3>4, LostIsReported
        <3>6. <<f, k>> \in Planned(req) \ (todo \cup failures)
            BY <2>0, <3>5 DEF Planned, IsEdit, SentIsThere
        <3> QED BY <3>5, <3>6 DEF SentIsThere, There, Writing
    <2> QED BY <2>1, <2>2
<1> QED BY <1>1, SpecKept, PTL
=============================================================================
