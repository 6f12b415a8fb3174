---------------------------- MODULE OverflowProofs ----------------------------
(* Theorems about references to truncated results, for any number of       *)
(* workers, ids, references and calls, and caps of any size.               *)
EXTENDS OverflowRouting, SequenceTheorems, FiniteSetTheorems, TLAPS

(* What was used in s since u was.                                         *)
Newer(s, u) == {s[j] : j \in {k \in 1 .. Len(s) : \E i \in 1 .. k - 1 : s[i] = u}}

(* A list of references without repetition, of at most n.                  *)
IsList(s, n) ==
    /\ s \in Seq(Uris) /\ Len(s) <= n
    /\ \A i, j \in 1 .. Len(s) : s[i] = s[j] => i = j

(* t has no more than s has, in the order they have there.                 *)
InOrder(t, s) ==
    \A v : Contains(t, v) => Contains(s, v) /\ Newer(t, v) \subseteq Newer(s, v)

-----------------------------------------------------------------------------
(* Lists in the order of use.                                              *)

LEMMA NewerIs ==
    ASSUME NEW s, NEW u, NEW x
    PROVE  x \in Newer(s, u) <=>
             \E i, j \in 1 .. Len(s) : i < j /\ s[i] = u /\ s[j] = x
<1>1. ASSUME x \in Newer(s, u)
      PROVE  \E i, j \in 1 .. Len(s) : i < j /\ s[i] = u /\ s[j] = x
  <2>1. PICK j \in 1 .. Len(s) : s[j] = x /\ \E i \in 1 .. j - 1 : s[i] = u
    BY <1>1 DEF Newer
  <2>2. PICK i \in 1 .. j - 1 : s[i] = u
    BY <2>1
  <2>3. i \in 1 .. Len(s) /\ i < j
    BY <2>1, <2>2
  <2> QED BY <2>1, <2>2, <2>3
<1>2. ASSUME NEW i \in 1 .. Len(s), NEW j \in 1 .. Len(s), i < j, s[i] = u, s[j] = x
      PROVE  x \in Newer(s, u)
  <2>1. i \in 1 .. j - 1
    BY <1>2
  <2> QED BY <1>2, <2>1 DEF Newer
<1> QED BY <1>1, <1>2

LEMMA RemoveAtIs ==
    ASSUME NEW s \in Seq(Uris), NEW i \in 1 .. Len(s)
    PROVE  /\ RemoveAt(s, i) \in Seq(Uris) /\ Len(RemoveAt(s, i)) = Len(s) - 1
           /\ \A j \in 1 .. Len(s) - 1 : RemoveAt(s, i)[j] = IF j < i THEN s[j] ELSE s[j + 1]
<1> DEFINE a == SubSeq(s, 1, i - 1)
           b == SubSeq(s, i + 1, Len(s))
<1>1. i \in Nat /\ Len(s) \in Nat /\ i <= Len(s) /\ \A j \in 1 .. Len(s) : s[j] \in Uris
    OBVIOUS
<1>2. /\ a \in Seq(Uris) /\ Len(a) = i - 1
      /\ \A j \in 1 .. i - 1 : a[j] = s[j]
    BY <1>1, SubSeqProperties, Z3
<1>3. /\ b \in Seq(Uris) /\ Len(b) = Len(s) - i
      /\ \A j \in 1 .. Len(s) - i : b[j] = s[i + j]
    BY <1>1, SubSeqProperties, Z3
<1> HIDE DEF a, b
<1>4. /\ a \o b \in Seq(Uris) /\ Len(a \o b) = Len(s) - 1
      /\ \A j \in 1 .. Len(s) - 1 : (a \o b)[j] = IF j <= i - 1 THEN a[j] ELSE b[j - (i - 1)]
    BY <1>1, <1>2, <1>3, ConcatProperties
<1>5. ASSUME NEW j \in 1 .. Len(s) - 1
      PROVE  (a \o b)[j] = IF j < i THEN s[j] ELSE s[j + 1]
  <2>1. CASE j < i
    BY <1>1, <1>2, <1>4, <2>1
  <2>2. CASE ~ (j < i)
    <3>1. j - (i - 1) \in 1 .. Len(s) - i /\ i + (j - (i - 1)) = j + 1
        BY <1>1, <2>2
    <3>2. (a \o b)[j] = b[j - (i - 1)]
        BY <1>1, <1>4, <2>2
    <3> QED BY <1>3, <2>2, <3>1, <3>2
  <2> QED BY <2>1, <2>2
<1> QED BY <1>4, <1>5 DEF RemoveAt, a, b

LEMMA WithoutIs ==
    ASSUME NEW n \in Nat, NEW s, IsList(s, n), NEW u
    PROVE  /\ IsList(Without(s, u), n)
           /\ \A v : Contains(Without(s, u), v) <=> Contains(s, v) /\ v # u
           /\ InOrder(Without(s, u), s)
           /\ Contains(s, u) => Len(Without(s, u)) = Len(s) - 1
<1> DEFINE t == Without(s, u)
<1>1. CASE ~ Contains(s, u)
  <2>1. t = s
    BY <1>1 DEF Without
  <2> QED BY <1>1, <2>1 DEF InOrder
<1>2. CASE Contains(s, u)
  <2>1. PICK i \in 1 .. Len(s) : s[i] = u /\ t = RemoveAt(s, i)
    BY <1>2 DEF Without, Contains
  <2> HIDE DEF t
  <2>2. /\ t \in Seq(Uris) /\ Len(t) = Len(s) - 1
        /\ \A j \in 1 .. Len(s) - 1 : t[j] = IF j < i THEN s[j] ELSE s[j + 1]
    BY <2>1, RemoveAtIs DEF IsList
  <2>3. Len(s) \in Nat /\ i \in Nat /\ i <= Len(s) /\ Len(s) <= n
    BY DEF IsList
  <2> DEFINE place(j) == IF j < i THEN j ELSE j + 1
  <2>4. \A j \in 1 .. Len(t) : place(j) \in 1 .. Len(s) /\ t[j] = s[place(j)] /\ place(j) # i
    BY <2>2, <2>3
  <2>5. \A j, k \in 1 .. Len(t) : (j < k <=> place(j) < place(k)) /\ (place(j) = place(k) => j = k)
    BY <2>2, <2>3
  <2>6. \A k \in 1 .. Len(s) : k # i => \E j \in 1 .. Len(t) : place(j) = k
    <3> SUFFICES ASSUME NEW k \in 1 .. Len(s), k # i PROVE \E j \in 1 .. Len(t) : place(j) = k
        OBVIOUS
    <3>1. CASE k < i
        BY <2>2, <2>3, <3>1
    <3>2. CASE k > i
      <4>1. k - 1 \in 1 .. Len(t) /\ place(k - 1) = k
        BY <2>2, <2>3, <3>2
      <4> QED BY <4>1
    <3> QED BY <2>3, <3>1, <3>2
  <2> HIDE DEF place
  <2>7. \A j, k \in 1 .. Len(s) : s[j] = s[k] => j = k
    BY DEF IsList
  <2>8. IsList(t, n)
    <3>1. \A j, k \in 1 .. Len(t) : t[j] = t[k] => j = k
        BY <2>4, <2>5, <2>7
    <3>2. Len(t) <= n
        BY <2>2, <2>3
    <3> QED BY <2>2, <3>1, <3>2 DEF IsList
  <2>9. \A v : Contains(t, v) <=> Contains(s, v) /\ v # u
    <3>1. ASSUME NEW v, Contains(t, v) PROVE Contains(s, v) /\ v # u
      <4>1. PICK j \in 1 .. Len(t) : t[j] = v
        BY <3>1 DEF Contains
      <4>2. place(j) \in 1 .. Len(s) /\ s[place(j)] = v /\ place(j) # i
        BY <2>4, <4>1
      <4> QED BY <2>1, <2>7, <4>2 DEF Contains
    <3>2. ASSUME NEW v, Contains(s, v), v # u PROVE Contains(t, v)
      <4>1. PICK k \in 1 .. Len(s) : s[k] = v
        BY <3>2 DEF Contains
      <4>2. PICK j \in 1 .. Len(t) : place(j) = k
        BY <2>1, <2>6, <3>2, <4>1
      <4> QED BY <2>4, <4>1, <4>2 DEF Contains
    <3> QED BY <3>1, <3>2
  <2>10. ASSUME NEW v, NEW x \in Newer(t, v) PROVE x \in Newer(s, v)
    <3>1. PICK j \in 1 .. Len(t), k \in 1 .. Len(t) : j < k /\ t[j] = v /\ t[k] = x
        BY NewerIs
    <3>2. place(j) < place(k) /\ s[place(j)] = v /\ s[place(k)] = x
        BY <2>4, <2>5, <3>1
    <3>3. place(j) \in 1 .. Len(s) /\ place(k) \in 1 .. Len(s)
        BY <2>4
    <3> QED BY <3>2, <3>3, NewerIs
  <2> QED BY <2>2, <2>8, <2>9, <2>10 DEF InOrder, t
<1> QED BY <1>1, <1>2

LEMMA AppendIs ==
    ASSUME NEW n \in Nat, NEW s, IsList(s, n), NEW u \in Uris, ~ Contains(s, u)
    PROVE  /\ IsList(Append(s, u), n + 1)
           /\ \A v : Contains(Append(s, u), v) <=> Contains(s, v) \/ v = u
           /\ Newer(Append(s, u), u) = {}
           /\ \A v : Newer(Append(s, u), v) \subseteq Newer(s, v) \cup {u}
<1> DEFINE t == Append(s, u)
<1>1. /\ t \in Seq(Uris) /\ Len(t) = Len(s) + 1 /\ Len(s) \in Nat /\ Len(s) <= n
      /\ t[Len(s) + 1] = u /\ \A j \in 1 .. Len(s) : t[j] = s[j]
    BY DEF IsList
<1>2. \A j \in 1 .. Len(s) : s[j] # u
    BY DEF Contains
<1> HIDE DEF t
<1>3. IsList(t, n + 1)
  <2>1. \A j, k \in 1 .. Len(s) : s[j] = s[k] => j = k
    BY DEF IsList
  <2>2. ASSUME NEW j \in 1 .. Len(t), NEW k \in 1 .. Len(t), t[j] = t[k] PROVE j = k
    <3>1. CASE j \in 1 .. Len(s) /\ k \in 1 .. Len(s)
        BY <1>1, <2>1, <2>2, <3>1
    <3>2. CASE j = Len(s) + 1 \/ k = Len(s) + 1
        BY <1>1, <1>2, <2>2, <3>2
    <3> QED BY <1>1, <3>1, <3>2
  <2> QED BY <1>1, <2>2 DEF IsList
<1>4. ASSUME NEW v PROVE Contains(t, v) <=> Contains(s, v) \/ v = u
  <2>1. ASSUME Contains(t, v) PROVE Contains(s, v) \/ v = u
    <3>1. PICK j \in 1 .. Len(t) : t[j] = v
        BY <2>1 DEF Contains
    <3>2. j \in 1 .. Len(s) \/ j = Len(s) + 1
        BY <1>1
    <3> QED BY <1>1, <3>1, <3>2 DEF Contains
  <2>2. ASSUME Contains(s, v) PROVE Contains(t, v)
    <3>1. PICK j \in 1 .. Len(s) : s[j] = v
        BY <2>2 DEF Contains
    <3>2. j \in 1 .. Len(t) /\ t[j] = v
        BY <1>1, <3>1
    <3> QED BY <3>2 DEF Contains
  <2>3. Len(s) + 1 \in 1 .. Len(t)
    BY <1>1
  <2> QED BY <1>1, <2>1, <2>2, <2>3 DEF Contains
<1>5. ASSUME NEW x \in Newer(t, u) PROVE FALSE
  <2>1. PICK j \in 1 .. Len(t), k \in 1 .. Len(t) : j < k /\ t[j] = u
    BY NewerIs
  <2>2. j \in 1 .. Len(s)
    BY <1>1, <2>1
  <2> QED BY <1>1, <1>2, <2>1, <2>2
<1>6. ASSUME NEW v, NEW x \in Newer(t, v) PROVE x \in Newer(s, v) \cup {u}
  <2>1. PICK j \in 1 .. Len(t), k \in 1 .. Len(t) : j < k /\ t[j] = v /\ t[k] = x
    BY NewerIs
  <2>2. CASE k = Len(s) + 1
    BY <1>1, <2>1, <2>2
  <2>3. CASE k # Len(s) + 1
    <3>1. j \in 1 .. Len(s) /\ k \in 1 .. Len(s)
        BY <1>1, <2>1, <2>3
    <3>2. s[j] = v /\ s[k] = x
        BY <1>1, <2>1, <3>1
    <3> QED BY <2>1, <3>1, <3>2, NewerIs
  <2> QED BY <2>2, <2>3
<1> QED BY <1>3, <1>4, <1>5, <1>6 DEF t

(* What goes at the cap has had as many used since as the cap says.        *)
LEMMA NewestIs ==
    ASSUME NEW n \in Nat \ {0}, NEW s, IsList(s, n + 1)
    PROVE  /\ IsList(Newest(s, n), n) /\ InOrder(Newest(s, n), s)
           /\ \A v : Contains(s, v) /\ ~ Contains(Newest(s, n), v)
                 => IsFiniteSet(Newer(s, v)) /\ Cardinality(Newer(s, v)) = n
           /\ \A v : Contains(s, v) /\ Newer(s, v) = {} => Contains(Newest(s, n), v)
<1> DEFINE t == Newest(s, n)
<1>1. /\ s \in Seq(Uris) /\ Len(s) \in Nat /\ Len(s) <= n + 1
      /\ \A j, k \in 1 .. Len(s) : s[j] = s[k] => j = k
      /\ \A j \in 1 .. Len(s) : s[j] \in Uris
    BY DEF IsList
<1>2. CASE Len(s) <= n
  <2>1. t = s
    BY <1>2 DEF Newest
  <2> QED BY <1>1, <1>2, <2>1 DEF IsList, InOrder
<1>3. CASE ~ (Len(s) <= n)
  <2>1. Len(s) = n + 1
    BY <1>1, <1>3
  <2>2. t = SubSeq(s, 2, n + 1)
    BY <1>3, <2>1 DEF Newest
  <2> HIDE DEF t
  <2>3. /\ t \in Seq(Uris) /\ Len(t) = n
        /\ \A j \in 1 .. n : t[j] = s[j + 1]
    BY <1>1, <2>1, <2>2, SubSeqProperties
  <2>4. IsList(t, n)
    <3>1. ASSUME NEW j \in 1 .. Len(t), NEW k \in 1 .. Len(t), t[j] = t[k] PROVE j = k
      <4>1. j + 1 \in 1 .. Len(s) /\ k + 1 \in 1 .. Len(s) /\ s[j + 1] = s[k + 1]
        BY <2>1, <2>3, <3>1
      <4>2. j + 1 = k + 1
        BY <1>1, <4>1
      <4> QED BY <4>2
    <3> QED BY <2>3, <3>1 DEF IsList
  <2>5. ASSUME NEW v, Contains(t, v) PROVE Contains(s, v) /\ Newer(t, v) \subseteq Newer(s, v)
    <3>1. PICK j \in 1 .. Len(t) : t[j] = v
        BY <2>5 DEF Contains
    <3>2. j + 1 \in 1 .. Len(s) /\ s[j + 1] = v
        BY <2>1, <2>3, <3>1
    <3>3. ASSUME NEW x \in Newer(t, v) PROVE x \in Newer(s, v)
      <4>1. PICK i \in 1 .. Len(t), k \in 1 .. Len(t) : i < k /\ t[i] = v /\ t[k] = x
        BY NewerIs
      <4>2. /\ i + 1 \in 1 .. Len(s) /\ k + 1 \in 1 .. Len(s) /\ i + 1 < k + 1
            /\ s[i + 1] = v /\ s[k + 1] = x
        BY <2>1, <2>3, <4>1
      <4> QED BY <4>2, NewerIs
    <3> QED BY <3>2, <3>3 DEF Contains
  <2>6. ASSUME NEW v, Contains(s, v), ~ Contains(t, v)
        PROVE  IsFiniteSet(Newer(s, v)) /\ Cardinality(Newer(s, v)) = n
    <3>1. PICK j \in 1 .. Len(s) : s[j] = v
        BY <2>6 DEF Contains
    <3>2. j = 1
      <4>1. j # 1 => j - 1 \in 1 .. Len(t) /\ t[j - 1] = v
        BY <2>1, <2>3, <3>1
      <4> QED BY <2>6, <4>1 DEF Contains
    <3> DEFINE f == [k \in 1 .. n |-> s[k + 1]]
    <3>3. \A k \in 1 .. n : k + 1 \in 1 .. Len(s) /\ 1 < k + 1 /\ 1 \in 1 .. Len(s)
        BY <2>1
    <3>4. \A k \in 1 .. n : f[k] \in Newer(s, v)
        BY <3>1, <3>2, <3>3, NewerIs
    <3>5. \A x \in Newer(s, v) : \E k \in 1 .. n : f[k] = x
      <4> SUFFICES ASSUME NEW x \in Newer(s, v) PROVE \E k \in 1 .. n : f[k] = x
        OBVIOUS
      <4>1. PICK i \in 1 .. Len(s), k \in 1 .. Len(s) : i < k /\ s[k] = x
        BY NewerIs
      <4>2. k - 1 \in 1 .. n /\ f[k - 1] = x
        BY <2>1, <4>1
      <4> QED BY <4>2
    <3>6. \A i, k \in 1 .. n : f[i] = f[k] => i = k
      <4> SUFFICES ASSUME NEW i \in 1 .. n, NEW k \in 1 .. n, f[i] = f[k] PROVE i = k
        OBVIOUS
      <4>1. s[i + 1] = s[k + 1] /\ i + 1 \in 1 .. Len(s) /\ k + 1 \in 1 .. Len(s)
        BY <3>3
      <4>2. i + 1 = k + 1
        BY <1>1, <4>1
      <4> QED BY <4>2
    <3>7. DOMAIN f = 1 .. n
        OBVIOUS
    <3> HIDE DEF f
    <3>8. IsFiniteSet(1 .. n) /\ Cardinality(1 .. n) = n
        BY FS_Interval
    <3>9. f \in [1 .. n -> Newer(s, v)]
        BY <3>4, <3>7, f = [k \in 1 .. n |-> f[k]] DEF f
    <3>10. f \in Surjection(1 .. n, Newer(s, v)) /\ f \in Injection(1 .. n, Newer(s, v))
        BY <3>5, <3>6, <3>7, <3>9 DEF Surjection, Injection, IsInjective
    <3> QED BY <3>8, <3>10, FS_Surjection
  <2>7. ASSUME NEW v, Contains(s, v), Newer(s, v) = {} PROVE Contains(t, v)
    <3>1. Cardinality(Newer(s, v)) = 0
        BY <2>7, FS_EmptySet
    <3> QED BY <2>6, <2>7, <3>1
  <2> QED BY <2>4, <2>5, <2>6, <2>7 DEF InOrder, t
<1> QED BY <1>2, <1>3

-----------------------------------------------------------------------------
(* While fewer than n others were used since v was, v is in the list, and  *)
(* those used since are the ones behind it.                                *)
Fresh(s, v, since, n) ==
    Cardinality(since) < n => Contains(s, v) /\ Newer(s, v) \subseteq since

LEMMA RefreshIs ==
    ASSUME NEW n \in Nat \ {0}, NEW s, IsList(s, n), NEW u \in Uris
    PROVE  /\ IsList(Refresh(s, u, n), n)
           /\ Contains(Refresh(s, u, n), u) /\ Newer(Refresh(s, u, n), u) = {}
           /\ \A v : Contains(Refresh(s, u, n), v) => Contains(s, v) \/ v = u
           /\ \A v, since : v # u /\ IsFiniteSet(since) /\ Fresh(s, v, since, n)
                 => Fresh(Refresh(s, u, n), v, since \cup {u}, n)
<1> DEFINE w == Without(s, u)
           a == Append(w, u)
           t == Newest(a, n)
<1>1. /\ IsList(w, n) /\ InOrder(w, s)
      /\ \A v : Contains(w, v) <=> Contains(s, v) /\ v # u
    BY WithoutIs
<1> HIDE DEF w
<1>2. /\ IsList(a, n + 1) /\ \A v : Contains(a, v) <=> Contains(w, v) \/ v = u
      /\ Newer(a, u) = {} /\ \A v : Newer(a, v) \subseteq Newer(w, v) \cup {u}
    BY <1>1, AppendIs
<1> HIDE DEF a
<1>3. /\ IsList(t, n) /\ InOrder(t, a)
      /\ \A v : Contains(a, v) /\ ~ Contains(t, v)
            => IsFiniteSet(Newer(a, v)) /\ Cardinality(Newer(a, v)) = n
      /\ \A v : Contains(a, v) /\ Newer(a, v) = {} => Contains(t, v)
    BY <1>2, NewestIs
<1> HIDE DEF t
<1>4. Contains(t, u) /\ Newer(t, u) = {}
    BY <1>2, <1>3 DEF InOrder
<1>5. \A v : Contains(t, v) => Contains(s, v) \/ v = u
    BY <1>1, <1>2, <1>3 DEF InOrder
<1>6. ASSUME NEW v, NEW since, v # u, IsFiniteSet(since), Fresh(s, v, since, n),
             Cardinality(since \cup {u}) < n
      PROVE  Contains(t, v) /\ Newer(t, v) \subseteq since \cup {u}
  <2>1. /\ IsFiniteSet(since \cup {u}) /\ Cardinality(since \cup {u}) \in Nat
        /\ Cardinality(since) \in Nat
    BY <1>6, FS_AddElement, FS_CardinalityType
  <2>2. Cardinality(since) <= Cardinality(since \cup {u})
    BY <2>1, FS_Subset
  <2>3. Contains(s, v) /\ Newer(s, v) \subseteq since
    BY <1>6, <2>1, <2>2 DEF Fresh
  <2>4. Contains(a, v) /\ Newer(a, v) \subseteq since \cup {u}
    BY <1>1, <1>2, <1>6, <2>3 DEF InOrder
  <2>5. Contains(t, v)
    <3> SUFFICES ASSUME ~ Contains(t, v) PROVE FALSE
        OBVIOUS
    <3>1. Cardinality(Newer(a, v)) = n
        BY <1>3, <2>4
    <3>2. Cardinality(Newer(a, v)) <= Cardinality(since \cup {u})
        BY <2>1, <2>4, FS_Subset
    <3> QED BY <1>6, <2>1, <3>1, <3>2
  <2> QED BY <1>3, <2>4, <2>5 DEF InOrder
<1> QED BY <1>3, <1>4, <1>5, <1>6 DEF Refresh, Fresh, t, a, w

LEMMA FreshWithout ==
    ASSUME NEW n \in Nat \ {0}, NEW s, IsList(s, n), NEW u, NEW v, NEW since, v # u,
           Fresh(s, v, since, n)
    PROVE  Fresh(Without(s, u), v, since, n)
BY WithoutIs DEF Fresh, InOrder

LEMMA FreshLonger ==
    ASSUME NEW n \in Nat, NEW s, NEW v, NEW since, NEW u, IsFiniteSet(since),
           Fresh(s, v, since, n)
    PROVE  Fresh(s, v, since \cup {u}, n)
<1>1. /\ IsFiniteSet(since \cup {u}) /\ Cardinality(since \cup {u}) \in Nat
      /\ Cardinality(since) \in Nat
    BY FS_AddElement, FS_CardinalityType
<1>2. Cardinality(since) <= Cardinality(since \cup {u})
    BY <1>1, FS_Subset
<1> QED BY <1>1, <1>2 DEF Fresh

LEMMA GetIs ==
    ASSUME NEW s, IsList(s, MaxEntries), NEW u \in Uris
    PROVE  Get(s, u) = IF Contains(s, u) THEN Refresh(s, u, MaxEntries) ELSE s
<1>1. CASE Contains(s, u)
  <2>1. /\ IsList(Without(s, u), MaxEntries) /\ Len(Without(s, u)) = Len(s) - 1
        /\ Len(s) \in Nat /\ Len(s) <= MaxEntries
    BY <1>1, WithoutIs, RoutingAssumption DEF IsList
  <2>2. Len(Append(Without(s, u), u)) = Len(s)
    BY <2>1 DEF IsList
  <2> QED BY <1>1, <2>1, <2>2 DEF Get, Refresh, Newest
<1> QED BY <1>1 DEF Get

-----------------------------------------------------------------------------
(* The invariant.                                                          *)

Shapes ==
    /\ pool \in [Ids -> Workers \cup {NoWorker}]
    /\ opened \in SUBSET Workers /\ purging \in SUBSET opened
    /\ \A i \in Ids : pool[i] # NoWorker => pool[i] \in opened
    /\ stage \in [Calls -> Stages]
    /\ at \in [Calls -> Workers \cup {NoWorker}]
    /\ owner \in [Calls -> Ids \cup {NoOwner}]
    /\ ref \in [Calls -> Uris \cup {NoUri}]
    /\ returned \in SUBSET (Workers \X Uris)
    /\ after \in [Workers \X Uris -> SUBSET Uris]
    /\ touched \in [Calls -> SUBSET Uris]

(* What a thread has found out by the stage it is at.                      *)
Known(c) ==
    /\ stage[c] \in {"called", "reading", "parked"} => at[c] \in Workers
    /\ stage[c] \in {"routing", "reading", "parked"} => ref[c] \in Uris
    /\ stage[c] = "routing" => owner[c] \in Ids
    /\ stage[c] = "parked" => ref[c] \in Parks[at[c]]

Lists ==
    /\ store = [w \in Workers |-> store[w]] /\ owners = [i \in Ids |-> owners[i]]
    /\ \A w \in Workers : IsList(store[w], MaxEntries)
    /\ \A i \in Ids : IsList(owners[i], MaxOwners)
    /\ \A i, j \in Ids, u \in Uris : Contains(owners[i], u) /\ Contains(owners[j], u) => i = j

FiniteHistory ==
    /\ \A p \in Workers \X Uris : IsFiniteSet(after[p])
    /\ \A c \in Calls : IsFiniteSet(touched[c])

(* A result that was parked stays in the store until its cap is reached... *)
StoreIsFresh ==
    /\ \A c \in Calls : stage[c] = "parked" =>
          Fresh(store[at[c]], ref[c], touched[c], MaxEntries)
    /\ \A p \in returned : Fresh(store[p[1]], p[2], after[p], MaxEntries)

(* ... and a reference that was returned in the owners until theirs is.    *)
OwnersAreFresh ==
    \A p \in returned : Own(p[1], p[2]) =>
        Fresh(owners[IdOf[p[1]]], p[2], after[p], MaxOwners)

RoutingInv ==
    /\ Shapes /\ \A c \in Calls : Known(c)
    /\ Lists /\ FiniteHistory /\ StoreIsFresh /\ OwnersAreFresh

LEMMA EmptyIsList == ASSUME NEW n \in Nat PROVE IsList(<<>>, n)
BY DEF IsList

LEMMA BeginInv == Init => RoutingInv
<1> SUFFICES ASSUME Init PROVE RoutingInv
    OBVIOUS
<1> USE DEF Init
<1>1. Shapes
    BY DEF Shapes, Stages
<1>2. \A c \in Calls : Known(c)
    BY DEF Known
<1>3. Lists
  <2>1. \A u : ~ Contains(<<>>, u)
    BY DEF Contains
  <2> QED BY <2>1, EmptyIsList, RoutingAssumption DEF Lists
<1>4. FiniteHistory
    BY FS_EmptySet DEF FiniteHistory
<1>5. StoreIsFresh /\ OwnersAreFresh
    BY DEF StoreIsFresh, OwnersAreFresh
<1> QED BY <1>1, <1>2, <1>3, <1>4, <1>5 DEF RoutingInv

LEMMA StepKinds ==
    ASSUME [Next]_vars
    PROVE  \/ UNCHANGED vars
           \/ \E w \in Workers : Open(w) \/ Close(w) \/ Purge(w) \/ Reap(w)
           \/ \E c \in Calls, w \in Workers : Resolve(c, w)
           \/ \E c \in Calls, u \in Uris : Park(c, u) \/ LookUp(c, u)
           \/ \E c \in Calls : Lost(c) \/ Remember(c) \/ Route(c) \/ Read(c)
           \/ \E w \in Workers, u \in Uris : ParkAside(w, u)
BY DEF Next

-----------------------------------------------------------------------------
LEMMA ShapesNext ==
    ASSUME Shapes, \A c \in Calls : Known(c), [Next]_vars
    PROVE  Shapes'
<1> USE RoutingAssumption DEF Shapes, Stages
<1>1. ASSUME NEW w \in Workers, Open(w) PROVE Shapes'
  <2>1. UNCHANGED <<purging, stage, at, owner, ref, returned, after, touched>>
    BY <1>1 DEF Open, history
  <2>2. pool' \in [Ids -> Workers \cup {NoWorker}] /\ opened' \in SUBSET Workers
    BY <1>1 DEF Open
  <2>3. \A i \in Ids : pool'[i] # NoWorker => pool'[i] \in opened'
    BY <1>1 DEF Open
  <2>4. purging' \in SUBSET opened'
    BY <1>1 DEF Open
  <2> QED BY <2>1, <2>2, <2>3, <2>4
<1>2. ASSUME NEW w \in Workers, Close(w) PROVE Shapes'
  <2>1. UNCHANGED <<opened, stage, at, owner, ref, returned, after, touched>>
    BY <1>2 DEF Close, history
  <2>2. IdOf[w] \in Ids /\ pool[IdOf[w]] = w /\ w # NoWorker
    BY <1>2 DEF Close, Serving
  <2>3. pool' \in [Ids -> Workers \cup {NoWorker}] /\ purging' \in SUBSET opened
    BY <1>2, <2>2 DEF Close
  <2>4. \A i \in Ids : pool'[i] # NoWorker => pool'[i] \in opened
    BY <1>2 DEF Close
  <2> QED BY <2>1, <2>3, <2>4
<1>3. ASSUME NEW w \in Workers, Purge(w) PROVE Shapes'
    BY <1>3 DEF Purge
<1>4. ASSUME NEW w \in Workers, Reap(w) PROVE Shapes'
  <2>1. UNCHANGED <<opened, purging, stage, at, owner, ref, returned, after, touched>>
    BY <1>4 DEF Reap, history
  <2>2. pool' \in [Ids -> Workers \cup {NoWorker}]
    BY <1>4 DEF Reap
  <2>3. \A i \in Ids : pool'[i] # NoWorker => pool'[i] \in opened
    BY <1>4 DEF Reap
  <2> QED BY <2>1, <2>2, <2>3
<1>5. ASSUME NEW c \in Calls, NEW w \in Workers, Resolve(c, w) PROVE Shapes'
    BY <1>5 DEF Resolve, history
<1>6. ASSUME NEW c \in Calls, NEW u \in Uris, Park(c, u) PROVE Shapes'
  <2>1. UNCHANGED <<pool, opened, purging, at, owner, returned>>
    BY <1>6 DEF Park
  <2>2. stage' \in [Calls -> Stages] /\ ref' \in [Calls -> Uris \cup {NoUri}]
    BY <1>6 DEF Park
  <2>3. after' \in [Workers \X Uris -> SUBSET Uris] /\ touched' \in [Calls -> SUBSET Uris]
    BY <1>6 DEF Park, Touch
  <2> QED BY <2>1, <2>2, <2>3
<1>7. ASSUME NEW c \in Calls, NEW u \in Uris, LookUp(c, u) PROVE Shapes'
  <2>1. UNCHANGED <<pool, opened, purging, at, returned, after, touched>>
    BY <1>7 DEF LookUp, history
  <2>2. stage' \in [Calls -> Stages] /\ ref' \in [Calls -> Uris \cup {NoUri}]
    BY <1>7 DEF LookUp
  <2>3. owner' \in [Calls -> Ids \cup {NoOwner}]
    BY <1>7 DEF LookUp, OwnersOf
  <2> QED BY <2>1, <2>2, <2>3
<1>8. ASSUME NEW c \in Calls, Lost(c) PROVE Shapes'
    BY <1>8 DEF Lost, history
<1>9. ASSUME NEW c \in Calls, Remember(c) PROVE Shapes'
  <2>1. UNCHANGED <<pool, opened, purging, at, owner, ref>>
    BY <1>9 DEF Remember
  <2>2. at[c] \in Workers /\ ref[c] \in Uris
    BY <1>9 DEF Remember, Known
  <2>3. stage' \in [Calls -> Stages] /\ touched' \in [Calls -> SUBSET Uris]
    BY <1>9 DEF Remember
  <2>4. returned' \in SUBSET (Workers \X Uris)
    BY <1>9, <2>2 DEF Remember
  <2>5. after' \in [Workers \X Uris -> SUBSET Uris]
    <3>1. touched[c] \in SUBSET Uris
        OBVIOUS
    <3>2. \A p \in Workers \X Uris : after[p] \in SUBSET Uris
        OBVIOUS
    <3> QED BY <1>9, <2>2, <3>1, <3>2 DEF Remember
  <2> QED BY <2>1, <2>3, <2>4, <2>5
<1>10. ASSUME NEW c \in Calls, Route(c) PROVE Shapes'
  <2>1. UNCHANGED <<pool, opened, purging, owner, ref, returned, after, touched>>
    BY <1>10 DEF Route, history
  <2>2. owner[c] \in Ids
    BY <1>10 DEF Route, Known
  <2>3. stage' \in [Calls -> Stages] /\ at' \in [Calls -> Workers \cup {NoWorker}]
    BY <1>10, <2>2 DEF Route
  <2> QED BY <2>1, <2>3
<1>11. ASSUME NEW c \in Calls, Read(c) PROVE Shapes'
  <2>1. UNCHANGED <<pool, opened, purging, at, owner, ref, returned>>
    BY <1>11 DEF Read
  <2>2. ref[c] \in Uris
    BY <1>11 DEF Read, Known
  <2>3. stage' \in [Calls -> Stages]
    BY <1>11 DEF Read
  <2>4. after' \in [Workers \X Uris -> SUBSET Uris] /\ touched' \in [Calls -> SUBSET Uris]
    BY <1>11, <2>2 DEF Read, Touch
  <2> QED BY <2>1, <2>3, <2>4
<1>12. ASSUME NEW w \in Workers, NEW u \in Uris, ParkAside(w, u) PROVE Shapes'
  <2>1. UNCHANGED <<pool, opened, purging, stage, at, owner, ref, returned>>
    BY <1>12 DEF ParkAside
  <2>2. after' \in [Workers \X Uris -> SUBSET Uris] /\ touched' \in [Calls -> SUBSET Uris]
    BY <1>12 DEF ParkAside, Touch
  <2> QED BY <2>1, <2>2
<1>13. CASE UNCHANGED vars
    BY <1>13 DEF vars, history
<1> QED BY <1>1, <1>2, <1>3, <1>4, <1>5, <1>6, <1>7, <1>8, <1>9, <1>10, <1>11, <1>12, <1>13,
           StepKinds

LEMMA KnownNext ==
    ASSUME Shapes, NEW d \in Calls, Known(d), [Next]_vars
    PROVE  Known(d)'
<1> USE RoutingAssumption DEF Shapes
<1>1. ASSUME UNCHANGED <<stage, at, owner, ref>> PROVE Known(d)'
    BY <1>1 DEF Known
<1>2. ASSUME NEW w \in Workers, Open(w) \/ Close(w) \/ Purge(w) \/ Reap(w) PROVE Known(d)'
    BY <1>1, <1>2 DEF Open, Close, Purge, Reap
<1>3. ASSUME NEW c \in Calls, NEW w \in Workers, Resolve(c, w) PROVE Known(d)'
    BY <1>3 DEF Resolve, Known
<1>4. ASSUME NEW c \in Calls, NEW u \in Uris, Park(c, u) PROVE Known(d)'
  <2>1. UNCHANGED <<at, owner>>
    BY <1>4 DEF Park
  <2>2. CASE d = c
    <3>1. stage[d] = "called" /\ stage'[d] = "parked" /\ ref'[d] = u /\ u \in Parks[at[d]]
        BY <1>4, <2>2 DEF Park
    <3> QED BY <2>1, <3>1 DEF Known
  <2>3. CASE d # c
    <3>1. stage'[d] = stage[d] /\ ref'[d] = ref[d]
        BY <1>4, <2>3 DEF Park
    <3> QED BY <2>1, <3>1 DEF Known
  <2> QED BY <2>2, <2>3
<1>5. ASSUME NEW c \in Calls, NEW u \in Uris, LookUp(c, u) PROVE Known(d)'
  <2>1. UNCHANGED at
    BY <1>5 DEF LookUp
  <2>2. CASE d = c
    <3>1. \/ stage'[d] = "failed"
          \/ stage'[d] = "routing" /\ ref'[d] = u /\ owner'[d] \in Ids
        BY <1>5, <2>2 DEF LookUp, OwnersOf
    <3> QED BY <3>1 DEF Known
  <2>3. CASE d # c
    <3>1. stage'[d] = stage[d] /\ ref'[d] = ref[d] /\ owner'[d] = owner[d]
        BY <1>5, <2>3 DEF LookUp
    <3> QED BY <2>1, <3>1 DEF Known
  <2> QED BY <2>2, <2>3
<1>6. ASSUME NEW c \in Calls, Lost(c) \/ Remember(c) \/ Read(c) PROVE Known(d)'
  <2>1. UNCHANGED <<at, owner, ref>>
    BY <1>6 DEF Lost, Remember, Read
  <2>2. stage'[d] = stage[d] \/ stage'[d] \in {"done", "failed"}
    BY <1>6 DEF Lost, Remember, Read
  <2> QED BY <2>1, <2>2 DEF Known
<1>7. ASSUME NEW c \in Calls, Route(c) PROVE Known(d)'
  <2>1. UNCHANGED <<owner, ref>>
    BY <1>7 DEF Route
  <2>2. CASE d = c
    <3>1. stage[d] = "routing" /\ owner[d] \in Ids /\ ref[d] \in Uris
        BY <1>7, <2>2 DEF Route, Known
    <3>2. \/ stage'[d] = "failed"
          \/ stage'[d] = "reading" /\ at'[d] \in Workers
        BY <1>7, <2>2, <3>1 DEF Route
    <3> QED BY <2>1, <3>1, <3>2 DEF Known
  <2>3. CASE d # c
    <3>1. stage'[d] = stage[d] /\ at'[d] = at[d]
        BY <1>7, <2>3 DEF Route
    <3> QED BY <2>1, <3>1 DEF Known
  <2> QED BY <2>2, <2>3
<1>8. ASSUME NEW w \in Workers, NEW u \in Uris, ParkAside(w, u) PROVE Known(d)'
    BY <1>1, <1>8 DEF ParkAside
<1>9. CASE UNCHANGED vars
    BY <1>1, <1>9 DEF vars
<1> QED BY <1>2, <1>3, <1>4, <1>5, <1>6, <1>7, <1>8, <1>9, StepKinds

-----------------------------------------------------------------------------
(* A use of u in the session of w.                                         *)
Used(w, u) ==
    /\ store' = [store EXCEPT ![w] = store'[w]]
    /\ \/ store'[w] = Refresh(store[w], u, MaxEntries)
       \/ store'[w] = store[w] /\ ~ Contains(store[w], u)
    /\ Touch(w, u)
    /\ UNCHANGED <<owners, at, returned>>

LEMMA ParkUses ==
    ASSUME Shapes, Lists, NEW c \in Calls, Known(c), NEW u \in Uris, Park(c, u)
    PROVE  at[c] \in Workers /\ Used(at[c], u)
<1>1. at[c] \in Workers
    BY DEF Park, Known
<1>2. store' = [store EXCEPT ![at[c]] = Refresh(store[at[c]], u, MaxEntries)]
    BY DEF Park, Put
<1>3. store'[at[c]] = Refresh(store[at[c]], u, MaxEntries)
    BY <1>1, <1>2 DEF Lists
<1> QED BY <1>1, <1>2, <1>3 DEF Park, Used

LEMMA ReadUses ==
    ASSUME Shapes, Lists, NEW c \in Calls, Known(c), Read(c)
    PROVE  at[c] \in Workers /\ ref[c] \in Uris /\ Used(at[c], ref[c])
<1>1. at[c] \in Workers /\ ref[c] \in Uris
    BY DEF Read, Known
<1>2. store' = [store EXCEPT ![at[c]] = Get(store[at[c]], ref[c])]
    BY DEF Read
<1>3. store'[at[c]] = Get(store[at[c]], ref[c])
    BY <1>1, <1>2 DEF Lists
<1>4. IsList(store[at[c]], MaxEntries)
    BY <1>1 DEF Lists
<1> QED BY <1>1, <1>2, <1>3, <1>4, GetIs DEF Read, Used

LEMMA AsideUses ==
    ASSUME Shapes, Lists, NEW w \in Workers, NEW u \in Uris, ParkAside(w, u)
    PROVE  Used(w, u)
<1>1. store' = [store EXCEPT ![w] = Refresh(store[w], u, MaxEntries)]
    BY DEF ParkAside, Put
<1>2. store'[w] = Refresh(store[w], u, MaxEntries)
    BY <1>1 DEF Lists
<1> QED BY <1>1, <1>2 DEF ParkAside, Used

LEMMA UseKeepsFresh ==
    ASSUME Shapes, Lists, FiniteHistory, StoreIsFresh,
           NEW w \in Workers, NEW u \in Uris, Used(w, u)
    PROVE  /\ \A c \in Calls : stage[c] = "parked" /\ at[c] \in Workers =>
                 Fresh(store'[at[c]], ref[c], touched'[c], MaxEntries)
           /\ \A p \in returned : Fresh(store'[p[1]], p[2], after'[p], MaxEntries)
           /\ \A v \in Workers : IsList(store'[v], MaxEntries)
           /\ \A p \in Workers \X Uris : IsFiniteSet(after'[p])
           /\ \A c \in Calls : IsFiniteSet(touched'[c])
           /\ \A p \in Workers \X Uris : after'[p] = after[p] \/ after'[p] = after[p] \cup {u}
           /\ store' = [v \in Workers |-> store'[v]]
<1>1. MaxEntries \in Nat \ {0} /\ IsList(store[w], MaxEntries)
    BY RoutingAssumption DEF Lists
<1>2. \A v \in Workers \ {w} : store'[v] = store[v]
    BY DEF Lists, Used
<1>3. /\ IsList(store'[w], MaxEntries)
      /\ \A v, since : v # u /\ IsFiniteSet(since) /\ Fresh(store[w], v, since, MaxEntries)
            => Fresh(store'[w], v, since \cup {u}, MaxEntries)
      /\ \A since : Fresh(store[w], u, since, MaxEntries) => Fresh(store'[w], u, since, MaxEntries)
  <2>1. CASE store'[w] = Refresh(store[w], u, MaxEntries)
    BY <1>1, <2>1, RefreshIs DEF Fresh
  <2>2. CASE store'[w] = store[w]
    BY <1>1, <2>2, FreshLonger
  <2> QED BY <2>1, <2>2 DEF Used
<1>4. ASSUME NEW c \in Calls, stage[c] = "parked", at[c] \in Workers
      PROVE  Fresh(store'[at[c]], ref[c], touched'[c], MaxEntries)
  <2>1. Fresh(store[at[c]], ref[c], touched[c], MaxEntries) /\ IsFiniteSet(touched[c])
    BY <1>4 DEF StoreIsFresh, FiniteHistory
  <2>2. touched'[c] = IF at[c] = w /\ ref[c] # u THEN touched[c] \cup {u} ELSE touched[c]
    BY <1>4 DEF Used, Touch
  <2>3. CASE at[c] # w
    BY <1>2, <1>4, <2>1, <2>2, <2>3
  <2>4. CASE at[c] = w /\ ref[c] = u
    BY <1>3, <2>1, <2>2, <2>4
  <2>5. CASE at[c] = w /\ ref[c] # u
    BY <1>3, <2>1, <2>2, <2>5
  <2> QED BY <2>3, <2>4, <2>5
<1>5. ASSUME NEW p \in returned
      PROVE  Fresh(store'[p[1]], p[2], after'[p], MaxEntries)
  <2>1. /\ p \in Workers \X Uris /\ p[1] \in Workers /\ IsFiniteSet(after[p])
        /\ Fresh(store[p[1]], p[2], after[p], MaxEntries)
    BY DEF StoreIsFresh, FiniteHistory, Shapes
  <2>2. after'[p] = IF p[1] = w /\ p[2] # u THEN after[p] \cup {u} ELSE after[p]
    BY <2>1 DEF Used, Touch
  <2>3. CASE p[1] # w
    BY <1>2, <2>1, <2>2, <2>3
  <2>4. CASE p[1] = w /\ p[2] = u
    BY <1>3, <2>1, <2>2, <2>4
  <2>5. CASE p[1] = w /\ p[2] # u
    BY <1>3, <2>1, <2>2, <2>5
  <2> QED BY <2>3, <2>4, <2>5
<1>6. \A v \in Workers : IsList(store'[v], MaxEntries)
    BY <1>2, <1>3 DEF Lists
<1>7. \A p \in Workers \X Uris : after'[p] = after[p] \/ after'[p] = after[p] \cup {u}
    BY DEF Used, Touch
<1>8. \A c \in Calls : touched'[c] = touched[c] \/ touched'[c] = touched[c] \cup {u}
    BY DEF Used, Touch
<1>9. /\ \A p \in Workers \X Uris : IsFiniteSet(after'[p])
      /\ \A c \in Calls : IsFiniteSet(touched'[c])
  <2>1. \A since : IsFiniteSet(since) => IsFiniteSet(since \cup {u})
    BY FS_AddElement
  <2> QED BY <1>7, <1>8, <2>1 DEF FiniteHistory
<1>10. store' = [v \in Workers |-> store'[v]]
    BY DEF Used, Lists
<1> QED BY <1>4, <1>5, <1>6, <1>7, <1>9, <1>10

(* The reply that brings a reference.                                      *)
LEMMA RememberIs ==
    ASSUME Shapes, Lists, FiniteHistory, NEW c \in Calls, Known(c), Remember(c)
    PROVE  /\ stage[c] = "parked" /\ at[c] \in Workers /\ ref[c] \in Uris /\ ref[c] \in Parks[at[c]]
           /\ IdOf[at[c]] \in Ids
           /\ owners' = [j \in Ids |-> IF j = IdOf[at[c]] THEN Refresh(owners[j], ref[c], MaxOwners)
                                       ELSE Without(owners[j], ref[c])]
           /\ returned' = returned \cup {<<at[c], ref[c]>>}
           /\ stage' = [stage EXCEPT ![c] = "done"] /\ touched' = [touched EXCEPT ![c] = {}]
           /\ after'[<<at[c], ref[c]>>] = touched[c]
           /\ \A p \in returned : p # <<at[c], ref[c]>> =>
                 after'[p] = IF IdOf[p[1]] = IdOf[at[c]] /\ p[2] # ref[c]
                             THEN after[p] \cup {ref[c]} ELSE after[p]
           /\ \A p \in Workers \X Uris : IsFiniteSet(after'[p])
           /\ UNCHANGED <<pool, store, at, ref>>
<1>1. /\ stage[c] = "parked" /\ at[c] \in Workers /\ ref[c] \in Uris /\ ref[c] \in Parks[at[c]]
      /\ IdOf[at[c]] \in Ids
    BY RoutingAssumption DEF Remember, Known
<1>2. /\ returned' = returned \cup {<<at[c], ref[c]>>}
      /\ stage' = [stage EXCEPT ![c] = "done"] /\ touched' = [touched EXCEPT ![c] = {}]
      /\ UNCHANGED <<pool, store, at, ref>>
      /\ owners' = [j \in Ids |-> IF j = IdOf[at[c]] THEN Refresh(owners[j], ref[c], MaxOwners)
                                  ELSE Without(owners[j], ref[c])]
    BY DEF Remember, Remembered
<1>3. \A p \in Workers \X Uris : after'[p] =
        CASE p = <<at[c], ref[c]>> -> touched[c]
          [] p \in returned /\ IdOf[p[1]] = IdOf[at[c]] /\ p[2] # ref[c] -> after[p] \cup {ref[c]}
          [] OTHER -> after[p]
    BY DEF Remember
<1>4. <<at[c], ref[c]>> \in Workers \X Uris
    BY <1>1
<1>5. after'[<<at[c], ref[c]>>] = touched[c]
    BY <1>3, <1>4
<1>6. ASSUME NEW p \in Workers \X Uris, p # <<at[c], ref[c]>>
      PROVE  after'[p] = IF p \in returned /\ IdOf[p[1]] = IdOf[at[c]] /\ p[2] # ref[c]
                         THEN after[p] \cup {ref[c]} ELSE after[p]
    BY <1>3, <1>6
<1>7. \A p \in returned : p \in Workers \X Uris
    BY DEF Shapes
<1>8. ASSUME NEW p \in Workers \X Uris PROVE IsFiniteSet(after'[p])
  <2>1. IsFiniteSet(touched[c]) /\ IsFiniteSet(after[p]) /\ IsFiniteSet(after[p] \cup {ref[c]})
    BY FS_AddElement DEF FiniteHistory
  <2> QED BY <1>5, <1>6, <2>1
<1> QED BY <1>1, <1>2, <1>5, <1>6, <1>7, <1>8

LEMMA HistoryNext ==
    ASSUME Shapes, Lists, FiniteHistory, StoreIsFresh, \A c \in Calls : Known(c), [Next]_vars
    PROVE  FiniteHistory'
<1>1. ASSUME UNCHANGED <<after, touched>> PROVE FiniteHistory'
    BY <1>1 DEF FiniteHistory
<1>2. ASSUME NEW w \in Workers, NEW u \in Uris, Used(w, u) PROVE FiniteHistory'
    BY <1>2, UseKeepsFresh DEF FiniteHistory
<1>3. ASSUME NEW w \in Workers, Open(w) \/ Close(w) \/ Purge(w) \/ Reap(w) PROVE FiniteHistory'
    BY <1>1, <1>3 DEF Open, Close, Purge, Reap, history
<1>4. ASSUME NEW c \in Calls, NEW w \in Workers, Resolve(c, w) PROVE FiniteHistory'
    BY <1>1, <1>4 DEF Resolve, history
<1>5. ASSUME NEW c \in Calls, NEW u \in Uris, Park(c, u) PROVE FiniteHistory'
    BY <1>2, <1>5, ParkUses
<1>6. ASSUME NEW c \in Calls, NEW u \in Uris, LookUp(c, u) PROVE FiniteHistory'
    BY <1>1, <1>6 DEF LookUp, history
<1>7. ASSUME NEW c \in Calls, Lost(c) \/ Route(c) PROVE FiniteHistory'
    BY <1>1, <1>7 DEF Lost, Route, history
<1>8. ASSUME NEW c \in Calls, Read(c) PROVE FiniteHistory'
    BY <1>2, <1>8, ReadUses
<1>9. ASSUME NEW c \in Calls, Remember(c) PROVE FiniteHistory'
  <2>1. /\ \A p \in Workers \X Uris : IsFiniteSet(after'[p])
        /\ touched' = [touched EXCEPT ![c] = {}]
    BY <1>9, RememberIs
  <2>2. \A d \in Calls : IsFiniteSet(touched'[d])
    BY <2>1, FS_EmptySet DEF FiniteHistory, Shapes
  <2> QED BY <2>1, <2>2 DEF FiniteHistory
<1>10. ASSUME NEW w \in Workers, NEW u \in Uris, ParkAside(w, u) PROVE FiniteHistory'
    BY <1>2, <1>10, AsideUses
<1>11. CASE UNCHANGED vars
    BY <1>1, <1>11 DEF vars, history
<1> QED BY <1>3, <1>4, <1>5, <1>6, <1>7, <1>8, <1>9, <1>10, <1>11, StepKinds

LEMMA ListsNext ==
    ASSUME Shapes, Lists, FiniteHistory, StoreIsFresh, \A c \in Calls : Known(c), [Next]_vars
    PROVE  Lists'
<1>1. ASSUME UNCHANGED <<store, owners>> PROVE Lists'
    BY <1>1 DEF Lists
<1>2. ASSUME NEW w \in Workers, NEW u \in Uris, Used(w, u) PROVE Lists'
  <2>1. owners' = owners
    BY <1>2 DEF Used
  <2> QED BY <1>2, <2>1, UseKeepsFresh DEF Lists
<1>3. ASSUME NEW w \in Workers, Open(w) \/ Close(w) \/ Reap(w) PROVE Lists'
    BY <1>1, <1>3 DEF Open, Close, Reap
<1>4. ASSUME NEW w \in Workers, Purge(w) PROVE Lists'
  <2>1. store' = store /\ owners' = [owners EXCEPT ![IdOf[w]] = <<>>]
    BY <1>4 DEF Purge
  <2>2. \A i \in Ids : owners'[i] = owners[i] \/ owners'[i] = <<>>
    BY <2>1 DEF Lists
  <2>3. \A i \in Ids : IsList(owners'[i], MaxOwners)
    BY <2>2, EmptyIsList, RoutingAssumption DEF Lists
  <2>4. \A i \in Ids, u \in Uris : Contains(owners'[i], u) => Contains(owners[i], u)
    BY <2>2 DEF Contains
  <2>5. owners' = [i \in Ids |-> owners'[i]]
    BY <2>1 DEF Lists
  <2> QED BY <2>1, <2>3, <2>4, <2>5 DEF Lists
<1>5. ASSUME NEW c \in Calls, NEW w \in Workers, Resolve(c, w) PROVE Lists'
    BY <1>1, <1>5 DEF Resolve
<1>6. ASSUME NEW c \in Calls, NEW u \in Uris, Park(c, u) PROVE Lists'
    BY <1>2, <1>6, ParkUses
<1>7. ASSUME NEW c \in Calls, NEW u \in Uris, LookUp(c, u) PROVE Lists'
    BY <1>1, <1>7 DEF LookUp
<1>8. ASSUME NEW c \in Calls, Lost(c) \/ Route(c) PROVE Lists'
    BY <1>1, <1>8 DEF Lost, Route
<1>9. ASSUME NEW c \in Calls, Read(c) PROVE Lists'
    BY <1>2, <1>9, ReadUses
<1>10. ASSUME NEW c \in Calls, Remember(c) PROVE Lists'
  <2> DEFINE i == IdOf[at[c]]
             u == ref[c]
  <2>1. /\ store' = store /\ u \in Uris /\ MaxOwners \in Nat \ {0}
        /\ owners' = [j \in Ids |-> IF j = i THEN Refresh(owners[j], u, MaxOwners)
                                    ELSE Without(owners[j], u)]
    BY <1>10, RememberIs, RoutingAssumption
  <2> HIDE DEF i, u
  <2>2. \A j \in Ids : IsList(owners[j], MaxOwners)
    BY DEF Lists
  <2>3. ASSUME NEW j \in Ids
        PROVE  /\ IsList(owners'[j], MaxOwners)
               /\ \A v : Contains(owners'[j], v) /\ v # u => Contains(owners[j], v)
               /\ Contains(owners'[j], u) => j = i
    <3>1. CASE j = i
      <4>1. owners'[j] = Refresh(owners[j], u, MaxOwners)
        BY <2>1, <3>1
      <4> QED BY <2>1, <2>2, <3>1, <4>1, RefreshIs
    <3>2. CASE j # i
      <4>1. owners'[j] = Without(owners[j], u)
        BY <2>1, <3>2
      <4> QED BY <2>1, <2>2, <4>1, WithoutIs
    <3> QED BY <3>1, <3>2
  <2>4. owners' = [j \in Ids |-> owners'[j]]
    BY <2>1
  <2>5. \A j, k \in Ids, v \in Uris : Contains(owners'[j], v) /\ Contains(owners'[k], v) => j = k
    BY <2>3 DEF Lists
  <2> QED BY <2>1, <2>3, <2>4, <2>5 DEF Lists
<1>11. ASSUME NEW w \in Workers, NEW u \in Uris, ParkAside(w, u) PROVE Lists'
    BY <1>2, <1>11, AsideUses
<1>12. CASE UNCHANGED vars
    BY <1>1, <1>12 DEF vars
<1> QED BY <1>3, <1>4, <1>5, <1>6, <1>7, <1>8, <1>9, <1>10, <1>11, <1>12, StepKinds

LEMMA StoreNext ==
    ASSUME Shapes, Lists, FiniteHistory, StoreIsFresh, \A c \in Calls : Known(c), [Next]_vars
    PROVE  StoreIsFresh'
<1>1. ASSUME UNCHANGED <<store, touched, after>>, returned' \subseteq returned,
             \A d \in Calls : stage'[d] = "parked" =>
                stage[d] = "parked" /\ at'[d] = at[d] /\ ref'[d] = ref[d]
      PROVE  StoreIsFresh'
    BY <1>1 DEF StoreIsFresh
<1>2. ASSUME NEW w \in Workers, NEW u \in Uris, Used(w, u), UNCHANGED <<stage, ref>>
      PROVE  StoreIsFresh'
  <2>1. at' = at /\ returned' = returned
    BY <1>2 DEF Used
  <2>2. \A d \in Calls : stage[d] = "parked" => at[d] \in Workers
    BY DEF Known
  <2> QED BY <1>2, <2>1, <2>2, UseKeepsFresh DEF StoreIsFresh
<1>3. ASSUME NEW w \in Workers, Open(w) \/ Close(w) \/ Purge(w) \/ Reap(w) PROVE StoreIsFresh'
  <2>1. UNCHANGED <<store, touched, after, stage, at, ref>> /\ returned' \subseteq returned
    BY <1>3 DEF Open, Close, Purge, Reap, history
  <2> QED BY <1>1, <2>1
<1>4. ASSUME NEW c \in Calls, NEW w \in Workers, Resolve(c, w) PROVE StoreIsFresh'
  <2>1. UNCHANGED <<store, touched, after, returned, ref>>
    BY <1>4 DEF Resolve, history
  <2>2. \A d \in Calls : stage'[d] = "parked" => stage[d] = "parked" /\ at'[d] = at[d]
    BY <1>4 DEF Resolve, Shapes
  <2> QED BY <1>1, <2>1, <2>2
<1>5. ASSUME NEW c \in Calls, NEW u \in Uris, Park(c, u) PROVE StoreIsFresh'
  <2>1. /\ at[c] \in Workers /\ Used(at[c], u)
        /\ at' = at /\ returned' = returned
        /\ stage' = [stage EXCEPT ![c] = "parked"] /\ ref' = [ref EXCEPT ![c] = u]
    BY <1>5, ParkUses DEF Park
  <2>2. store'[at[c]] = Refresh(store[at[c]], u, MaxEntries)
    BY <1>5, <2>1 DEF Park, Put, Lists
  <2>3. Contains(store'[at[c]], u) /\ Newer(store'[at[c]], u) = {}
    BY <2>1, <2>2, RefreshIs, RoutingAssumption DEF Lists
  <2>4. Fresh(store'[at[c]], u, touched'[c], MaxEntries)
    BY <2>3 DEF Fresh
  <2>5. ASSUME NEW d \in Calls, stage'[d] = "parked"
        PROVE  Fresh(store'[at'[d]], ref'[d], touched'[d], MaxEntries)
    <3>1. CASE d = c
      <4>1. ref'[c] = u
        BY <2>1 DEF Shapes
      <4> QED BY <2>1, <2>4, <3>1, <4>1
    <3>2. CASE d # c
      <4>1. stage[d] = "parked" /\ ref'[d] = ref[d] /\ at'[d] = at[d]
        BY <2>1, <2>5, <3>2 DEF Shapes
      <4>2. at[d] \in Workers
        BY <4>1 DEF Known
      <4>3. Fresh(store'[at[d]], ref[d], touched'[d], MaxEntries)
        BY <2>1, <4>1, <4>2, UseKeepsFresh
      <4> QED BY <4>1, <4>3
    <3> QED BY <3>1, <3>2
  <2>6. \A q \in returned : Fresh(store'[q[1]], q[2], after'[q], MaxEntries)
    BY <2>1, UseKeepsFresh
  <2> QED BY <2>1, <2>5, <2>6 DEF StoreIsFresh
<1>6. ASSUME NEW c \in Calls, NEW u \in Uris, LookUp(c, u) PROVE StoreIsFresh'
  <2>1. UNCHANGED <<store, touched, after, returned, at>>
    BY <1>6 DEF LookUp, history
  <2>2. \A d \in Calls : stage'[d] = "parked" => stage[d] = "parked" /\ ref'[d] = ref[d]
    BY <1>6 DEF LookUp, Shapes
  <2> QED BY <1>1, <2>1, <2>2
<1>7. ASSUME NEW c \in Calls, Lost(c) \/ Route(c) PROVE StoreIsFresh'
  <2>1. UNCHANGED <<store, touched, after, returned, ref>>
    BY <1>7 DEF Lost, Route, history
  <2>2. \A d \in Calls : stage'[d] = "parked" => stage[d] = "parked" /\ at'[d] = at[d]
    BY <1>7 DEF Lost, Route, Shapes
  <2> QED BY <1>1, <2>1, <2>2
<1>8. ASSUME NEW c \in Calls, Read(c) PROVE StoreIsFresh'
  <2>1. /\ at[c] \in Workers /\ ref[c] \in Uris /\ Used(at[c], ref[c])
        /\ UNCHANGED <<at, ref, returned>>
    BY <1>8, ReadUses DEF Read
  <2>2. \A d \in Calls : stage'[d] = "parked" => stage[d] = "parked" /\ at[d] \in Workers
    BY <1>8 DEF Read, Shapes, Known
  <2> QED BY <2>1, <2>2, UseKeepsFresh DEF StoreIsFresh
<1>9. ASSUME NEW c \in Calls, Remember(c) PROVE StoreIsFresh'
  <2> DEFINE q == <<at[c], ref[c]>>
  <2>1. /\ stage[c] = "parked" /\ at[c] \in Workers /\ ref[c] \in Uris
        /\ UNCHANGED <<store, at, ref>>
        /\ stage' = [stage EXCEPT ![c] = "done"] /\ touched' = [touched EXCEPT ![c] = {}]
        /\ returned' = returned \cup {q} /\ after'[q] = touched[c]
    BY <1>9, RememberIs
  <2>2. \A o \in returned : o # q =>
          after'[o] = after[o] \/ after'[o] = after[o] \cup {ref[c]}
    BY <1>9, RememberIs
  <2>3. q[1] = at[c] /\ q[2] = ref[c]
    OBVIOUS
  <2> HIDE DEF q
  <2>4. ASSUME NEW d \in Calls, stage'[d] = "parked"
        PROVE  Fresh(store'[at'[d]], ref'[d], touched'[d], MaxEntries)
    <3>1. stage[d] = "parked" /\ touched'[d] = touched[d]
        BY <2>1, <2>4 DEF Shapes
    <3> QED BY <2>1, <3>1 DEF StoreIsFresh
  <2>5. ASSUME NEW o \in returned, o # q
        PROVE  Fresh(store'[o[1]], o[2], after'[o], MaxEntries)
    <3>1. Fresh(store[o[1]], o[2], after[o], MaxEntries) /\ IsFiniteSet(after[o])
        BY DEF StoreIsFresh, FiniteHistory, Shapes
    <3>2. Fresh(store[o[1]], o[2], after[o] \cup {ref[c]}, MaxEntries)
        BY <3>1, FreshLonger, RoutingAssumption
    <3> QED BY <2>1, <2>2, <2>5, <3>1, <3>2
  <2>6. Fresh(store'[q[1]], q[2], after'[q], MaxEntries)
    BY <2>1, <2>3 DEF StoreIsFresh
  <2> QED BY <2>1, <2>4, <2>5, <2>6 DEF StoreIsFresh
<1>10. ASSUME NEW w \in Workers, NEW u \in Uris, ParkAside(w, u) PROVE StoreIsFresh'
    BY <1>2, <1>10, AsideUses DEF ParkAside
<1>11. CASE UNCHANGED vars
    BY <1>1, <1>11 DEF vars, history
<1> QED BY <1>3, <1>4, <1>5, <1>6, <1>7, <1>8, <1>9, <1>10, <1>11, StepKinds

LEMMA OwnersNext ==
    ASSUME Shapes, Lists, FiniteHistory, StoreIsFresh, OwnersAreFresh,
           \A c \in Calls : Known(c), [Next]_vars
    PROVE  OwnersAreFresh'
<1>1. \A w, u : Own(w, u)' = Own(w, u)
    BY DEF Own
<1>2. ASSUME UNCHANGED <<owners, after, returned>> PROVE OwnersAreFresh'
    BY <1>1, <1>2 DEF OwnersAreFresh
<1>3. ASSUME NEW w \in Workers, NEW u \in Uris, Used(w, u) PROVE OwnersAreFresh'
  <2>1. UNCHANGED <<owners, returned>>
    BY <1>3 DEF Used
  <2>2. ASSUME NEW o \in returned, Own(o[1], o[2])
        PROVE  Fresh(owners[IdOf[o[1]]], o[2], after'[o], MaxOwners)
    <3>1. /\ Fresh(owners[IdOf[o[1]]], o[2], after[o], MaxOwners)
          /\ IsFiniteSet(after[o]) /\ o \in Workers \X Uris
        BY <2>2 DEF OwnersAreFresh, FiniteHistory, Shapes
    <3>2. Fresh(owners[IdOf[o[1]]], o[2], after[o] \cup {u}, MaxOwners)
        BY <3>1, FreshLonger, RoutingAssumption
    <3>3. after'[o] = after[o] \/ after'[o] = after[o] \cup {u}
        BY <1>3, <3>1, UseKeepsFresh
    <3> QED BY <3>1, <3>2, <3>3
  <2> QED BY <1>1, <2>1, <2>2 DEF OwnersAreFresh
<1>4. ASSUME NEW w \in Workers, Open(w) \/ Close(w) \/ Reap(w) PROVE OwnersAreFresh'
    BY <1>2, <1>4 DEF Open, Close, Reap, history
<1>5. ASSUME NEW w \in Workers, Purge(w) PROVE OwnersAreFresh'
  <2>1. /\ owners' = [owners EXCEPT ![IdOf[w]] = <<>>] /\ after' = after
        /\ returned' = {q \in returned : IdOf[q[1]] # IdOf[w]}
    BY <1>5 DEF Purge
  <2>2. ASSUME NEW o \in returned'
        PROVE  o \in returned /\ owners'[IdOf[o[1]]] = owners[IdOf[o[1]]]
    <3>1. o \in returned /\ o[1] \in Workers /\ IdOf[o[1]] # IdOf[w]
        BY <2>1 DEF Shapes
    <3>2. IdOf[o[1]] \in Ids
        BY <3>1, RoutingAssumption
    <3> QED BY <2>1, <3>1, <3>2 DEF Lists
  <2> QED BY <1>1, <2>1, <2>2 DEF OwnersAreFresh
<1>6. ASSUME NEW c \in Calls, NEW w \in Workers, Resolve(c, w) PROVE OwnersAreFresh'
    BY <1>2, <1>6 DEF Resolve, history
<1>7. ASSUME NEW c \in Calls, NEW u \in Uris, Park(c, u) PROVE OwnersAreFresh'
    BY <1>3, <1>7, ParkUses
<1>8. ASSUME NEW c \in Calls, NEW u \in Uris, LookUp(c, u) PROVE OwnersAreFresh'
    BY <1>2, <1>8 DEF LookUp, history
<1>9. ASSUME NEW c \in Calls, Lost(c) \/ Route(c) PROVE OwnersAreFresh'
    BY <1>2, <1>9 DEF Lost, Route, history
<1>10. ASSUME NEW c \in Calls, Read(c) PROVE OwnersAreFresh'
    BY <1>3, <1>10, ReadUses
<1>11. ASSUME NEW c \in Calls, Remember(c) PROVE OwnersAreFresh'
  <2> DEFINE q == <<at[c], ref[c]>>
             i == IdOf[at[c]]
             u == ref[c]
  <2>1. /\ at[c] \in Workers /\ u \in Uris /\ u \in Parks[at[c]] /\ i \in Ids
        /\ owners' = [j \in Ids |-> IF j = i THEN Refresh(owners[j], u, MaxOwners)
                                    ELSE Without(owners[j], u)]
        /\ returned' = returned \cup {q} /\ MaxOwners \in Nat \ {0}
    BY <1>11, RememberIs, RoutingAssumption
  <2>2. \A o \in returned : o # q =>
          after'[o] = IF IdOf[o[1]] = i /\ o[2] # u THEN after[o] \cup {u} ELSE after[o]
    BY <1>11, RememberIs
  <2>3. q[1] = at[c] /\ q[2] = u /\ IdOf[q[1]] = i
    OBVIOUS
  <2>4. \A o \in Workers \X Uris : o[1] = at[c] /\ o[2] = u => o = q
    OBVIOUS
  <2> HIDE DEF q, i, u
  <2>5. \A j \in Ids : IsList(owners[j], MaxOwners)
    BY DEF Lists
  <2>6. Fresh(owners'[IdOf[q[1]]], q[2], after'[q], MaxOwners)
    <3>1. owners'[i] = Refresh(owners[i], u, MaxOwners)
        BY <2>1
    <3>2. Contains(owners'[i], u) /\ Newer(owners'[i], u) = {}
        BY <2>1, <2>5, <3>1, RefreshIs
    <3> QED BY <2>3, <3>2 DEF Fresh
  <2>7. ASSUME NEW o \in returned, o # q, Own(o[1], o[2])
        PROVE  Fresh(owners'[IdOf[o[1]]], o[2], after'[o], MaxOwners)
    <3>1. o \in Workers \X Uris /\ o[1] \in Workers /\ IdOf[o[1]] \in Ids
        BY RoutingAssumption DEF Shapes
    <3>2. IsFiniteSet(after[o]) /\ Fresh(owners[IdOf[o[1]]], o[2], after[o], MaxOwners)
        BY <2>7, <3>1 DEF FiniteHistory, OwnersAreFresh
    <3>3. o[2] # u
      <4> SUFFICES ASSUME o[2] = u PROVE FALSE
        OBVIOUS
      <4>1. o[1] # at[c]
        BY <2>4, <2>7, <3>1
      <4>2. u \notin Parks[at[c]]
        BY <2>1, <2>7, <4>1 DEF Own
      <4> QED BY <2>1, <4>2
    <3>4. CASE IdOf[o[1]] = i
      <4>1. owners'[i] = Refresh(owners[i], u, MaxOwners) /\ after'[o] = after[o] \cup {u}
        BY <2>1, <2>2, <2>7, <3>3, <3>4
      <4> QED BY <2>1, <2>5, <3>2, <3>3, <3>4, <4>1, RefreshIs
    <3>5. CASE IdOf[o[1]] # i
      <4>1. owners'[IdOf[o[1]]] = Without(owners[IdOf[o[1]]], u) /\ after'[o] = after[o]
        BY <2>1, <2>2, <2>7, <3>1, <3>5
      <4> QED BY <2>1, <2>5, <3>1, <3>2, <3>3, <4>1, FreshWithout
    <3> QED BY <3>4, <3>5
  <2> QED BY <1>1, <2>1, <2>6, <2>7 DEF OwnersAreFresh
<1>12. ASSUME NEW w \in Workers, NEW u \in Uris, ParkAside(w, u) PROVE OwnersAreFresh'
    BY <1>3, <1>12, AsideUses
<1>13. CASE UNCHANGED vars
    BY <1>2, <1>13 DEF vars, history
<1> QED BY <1>4, <1>5, <1>6, <1>7, <1>8, <1>9, <1>10, <1>11, <1>12, <1>13, StepKinds

-----------------------------------------------------------------------------
LEMMA RoutingInvHolds == Spec => []RoutingInv
<1>1. RoutingInv /\ [Next]_vars => RoutingInv'
  <2> SUFFICES ASSUME RoutingInv, [Next]_vars PROVE RoutingInv'
    OBVIOUS
  <2>1. /\ Shapes /\ Lists /\ FiniteHistory /\ StoreIsFresh /\ OwnersAreFresh
        /\ \A c \in Calls : Known(c)
    BY DEF RoutingInv
  <2>2. Shapes' /\ \A c \in Calls : Known(c)'
    BY <2>1, ShapesNext, KnownNext
  <2>3. Lists' /\ FiniteHistory' /\ StoreIsFresh' /\ OwnersAreFresh'
    BY <2>1, ListsNext, HistoryNext, StoreNext, OwnersNext
  <2> QED BY <2>2, <2>3 DEF RoutingInv
<1> QED BY <1>1, BeginInv, PTL DEF Spec

(* A reference that was returned can be read back while its session is     *)
(* open, until as many others were used in it as fit its store or its      *)
(* owners: router/supervisor.py remembers and forgets owners on the thread *)
(* of each reply, worker stores refresh and evict on their own, and other  *)
(* sessions, agents and merges go on meanwhile.  No store and no session   *)
(* takes more than its share.                                              *)
THEOREM OverflowRefsAreKept == Spec => []RefsAreKept
<1>1. RoutingInv => TypeOK
  <2> SUFFICES ASSUME RoutingInv PROVE TypeOK
    OBVIOUS
  <2>1. ASSUME NEW s, NEW n, IsList(s, n)
        PROVE  ToSet(s) \subseteq Uris /\ IsInjective(s) /\ Len(s) <= n
    BY <2>1 DEF IsList, ToSet, IsInjective
  <2>2. \A s, u : u \in ToSet(s) /\ s \in Seq(Uris) => Contains(s, u)
    BY DEF ToSet, Contains
  <2>3. \A i \in Ids : \A j \in Ids \ {i} : ToSet(owners[i]) \cap ToSet(owners[j]) = {}
    <3> SUFFICES ASSUME NEW i \in Ids, NEW j \in Ids, i # j, NEW u,
                        u \in ToSet(owners[i]), u \in ToSet(owners[j])
                 PROVE  FALSE
        OBVIOUS
    <3>1. IsList(owners[i], MaxOwners) /\ IsList(owners[j], MaxOwners)
        BY DEF RoutingInv, Lists
    <3>2. u \in Uris /\ Contains(owners[i], u) /\ Contains(owners[j], u)
        BY <2>1, <2>2, <3>1 DEF IsList
    <3> QED BY <3>2 DEF RoutingInv, Lists
  <2>4. /\ \A w \in Workers : IsList(store[w], MaxEntries)
        /\ \A i \in Ids : IsList(owners[i], MaxOwners)
    BY DEF RoutingInv, Lists
  <2>5. Shapes
    BY DEF RoutingInv
  <2> QED BY <2>1, <2>3, <2>4, <2>5 DEF TypeOK, Shapes
<1>2. RoutingInv => ReturnedRefIsReadable
  <2> SUFFICES ASSUME RoutingInv, NEW o \in returned, Serving(o[1]), Own(o[1], o[2]),
                      \A n \in {MaxEntries, MaxOwners} : Cardinality(after[o]) < n
               PROVE  Readable(o[2])
    BY DEF ReturnedRefIsReadable
  <2>1. o[1] \in Workers /\ IdOf[o[1]] \in Ids /\ o[1] # NoWorker
    BY RoutingAssumption DEF RoutingInv, Shapes
  <2>2. Contains(store[o[1]], o[2]) /\ Contains(owners[IdOf[o[1]]], o[2])
    BY DEF RoutingInv, StoreIsFresh, OwnersAreFresh, Fresh
  <2> QED BY <2>1, <2>2 DEF Readable, OwnersOf, Serving
<1> QED BY <1>1, <1>2, RoutingInvHolds, PTL DEF RefsAreKept
=============================================================================
