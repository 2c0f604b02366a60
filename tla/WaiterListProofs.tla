-------------------------- MODULE WaiterListProofs --------------------------
(***************************************************************************)
(* What the waiter-list operations do to the set of threads on a list.     *)
(* Every proof about a primitive rests on these facts and never looks      *)
(* inside a sequence again.                                                *)
(***************************************************************************)
EXTENDS WaiterList, Integers, WellFoundedInduction, SequenceTheorems, TLAPS

(* Every nonempty set of naturals has a least element.                     *)
LEMMA LeastNatural ==
    ASSUME NEW N \in SUBSET Nat, N # {}
    PROVE  \E x \in N : \A y \in N : x <= y
<1> DEFINE R == OpToRel(<, Nat)
<1>1. IsWellFoundedOn(R, Nat)
  BY NatLessThanWellFounded
<1>2. \E x \in N : \A y \in N : ~ (<<y, x>> \in R)
  <2> HIDE DEF R
  <2> QED BY <1>1, WFMin, Zenon
<1>3. \A x, y \in Nat : y < x => <<y, x>> \in R
  BY DEF OpToRel
<1> HIDE DEF R
<1>4. PICK x \in N : \A y \in N : ~ (<<y, x>> \in R)
  BY <1>2
<1>5. \A y \in N : ~(y < x)
  BY <1>3, <1>4, Zenon
<1>6. \A y \in N : x <= y
  BY <1>5
<1> QED BY <1>6

(* The enumerations Positions chooses from.                                *)
Enumerates(e, K) ==
    /\ \A i \in K : \E j \in DOMAIN e : e[j] = i
    /\ \A i, j \in DOMAIN e : i < j => e[i] < e[j]

(* A set of positions has an increasing enumeration: by a least length at  *)
(* which one is missing, which is neither 0 nor a successor.               *)
LEMMA EnumerationExists ==
    \A n \in Nat : \A K \in SUBSET (1..n) :
        \E k \in 0..n : \E e \in [1..k -> K] : Enumerates(e, K)
<1> DEFINE Good(n) == \A K \in SUBSET (1..n) :
              \E k \in 0..n : \E e \in [1..k -> K] : Enumerates(e, K)
           Bad == {n \in Nat : ~Good(n)}
<1>1. Good(0)
  <2> SUFFICES ASSUME NEW K \in SUBSET (1..0)
               PROVE  \E k \in 0..0 : \E e \in [1..k -> K] : Enumerates(e, K)
    OBVIOUS
  <2> DEFINE e == [i \in 1..0 |-> i]
  <2>1. e \in [1..0 -> K] /\ Enumerates(e, K)
    BY DEF Enumerates
  <2> HIDE DEF e
  <2>2. 0 \in 0..0
    OBVIOUS
  <2> QED BY <2>1, <2>2, Zenon
<1>2. ASSUME NEW n \in Nat, Good(n) PROVE Good(n + 1)
  <2> SUFFICES ASSUME NEW K \in SUBSET (1..n+1)
               PROVE  \E k \in 0..n+1 : \E e \in [1..k -> K] : Enumerates(e, K)
    BY Zenon
  <2> DEFINE L == K \ {n + 1}
  <2>1. L \in SUBSET (1..n)
    OBVIOUS
  <2>2. PICK k \in 0..n : \E e \in [1..k -> L] : Enumerates(e, L)
    BY <1>2, <2>1, Zenon
  <2>3. PICK e \in [1..k -> L] : Enumerates(e, L)
    BY <2>2
  <2>4. CASE n + 1 \notin K
    <3>1. L = K
      BY <2>4
    <3> QED BY <3>1, <2>3
  <2>5. CASE n + 1 \in K
    <3> DEFINE f == [i \in 1..k+1 |-> IF i = k + 1 THEN n + 1 ELSE e[i]]
    <3>1. f \in [1..k+1 -> K]
      BY <2>5, <2>3
    <3>2. \A i \in K : \E j \in 1..k+1 : f[j] = i
      <4> TAKE i \in K
      <4>1. CASE i = n + 1
        BY <4>1
      <4>2. CASE i # n + 1
        <5>1. PICK j \in 1..k : e[j] = i
          BY <4>2, <2>3 DEF Enumerates
        <5> QED BY <5>1
      <4> QED BY <4>1, <4>2
    <3>3. \A i, j \in 1..k+1 : i < j => f[i] < f[j]
      <4> TAKE i, j \in 1..k+1
      <4> HAVE i < j
      <4>0. i \in 1..k
        OBVIOUS
      <4>1. i \in 1..k /\ e[i] \in 1..n
        <5> HIDE DEF f, L
        <5> QED BY <4>0, <2>1, <2>3, Zenon
      <4>2. CASE j = k + 1
        BY <4>1, <4>2
      <4>3. CASE j # k + 1
        <5>1. j \in 1..k
          BY <4>3
        <5> QED BY <4>1, <5>1, <4>3, <2>3 DEF Enumerates
      <4> QED BY <4>2, <4>3
    <3>4. Enumerates(f, K)
      BY <3>1, <3>2, <3>3 DEF Enumerates
    <3>5. k + 1 \in 0..n+1
      OBVIOUS
    <3> QED BY <3>1, <3>4, <3>5
  <2> QED BY <2>4, <2>5
<1>3. Bad = {}
  <2> SUFFICES ASSUME Bad # {} PROVE FALSE
    BY Zenon
  <2>1. PICK b \in Bad : \A y \in Bad : b <= y
    <3> HIDE DEF Good
    <3> QED BY LeastNatural, Zenon
  <2>2. b \in Nat /\ ~Good(b)
    OBVIOUS
  <2>3. b # 0
    BY <1>1, <2>2
  <2>4. b - 1 \in Nat /\ b - 1 \notin Bad
    <3> HIDE DEF Good, Bad
    <3> QED BY <2>1, <2>2, <2>3
  <2>5. Good(b - 1)
    <3> HIDE DEF Good
    <3> QED BY <2>4
  <2>6. Good((b - 1) + 1)
    <3> HIDE DEF Good
    <3> QED BY <1>2, <2>4, <2>5
  <2>7. (b - 1) + 1 = b
    BY <2>2
  <2> QED BY <2>2, <2>6, <2>7
<1> QED BY <1>3, Zenon

(* RemoveSet keeps exactly the threads outside S, each as often as before. *)
LEMMA RemoveSetProperties ==
    ASSUME NEW T, NEW w \in Seq(T), NEW S
    PROVE  /\ RemoveSet(w, S) \in Seq(T)
           /\ \A t : Contains(RemoveSet(w, S), t) <=> Contains(w, t) /\ t \notin S
           /\ NoDuplicates(w) => NoDuplicates(RemoveSet(w, S))
<1> DEFINE kept == {i \in 1..Len(w) : w[i] \notin S}
           n == Len(w)
           e == Positions(kept, n)
           v == [k \in DOMAIN e |-> w[e[k]]]
<1>1. n \in Nat /\ kept \in SUBSET (1..n) /\ \A i \in kept : w[i] \in T
  BY ElementOfSeq, LenProperties
<1>2. PICK k \in 0..n : \E f \in [1..k -> kept] : Enumerates(f, kept)
  <2> HIDE DEF kept, n
  <2> QED BY <1>1, EnumerationExists, Zenon
<1>3. e \in UNION {[1..j -> kept] : j \in 0..n} /\ Enumerates(e, kept)
  <2> HIDE DEF kept, n
  <2>1. \E f \in UNION {[1..j -> kept] : j \in 0..n} : Enumerates(f, kept)
    BY <1>2
  <2> QED BY <2>1, Zenon DEF Positions, Enumerates
<1> HIDE DEF e
<1>4. PICK l \in 0..n : e \in [1..l -> kept]
  BY <1>3, Zenon
<1>5. l \in Nat /\ DOMAIN e = 1..l
  BY <1>1, <1>4
<1>6. \A i \in 1..l : e[i] \in kept
  BY <1>4
<1>7. v \in Seq(T) /\ Len(v) = l /\ \A i \in 1..l : v[i] = w[e[i]]
  <2>1. v \in [1..l -> T]
    <3> HIDE DEF kept
    <3> QED BY <1>1, <1>5, <1>6, Zenon
  <2>2. v \in Seq(T)
    BY <2>1, <1>5, IsASeq
  <2>3. Len(v) = l
    BY <2>1, <2>2, <1>5, LenProperties
  <2> QED BY <2>2, <2>3, <1>5
<1>8. RemoveSet(w, S) = v
  BY DEF RemoveSet, e
<1> HIDE DEF v
<1>9. ASSUME NEW t PROVE Contains(v, t) <=> Contains(w, t) /\ t \notin S
  <2>1. Contains(v, t) => Contains(w, t) /\ t \notin S
    BY <1>6, <1>7 DEF Contains
  <2>2. ASSUME Contains(w, t), t \notin S PROVE Contains(v, t)
    <3>1. PICK i \in 1..Len(w) : w[i] = t
      BY <2>2 DEF Contains
    <3>2. i \in kept
      BY <3>1, <2>2
    <3>3. PICK j \in 1..l : e[j] = i
      BY <1>3, <1>5, <3>2 DEF Enumerates
    <3> QED BY <3>1, <3>3, <1>7 DEF Contains
  <2> QED BY <2>1, <2>2
<1>10. ASSUME NoDuplicates(w) PROVE NoDuplicates(v)
  <2> SUFFICES ASSUME NEW i \in 1..l, NEW j \in 1..l, v[i] = v[j]
               PROVE  i = j
    BY <1>7 DEF NoDuplicates
  <2>1. e[i] = e[j]
    BY <1>6, <1>7, <1>10 DEF NoDuplicates
  <2>2. e[i] \in Int /\ e[j] \in Int
    BY <1>1, <1>6
  <2>3. (i < j => e[i] < e[j]) /\ (j < i => e[j] < e[i])
    <3>1. \A p, q \in 1..l : p < q => e[p] < e[q]
      BY <1>3, <1>5, Zenon DEF Enumerates
    <3> QED BY <3>1
  <2>4. ~(e[i] < e[j]) /\ ~(e[j] < e[i])
    BY <2>1, <2>2
  <2> QED BY <2>3, <2>4, <1>5
<1> QED BY <1>7, <1>8, <1>9, <1>10

(* Removing one thread.                                                    *)
LEMMA RemoveProperties ==
    ASSUME NEW T, NEW w \in Seq(T), NEW x
    PROVE  /\ Remove(w, x) \in Seq(T)
           /\ \A t : Contains(Remove(w, x), t) <=> Contains(w, t) /\ t # x
           /\ NoDuplicates(w) => NoDuplicates(Remove(w, x))
BY RemoveSetProperties DEF Remove

(* A thread that joins the back of a list it is not on.                    *)
LEMMA EnqueueProperties ==
    ASSUME NEW T, NEW w \in Seq(T), NEW x \in T
    PROVE  /\ Enqueue(w, x) \in Seq(T)
           /\ Enqueue(w, x) # <<>>
           /\ \A t : Contains(Enqueue(w, x), t) <=> Contains(w, t) \/ t = x
           /\ NoDuplicates(w) /\ ~Contains(w, x) => NoDuplicates(Enqueue(w, x))
<1>1. Len(w) \in Nat
  BY LenProperties
<1>2. /\ Append(w, x) \in Seq(T)
      /\ Append(w, x) # <<>>
      /\ Len(Append(w, x)) = Len(w) + 1
      /\ \A i \in 1..Len(w) : Append(w, x)[i] = w[i]
      /\ Append(w, x)[Len(w) + 1] = x
  BY AppendProperties
<1>3. \A t : Contains(Append(w, x), t) <=> Contains(w, t) \/ t = x
  BY <1>1, <1>2 DEF Contains
<1>4. NoDuplicates(w) /\ ~Contains(w, x) => NoDuplicates(Append(w, x))
  BY <1>1, <1>2 DEF NoDuplicates, Contains
<1> QED BY <1>2, <1>3, <1>4 DEF Enqueue

(* The head of a list leaves it.                                           *)
LEMMA DequeueProperties ==
    ASSUME NEW T, NEW w \in Seq(T), w # <<>>
    PROVE  /\ Head(w) \in T
           /\ Tail(w) \in Seq(T)
           /\ Contains(w, Head(w))
           /\ \A t : Contains(w, t) <=> t = Head(w) \/ Contains(Tail(w), t)
           /\ NoDuplicates(w) =>
                 NoDuplicates(Tail(w)) /\ ~Contains(Tail(w), Head(w))
<1>1. /\ Head(w) \in T
      /\ Tail(w) \in Seq(T)
      /\ Len(Tail(w)) = Len(w) - 1
      /\ \A i \in 1..Len(Tail(w)) : Tail(w)[i] = w[i+1]
  BY HeadTailProperties
<1>2. Len(w) \in Nat /\ Len(w) > 0 /\ Head(w) = w[1]
  BY LenProperties, EmptySeq
<1>3. ASSUME NEW t PROVE Contains(w, t) <=> t = Head(w) \/ Contains(Tail(w), t)
  <2>1. ASSUME NEW i \in 1..Len(w), w[i] = t, i # 1 PROVE Contains(Tail(w), t)
    <3>1. i - 1 \in 1..Len(Tail(w)) /\ Tail(w)[i - 1] = w[i]
      BY <1>1, <1>2, <2>1
    <3> QED BY <3>1, <2>1 DEF Contains
  <2>2. Contains(w, t) => t = Head(w) \/ Contains(Tail(w), t)
    BY <2>1, <1>2 DEF Contains
  <2>3. Contains(Tail(w), t) => Contains(w, t)
    <3> SUFFICES ASSUME NEW i \in 1..Len(Tail(w)), Tail(w)[i] = t
                 PROVE  Contains(w, t)
      BY DEF Contains
    <3>1. i + 1 \in 1..Len(w) /\ w[i + 1] = t
      BY <1>1, <1>2
    <3> QED BY <3>1 DEF Contains
  <2>4. t = Head(w) => Contains(w, t)
    BY <1>2 DEF Contains
  <2> QED BY <2>2, <2>3, <2>4
<1>4. ASSUME NoDuplicates(w)
      PROVE  NoDuplicates(Tail(w)) /\ ~Contains(Tail(w), Head(w))
  <2>1. NoDuplicates(Tail(w))
    <3> SUFFICES ASSUME NEW i \in 1..Len(Tail(w)), NEW j \in 1..Len(Tail(w)),
                        Tail(w)[i] = Tail(w)[j]
                 PROVE  i = j
      BY DEF NoDuplicates
    <3>1. i + 1 \in 1..Len(w) /\ j + 1 \in 1..Len(w) /\ w[i + 1] = w[j + 1]
      BY <1>1, <1>2
    <3>2. i + 1 = j + 1
      BY <3>1, <1>4 DEF NoDuplicates
    <3> QED BY <3>2
  <2>2. ASSUME NEW i \in 1..Len(Tail(w)), Tail(w)[i] = Head(w) PROVE FALSE
    <3>1. i + 1 \in 1..Len(w) /\ w[i + 1] = w[1] /\ 1 \in 1..Len(w)
      BY <1>1, <1>2, <2>2
    <3>2. i + 1 = 1
      BY <3>1, <1>4 DEF NoDuplicates
    <3> QED BY <3>2
  <2> QED BY <2>1, <2>2 DEF Contains
<1> QED BY <1>1, <1>2, <1>3, <1>4

(* Two lists joined.                                                       *)
LEMMA ConcatWaiters ==
    ASSUME NEW T, NEW w \in Seq(T), NEW v \in Seq(T)
    PROVE  /\ w \o v \in Seq(T)
           /\ \A t : Contains(w \o v, t) <=> Contains(w, t) \/ Contains(v, t)
           /\ /\ NoDuplicates(w) /\ NoDuplicates(v)
              /\ \A t : ~(Contains(w, t) /\ Contains(v, t))
              => NoDuplicates(w \o v)
<1>1. Len(w) \in Nat /\ Len(v) \in Nat
  BY LenProperties
<1>2. /\ w \o v \in Seq(T)
      /\ Len(w \o v) = Len(w) + Len(v)
      /\ \A i \in 1..Len(w) + Len(v) : (w \o v)[i] =
            IF i <= Len(w) THEN w[i] ELSE v[i - Len(w)]
  BY ConcatProperties
<1>3. ASSUME NEW t
      PROVE  Contains(w \o v, t) <=> Contains(w, t) \/ Contains(v, t)
  <2>1. ASSUME NEW i \in 1..Len(v), v[i] = t PROVE Contains(w \o v, t)
    <3>1. /\ i + Len(w) \in 1..Len(w \o v)
          /\ (w \o v)[i + Len(w)] = v[i]
      BY <1>1, <1>2
    <3> QED BY <3>1, <2>1 DEF Contains
  <2>2. ASSUME NEW i \in 1..Len(w), w[i] = t PROVE Contains(w \o v, t)
    BY <1>1, <1>2, <2>2 DEF Contains
  <2>3. ASSUME NEW i \in 1..Len(w \o v), (w \o v)[i] = t
        PROVE  Contains(w, t) \/ Contains(v, t)
    <3>1. CASE i <= Len(w)
      BY <3>1, <1>1, <1>2, <2>3 DEF Contains
    <3>2. CASE ~(i <= Len(w))
      <4>1. i - Len(w) \in 1..Len(v) /\ v[i - Len(w)] = t
        BY <3>2, <1>1, <1>2, <2>3
      <4> QED BY <4>1 DEF Contains
    <3> QED BY <3>1, <3>2
  <2> QED BY <2>1, <2>2, <2>3 DEF Contains
<1>4. ASSUME NoDuplicates(w), NoDuplicates(v),
             \A t : ~(Contains(w, t) /\ Contains(v, t)),
             NEW i \in 1..Len(w \o v), NEW j \in 1..Len(w \o v),
             (w \o v)[i] = (w \o v)[j]
      PROVE  i = j
  <2>1. CASE i <= Len(w) /\ j <= Len(w)
    BY <2>1, <1>1, <1>2, <1>4 DEF NoDuplicates
  <2>2. CASE ~(i <= Len(w)) /\ ~(j <= Len(w))
    <3>1. /\ i - Len(w) \in 1..Len(v) /\ j - Len(w) \in 1..Len(v)
          /\ v[i - Len(w)] = v[j - Len(w)]
      BY <2>2, <1>1, <1>2, <1>4
    <3>2. i - Len(w) = j - Len(w)
      BY <3>1, <1>4 DEF NoDuplicates
    <3> QED BY <3>2, <1>1
  <2>3. CASE i <= Len(w) /\ ~(j <= Len(w))
    <3>1. /\ i \in 1..Len(w) /\ j - Len(w) \in 1..Len(v)
          /\ w[i] = v[j - Len(w)]
      BY <2>3, <1>1, <1>2, <1>4
    <3> QED BY <3>1, <1>4, Zenon DEF Contains
  <2>4. CASE ~(i <= Len(w)) /\ j <= Len(w)
    <3>1. /\ j \in 1..Len(w) /\ i - Len(w) \in 1..Len(v)
          /\ w[j] = v[i - Len(w)]
      BY <2>4, <1>1, <1>2, <1>4
    <3> QED BY <3>1, <1>4 DEF Contains
  <2> QED BY <2>1, <2>2, <2>3, <2>4
<1> QED BY <1>2, <1>3, <1>4 DEF NoDuplicates

(* The empty list and the list of one thread.                              *)
LEMMA SmallLists ==
    ASSUME NEW T
    PROVE  /\ <<>> \in Seq(T)
           /\ \A t : ~Contains(<<>>, t)
           /\ NoDuplicates(<<>>)
           /\ \A x \in T : /\ <<x>> \in Seq(T) /\ <<x>> # <<>>
                            /\ Head(<<x>>) = x /\ Tail(<<x>>) = <<>>
                            /\ NoDuplicates(<<x>>)
                            /\ \A t : Contains(<<x>>, t) <=> t = x
BY DEF Contains, NoDuplicates

(* A list nobody is on is empty.                                           *)
LEMMA EmptyList ==
    ASSUME NEW T, NEW w \in Seq(T), \A t \in T : ~Contains(w, t)
    PROVE  w = <<>>
<1> SUFFICES ASSUME w # <<>> PROVE FALSE
  OBVIOUS
<1>1. Head(w) \in T /\ Contains(w, Head(w))
  BY DequeueProperties
<1> QED BY <1>1

(* Waiting is the set Contains decides.                                    *)
LEMMA WaitingContains ==
    ASSUME NEW w PROVE \A t : t \in Waiting(w) <=> Contains(w, t)
BY DEF Waiting, Contains
=============================================================================
