---------------------------- MODULE BatchLemmas ----------------------------
(***************************************************************************)
(* What the batch models share, for any number of workers and every batch. *)
(* What the operators of TrainingBatches and BatchRanges compute: the      *)
(* chunks of an exact cover, sorted by their keys, become the in-order     *)
(* batch, and both ways of cutting a batch produce an exact cover.  And    *)
(* what a scope of threads guarantees whatever its workers do: the         *)
(* invariant every parallel entry point rests on, shown to survive every   *)
(* operation of ScopedThreads.                                             *)
(***************************************************************************)
EXTENDS ScopedThreads, TrainingBatches, BatchRanges, TokenizerLemmas

(* An increasing map of an interval into itself moves nothing.             *)
LEMMA IncreasingIsIdentity ==
  ASSUME NEW n \in Nat, NEW h \in [1 .. n -> 1 .. n],
         \A i, j \in 1 .. n : i < j => h[i] < h[j]
  PROVE  \A i \in 1 .. n : h[i] = i
<1> DEFINE Up == {k \in Nat : k + 1 <= n => h[k + 1] >= k + 1}
           Down == {k \in Nat : k < n => h[n - k] <= n - k}
<1>1. \A i \in 1 .. n : h[i] \in Nat /\ h[i] >= 1 /\ h[i] <= n
  OBVIOUS
<1>2. Nat \subseteq Up
  <2>1. 0 \in Up
    <3>1. 0 + 1 = 1 /\ (1 <= n => 1 \in 1 .. n)
      OBVIOUS
    <3>2. QED
      BY <1>1, <3>1
  <2>2. ASSUME NEW k \in Nat, k \in Up PROVE k + 1 \in Up
    <3> SUFFICES ASSUME (k + 1) + 1 <= n PROVE h[(k + 1) + 1] >= (k + 1) + 1
      OBVIOUS
    <3>1. k + 1 \in 1 .. n /\ (k + 1) + 1 \in 1 .. n /\ k + 1 < (k + 1) + 1
      OBVIOUS
    <3>2. h[k + 1] >= k + 1 /\ h[k + 1] < h[(k + 1) + 1]
      BY <2>2, <3>1
    <3>3. h[k + 1] \in Nat /\ h[(k + 1) + 1] \in Nat
      BY <1>1, <3>1
    <3>4. QED
      BY <3>2, <3>3
  <2> HIDE DEF Up
  <2>3. QED
    BY <2>1, <2>2, NatSetInduction
<1>3. Nat \subseteq Down
  <2>1. 0 \in Down
    <3>1. n - 0 = n /\ (0 < n => n \in 1 .. n)
      OBVIOUS
    <3>2. QED
      BY <1>1, <3>1
  <2>2. ASSUME NEW k \in Nat, k \in Down PROVE k + 1 \in Down
    <3> SUFFICES ASSUME k + 1 < n PROVE h[n - (k + 1)] <= n - (k + 1)
      OBVIOUS
    <3>1. n - k \in 1 .. n /\ n - (k + 1) \in 1 .. n /\ n - (k + 1) < n - k
      OBVIOUS
    <3>2. h[n - k] <= n - k /\ h[n - (k + 1)] < h[n - k]
      BY <2>2, <3>1
    <3>3. h[n - k] \in Nat /\ h[n - (k + 1)] \in Nat
      BY <1>1, <3>1
    <3>4. QED
      BY <3>2, <3>3
  <2> HIDE DEF Down
  <2>3. QED
    BY <2>1, <2>2, NatSetInduction
<1>4. ASSUME NEW i \in 1 .. n PROVE h[i] = i
  <2>1. i - 1 \in Nat /\ (i - 1) + 1 = i /\ i <= n /\ n - i \in Nat /\ n - (n - i) = i /\ n - i < n
    OBVIOUS
  <2>2. h[i] >= i
    BY <1>2, <2>1
  <2>3. h[i] <= i
    BY <1>3, <2>1
  <2>4. QED
    BY <1>1, <2>2, <2>3
<1>5. QED
  BY <1>4

(* A permutation of the positions that puts the keys in ascending order.   *)
IsSorting(p, keys, m) ==
  /\ p \in [1 .. m -> 1 .. m]
  /\ IsInjective(p)
  /\ \A i, j \in 1 .. m : i < j => keys[p[i]] <= keys[p[j]]

(* Every sequence of keys can be sorted: the last key is put in its place  *)
(* among the others, which are sorted by induction.                        *)
LEMMA SortingExists ==
  ASSUME NEW keys \in Seq(Nat)
  PROVE  \E p : IsSorting(p, keys, Len(keys))
<1> DEFINE Sortable(m) == m <= Len(keys) => \E p : IsSorting(p, keys, m)
           S == {m \in Nat : Sortable(m)}
<1>0. \A i \in 1 .. Len(keys) : keys[i] \in Nat
  OBVIOUS
<1>1. Sortable(0)
  <2>1. IsSorting([i \in 1 .. 0 |-> i], keys, 0)
    BY DEF IsSorting, IsInjective
  <2>2. QED
    BY <2>1
<1>2. ASSUME NEW m \in Nat, Sortable(m), m + 1 <= Len(keys)
      PROVE  \E q : IsSorting(q, keys, m + 1)
  <2>1. PICK p : IsSorting(p, keys, m)
    BY <1>2
  <2>2. /\ \A i \in 1 .. m : p[i] \in 1 .. m /\ keys[p[i]] \in Nat
        /\ \A i, j \in 1 .. m : p[i] = p[j] => i = j
        /\ \A i, j \in 1 .. m : i < j => keys[p[i]] <= keys[p[j]]
    <3>1. p \in [1 .. m -> 1 .. m] /\ IsInjective(p)
      BY <2>1 DEF IsSorting
    <3>2. \A i, j \in 1 .. m : i < j => keys[p[i]] <= keys[p[j]]
      BY <2>1 DEF IsSorting
    <3>3. \A i \in 1 .. m : i \in 1 .. Len(keys)
      BY <1>2
    <3>4. \A i, j \in 1 .. m : p[i] = p[j] => i = j
      BY <3>1 DEF IsInjective
    <3>5. QED
      BY <1>0, <3>1, <3>2, <3>3, <3>4
  <2>3. keys[m + 1] \in Nat
    BY <1>0, <1>2
  <2> DEFINE B == {i \in 1 .. m : ~ (keys[p[i]] <= keys[m + 1])}
  <2>4. PICK c \in 0 .. m :
          /\ \A i \in 1 .. c : keys[p[i]] <= keys[m + 1]
          /\ \A i \in c + 1 .. m : keys[m + 1] <= keys[p[i]]
    <3>1. CASE B = {}
      <4>1. \A i \in 1 .. m : keys[p[i]] <= keys[m + 1]
        BY <3>1
      <4>2. m \in 0 .. m /\ m + 1 .. m = {}
        OBVIOUS
      <4> HIDE DEF B
      <4>3. QED
        BY <4>1, <4>2
    <3>2. CASE B # {}
      <4> DEFINE c == Min(B)
      <4>1. B \in SUBSET Nat
        OBVIOUS
      <4>2. c \in B /\ \A y \in B : c <= y
        <5> HIDE DEF B
        <5> QED BY <3>2, <4>1, MinOfNaturals
      <4> HIDE DEF c
      <4>3. c \in 1 .. m /\ ~ (keys[p[c]] <= keys[m + 1])
        BY <4>2
      <4>4. ASSUME NEW i \in 1 .. c - 1 PROVE keys[p[i]] <= keys[m + 1]
        <5>1. i \in 1 .. m /\ ~ (c <= i)
          BY <4>3
        <5>2. i \notin B
          BY <4>2, <5>1
        <5>3. QED
          BY <5>1, <5>2
      <4>5. ASSUME NEW i \in c .. m PROVE keys[m + 1] <= keys[p[i]]
        <5>1. i \in 1 .. m /\ (i = c \/ c < i)
          BY <4>3
        <5>2. keys[p[c]] <= keys[p[i]]
          BY <2>2, <4>3, <5>1
        <5>3. keys[p[c]] \in Nat /\ keys[p[i]] \in Nat
          BY <2>2, <4>3, <5>1
        <5>4. QED
          BY <2>3, <4>3, <5>2, <5>3
      <4>6. c - 1 \in 0 .. m /\ (c - 1) + 1 = c
        BY <4>3
      <4>7. QED
        BY <4>4, <4>5, <4>6
    <3>3. QED
      BY <3>1, <3>2
  <2> DEFINE q == [i \in 1 .. m + 1 |->
                     IF i <= c THEN p[i] ELSE IF i = c + 1 THEN m + 1 ELSE p[i - 1]]
  <2>5. ASSUME NEW i \in 1 .. m + 1
        PROVE  \/ i <= c /\ i \in 1 .. m /\ q[i] = p[i]
               \/ i = c + 1 /\ q[i] = m + 1
               \/ i > c + 1 /\ i - 1 \in 1 .. m /\ i - 1 \in c + 1 .. m /\ q[i] = p[i - 1]
    OBVIOUS
  <2> HIDE DEF q
  <2>6. q \in [1 .. m + 1 -> 1 .. m + 1]
    <3>1. ASSUME NEW i \in 1 .. m + 1 PROVE q[i] \in 1 .. m + 1
      <4>1. \A x \in 1 .. m : x \in 1 .. m + 1
        OBVIOUS
      <4>2. m + 1 \in 1 .. m + 1
        OBVIOUS
      <4>3. QED
        BY <2>2, <2>5, <4>1, <4>2
    <3>2. QED
      BY <3>1 DEF q
  <2>7. IsInjective(q)
    <3>1. ASSUME NEW i \in 1 .. m + 1, NEW j \in 1 .. m + 1, q[i] = q[j] PROVE i = j
      <4>1. \A x \in 1 .. m : p[x] # m + 1
        BY <2>2
      <4>2. CASE i = c + 1 \/ j = c + 1
        BY <2>5, <3>1, <4>1, <4>2
      <4>3. CASE i # c + 1 /\ j # c + 1
        <5> DEFINE a == IF i <= c THEN i ELSE i - 1
                   b == IF j <= c THEN j ELSE j - 1
        <5>1. a \in 1 .. m /\ b \in 1 .. m /\ q[i] = p[a] /\ q[j] = p[b]
          BY <2>5, <4>3
        <5>2. a = b
          <6> HIDE DEF a, b
          <6> QED BY <2>2, <3>1, <5>1
        <5>3. QED
          BY <5>2, <4>3
      <4>4. QED
        BY <4>2, <4>3
    <3>2. DOMAIN q = 1 .. m + 1
      BY <2>6
    <3>3. QED
      BY <3>1, <3>2 DEF IsInjective
  <2>8. ASSUME NEW i \in 1 .. m + 1, NEW j \in 1 .. m + 1, i < j
        PROVE  keys[q[i]] <= keys[q[j]]
    <3>1. CASE i <= c
      <4>1. i \in 1 .. m /\ q[i] = p[i] /\ i \in 1 .. c
        BY <2>5, <3>1
      <4>2. CASE j <= c
        <5>1. j \in 1 .. m /\ q[j] = p[j]
          BY <2>5, <4>2
        <5>2. QED
          BY <2>2, <2>8, <4>1, <5>1
      <4>3. CASE j = c + 1
        BY <2>4, <2>5, <4>1, <4>3
      <4>4. CASE j > c + 1
        <5>1. j - 1 \in 1 .. m /\ i < j - 1 /\ q[j] = p[j - 1]
          BY <2>5, <3>1, <4>1, <4>4
        <5>2. QED
          BY <2>2, <4>1, <5>1
      <4>5. QED
        BY <4>2, <4>3, <4>4
    <3>2. CASE i = c + 1
      <4>1. q[i] = m + 1
        BY <2>5, <3>2
      <4>2. j > c + 1
        BY <2>8, <3>2
      <4>3. j - 1 \in c + 1 .. m /\ q[j] = p[j - 1]
        BY <2>5, <4>2
      <4>4. keys[m + 1] <= keys[p[j - 1]]
        BY <2>4, <4>3
      <4>5. QED
        BY <4>1, <4>3, <4>4
    <3>3. CASE i > c + 1
      <4>1. i - 1 \in 1 .. m /\ j - 1 \in 1 .. m /\ i - 1 < j - 1
            /\ q[i] = p[i - 1] /\ q[j] = p[j - 1]
        BY <2>5, <2>8, <3>3
      <4>2. QED
        BY <2>2, <4>1
    <3>4. QED
      BY <3>1, <3>2, <3>3
  <2>9. IsSorting(q, keys, m + 1)
    BY <2>6, <2>7, <2>8 DEF IsSorting
  <2>10. QED
    BY <2>9
<1> HIDE DEF Sortable
<1>3. Sortable(Len(keys))
  <2>1. 0 \in S
    BY <1>1
  <2>2. \A m \in Nat : m \in S => m + 1 \in S
    BY <1>2 DEF Sortable
  <2>3. Len(keys) \in Nat
    OBVIOUS
  <2>4. Len(keys) \in S
    <3> HIDE DEF S
    <3> QED BY <2>1, <2>2, <2>3, NatSetInduction
  <2>5. QED
    BY <2>4
<1>4. QED
  BY <1>3 DEF Sortable

(* SortingOrder is such a permutation.                                     *)
LEMMA SortingOrderSorts ==
  ASSUME NEW keys \in Seq(Nat)
  PROVE  IsSorting(SortingOrder(keys), keys, Len(keys))
<1>1. DOMAIN keys = 1 .. Len(keys)
  OBVIOUS
<1>2. PICK p : IsSorting(p, keys, Len(keys))
  BY SortingExists
<1>3. \E q \in [DOMAIN keys -> DOMAIN keys] :
        /\ IsInjective(q)
        /\ \A i, j \in DOMAIN keys : i < j => keys[q[i]] <= keys[q[j]]
  BY <1>1, <1>2 DEF IsSorting
<1> DEFINE q == SortingOrder(keys)
<1>4. /\ q \in [DOMAIN keys -> DOMAIN keys]
      /\ IsInjective(q)
      /\ \A i, j \in DOMAIN keys : i < j => keys[q[i]] <= keys[q[j]]
  BY <1>3 DEF SortingOrder
<1> HIDE DEF q
<1>5. IsSorting(q, keys, Len(keys))
  BY <1>1, <1>4 DEF IsSorting
<1>6. QED
  BY <1>5 DEF q

(* There is one way to put distinct keys in order.                         *)
LEMMA SortingOrderIs ==
  ASSUME NEW keys \in Seq(Nat), NEW q \in [1 .. Len(keys) -> 1 .. Len(keys)],
         \A i, j \in 1 .. Len(keys) : i < j => keys[q[i]] < keys[q[j]]
  PROVE  SortingOrder(keys) = q
<1> DEFINE n == Len(keys)
           p == SortingOrder(keys)
<1>1. n \in Nat /\ \A i \in 1 .. n : keys[i] \in Nat
  OBVIOUS
<1>2. /\ p \in [1 .. n -> 1 .. n]
      /\ \A i, j \in 1 .. n : p[i] = p[j] => i = j
      /\ \A i, j \in 1 .. n : i < j => keys[p[i]] <= keys[p[j]]
  <2>1. IsSorting(p, keys, n)
    BY SortingOrderSorts
  <2>2. p \in [1 .. n -> 1 .. n] /\ IsInjective(p)
        /\ \A i, j \in 1 .. n : i < j => keys[p[i]] <= keys[p[j]]
    <3> HIDE DEF p, n
    <3> QED BY <2>1 DEF IsSorting
  <2> HIDE DEF p, n
  <2>3. QED
    BY <2>2 DEF IsInjective
<1>3. /\ q \in [1 .. n -> 1 .. n]
      /\ \A i, j \in 1 .. n : i < j => keys[q[i]] < keys[q[j]]
  OBVIOUS
<1> HIDE DEF n, p
<1>4. \A y \in 1 .. n : \E x \in 1 .. n : q[x] = y
  <2>1. \A i, j \in 1 .. n : i # j => q[i] # q[j]
    <3> SUFFICES ASSUME NEW i \in 1 .. n, NEW j \in 1 .. n, i # j PROVE q[i] # q[j]
      OBVIOUS
    <3>1. i < j \/ j < i
      BY <1>1
    <3>2. keys[q[i]] \in Nat /\ keys[q[j]] \in Nat
      BY <1>1, <1>3
    <3>3. keys[q[i]] # keys[q[j]]
      BY <1>3, <3>1, <3>2
    <3>4. QED
      BY <3>3
  <2>2. q \in Injection(1 .. n, 1 .. n)
    BY <1>3, <2>1 DEF Injection, IsInjective
  <2>3. q \in Surjection(1 .. n, 1 .. n)
    <3>1. IsFiniteSet(1 .. n)
      BY <1>1, FS_Interval
    <3>2. QED
      BY <2>2, <3>1, FS_Injection
  <2>4. QED
    BY <2>3 DEF Surjection
<1> DEFINE h == [i \in 1 .. n |-> CHOOSE x \in 1 .. n : q[x] = p[i]]
<1>5. \A i \in 1 .. n : h[i] \in 1 .. n /\ q[h[i]] = p[i]
  BY <1>2, <1>4
<1>6. h \in [1 .. n -> 1 .. n]
  BY <1>5
<1> HIDE DEF h
<1>7. ASSUME NEW i \in 1 .. n, NEW j \in 1 .. n, i < j PROVE h[i] < h[j]
  <2>1. h[i] \in 1 .. n /\ h[j] \in 1 .. n /\ q[h[i]] = p[i] /\ q[h[j]] = p[j]
    BY <1>5
  <2>2. keys[p[i]] <= keys[p[j]] /\ p[i] # p[j]
    BY <1>1, <1>2, <1>7
  <2>3. h[i] # h[j]
    BY <2>1, <2>2
  <2>4. ~ (h[j] < h[i])
    <3> SUFFICES ASSUME h[j] < h[i] PROVE FALSE
      OBVIOUS
    <3>1. keys[p[j]] < keys[p[i]]
      BY <1>3, <2>1
    <3>2. keys[p[j]] \in Nat /\ keys[p[i]] \in Nat
      BY <1>1, <1>2
    <3>3. QED
      BY <2>2, <3>1, <3>2
  <2>5. QED
    BY <1>1, <2>1, <2>3, <2>4
<1>8. \A i \in 1 .. n : h[i] = i
  BY <1>1, <1>6, <1>7, IncreasingIsIdentity
<1>9. \A i \in 1 .. n : p[i] = q[i]
  BY <1>5, <1>8
<1>10. p = q
  <2>1. p = [i \in 1 .. n |-> p[i]] /\ q = [i \in 1 .. n |-> q[i]]
    BY <1>2, <1>3
  <2>2. [i \in 1 .. n |-> p[i]] = [i \in 1 .. n |-> q[i]]
    BY <1>9
  <2>3. QED
    BY <2>1, <2>2
<1>11. QED
  BY <1>10 DEF p

(* The number of tokens of the first k documents.                          *)
TokensUpto(docs, k) == MapThenSumSet(LAMBDA j : docs[j].tokens, 1 .. k)

(* It grows by the tokens of one document at a time.                       *)
LEMMA TokensUptoAdds ==
  ASSUME NEW docs \in Seq(Document)
  PROVE  /\ TokensUpto(docs, 0) = 0
         /\ \A k \in 0 .. Len(docs) : TokensUpto(docs, k) \in Nat
         /\ \A k \in 1 .. Len(docs) :
              TokensUpto(docs, k) = TokensUpto(docs, k - 1) + docs[k].tokens
<1> DEFINE n == Len(docs)
           w == [i \in 1 .. n |-> docs[i].tokens]
<1>1. n \in Nat /\ \A i \in 1 .. n : docs[i].tokens \in Nat
  <2>1. n \in Nat /\ \A i \in 1 .. n : docs[i] \in Document
    OBVIOUS
  <2>2. QED
    BY <2>1 DEF Document
<1>2. w \in [1 .. n -> Nat]
  BY <1>1
<1> HIDE DEF n
<1>3. PICK P : /\ IsTotal(P, n, w)
               /\ \A a, b \in 0 .. n : a <= b =>
                    /\ \E it : IsSum(it, a + 1 .. b, w)
                    /\ \A it : IsSum(it, a + 1 .. b, w) => it[a + 1 .. b] = P[b] - P[a]
  <2> HIDE DEF w
  <2> QED BY <1>1, <1>2, SumOfInterval
<1>4. ASSUME NEW k \in 0 .. n PROVE TokensUpto(docs, k) = P[k]
  <2> DEFINE Law(it) == it = [s \in SUBSET (1 .. k) |->
                               IF s = {} THEN 0
                               ELSE docs[CHOOSE x \in s : TRUE].tokens
                                      + it[s \ {CHOOSE x \in s : TRUE}]]
  <2>1. ASSUME NEW it PROVE Law(it) <=> IsSum(it, 1 .. k, w)
    <3>1. ASSUME NEW s \in SUBSET (1 .. k), s # {}
          PROVE  docs[CHOOSE x \in s : TRUE].tokens = w[Picked(s)]
      <4>1. Picked(s) \in s
        BY <3>1 DEF Picked
      <4>2. Picked(s) \in 1 .. n
        <5>1. \A x \in 1 .. k : x \in 1 .. n
          BY <1>1
        <5>2. QED
          BY <4>1, <5>1
      <4>3. QED
        BY <4>2 DEF Picked
    <3>2. \A s \in SUBSET (1 .. k) :
            (IF s = {} THEN 0 ELSE docs[CHOOSE x \in s : TRUE].tokens
                                      + it[s \ {CHOOSE x \in s : TRUE}])
            = (IF s = {} THEN 0 ELSE w[Picked(s)] + it[s \ {Picked(s)}])
      BY <3>1 DEF Picked
    <3>3. [s \in SUBSET (1 .. k) |->
             IF s = {} THEN 0 ELSE docs[CHOOSE x \in s : TRUE].tokens
                                      + it[s \ {CHOOSE x \in s : TRUE}]]
          = [s \in SUBSET (1 .. k) |-> IF s = {} THEN 0 ELSE w[Picked(s)] + it[s \ {Picked(s)}]]
      BY <3>2
    <3> HIDE DEF w
    <3>4. QED
      BY <3>3 DEF IsSum
  <2>2. TokensUpto(docs, k) = (CHOOSE it : Law(it))[1 .. k]
    BY DEF TokensUpto, MapThenSumSet, MapThenFoldSet
  <2>3. 0 \in 0 .. n /\ 0 <= k /\ 0 + 1 = 1
    BY <1>1
  <2>4. (\E it : IsSum(it, 1 .. k, w)) /\ \A it : IsSum(it, 1 .. k, w) => it[1 .. k] = P[k] - P[0]
    <3> HIDE DEF w
    <3> QED BY <1>3, <2>3
  <2>5. \E it : Law(it)
    <3> HIDE DEF Law, w
    <3> QED BY <2>1, <2>4
  <2> DEFINE it == CHOOSE it : Law(it)
  <2>6. Law(it)
    <3> HIDE DEF Law
    <3> QED BY <2>5
  <2> HIDE DEF it, Law, w
  <2>7. it[1 .. k] = P[k] - P[0]
    BY <2>1, <2>4, <2>6
  <2>8. P[0] = 0 /\ P[k] \in Nat
    BY <1>3 DEF IsTotal
  <2>9. QED
    BY <2>2, <2>7, <2>8 DEF it
<1>5. P[0] = 0 /\ (\A k \in 0 .. n : P[k] \in Nat) /\ \A k \in 1 .. n : P[k] = P[k - 1] + docs[k].tokens
  BY <1>3 DEF IsTotal
<1>6. 0 \in 0 .. n /\ \A k \in 1 .. n : k \in 0 .. n /\ k - 1 \in 0 .. n
  BY <1>1
<1>7. QED
  BY <1>4, <1>5, <1>6 DEF n

(* A token: a document and a position in it.                               *)
Token == Nat \X Nat

(* The token IDs of the first k documents, back to back.                   *)
IdsUpto(docs, k) == FlattenSeq([i \in 1 .. k |-> DocumentIds(docs, i)])

(* The token IDs of one document.                                          *)
LEMMA DocumentIdsType ==
  ASSUME NEW docs \in Seq(Document), NEW k \in 1 .. Len(docs)
  PROVE  DocumentIds(docs, k) \in Seq(Token) /\ Len(DocumentIds(docs, k)) = docs[k].tokens
         /\ docs[k].tokens \in Nat
<1>1. docs[k] \in Document /\ k \in Nat
  OBVIOUS
<1>2. docs[k].tokens \in Nat
  BY <1>1 DEF Document
<1> DEFINE m == docs[k].tokens
<1>3. [j \in 1 .. m |-> <<k, j>>] \in Seq(Token) /\ Len([j \in 1 .. m |-> <<k, j>>]) = m
  <2>1. \A j \in 1 .. m : <<k, j>> \in Token
    BY <1>1, <1>2 DEF Token
  <2> HIDE DEF m
  <2>2. m \in Nat
    BY <1>2 DEF m
  <2>3. QED
    BY <2>1, <2>2
<1>4. QED
  BY <1>2, <1>3 DEF DocumentIds

(* They grow by one document at a time.                                    *)
LEMMA IdsUptoAdds ==
  ASSUME NEW docs \in Seq(Document)
  PROVE  /\ IdsUpto(docs, 0) = <<>>
         /\ \A k \in 0 .. Len(docs) : /\ IdsUpto(docs, k) \in Seq(Token)
                                      /\ Len(IdsUpto(docs, k)) = TokensUpto(docs, k)
         /\ \A k \in 1 .. Len(docs) :
              IdsUpto(docs, k) = IdsUpto(docs, k - 1) \o DocumentIds(docs, k)
<1> DEFINE n == Len(docs)
           Step == [x \in Seq(Token) \X (1 .. n) |-> x[1] \o DocumentIds(docs, x[2])]
<1>1. n \in Nat /\ \A k \in 1 .. n : DocumentIds(docs, k) \in Seq(Token)
                                      /\ Len(DocumentIds(docs, k)) = docs[k].tokens
                                      /\ docs[k].tokens \in Nat
  BY DocumentIdsType
<1> HIDE DEF n
<1>2. Step \in [Seq(Token) \X (1 .. n) -> Seq(Token)]
  BY <1>1
<1>3. <<>> \in Seq(Token)
  OBVIOUS
<1>4. PICK f : IsRecursion(f, n, Seq(Token), <<>>, Step)
  <2> HIDE DEF Step
  <2> QED BY <1>1, <1>2, <1>3, RecursionExists
<1>5. /\ f \in [0 .. n -> Seq(Token)] /\ f[0] = <<>>
      /\ \A k \in 1 .. n : f[k] = Step[<<f[k - 1], k>>]
  BY <1>4 DEF IsRecursion
<1>6. ASSUME NEW k \in 1 .. n
      PROVE  f[k - 1] \in Seq(Token) /\ f[k] = f[k - 1] \o DocumentIds(docs, k)
  <2>1. k - 1 \in 0 .. n
    BY <1>1
  <2>2. QED
    BY <1>5, <2>1
<1> HIDE DEF Step
<1>7. ASSUME NEW k \in 0 .. n PROVE IdsUpto(docs, k) = f[k]
  <2> DEFINE s == [i \in 1 .. k |-> DocumentIds(docs, i)]
  <2>1. k \in Nat /\ \A i \in 1 .. k : i \in 1 .. n
    BY <1>1
  <2>2. s \in Seq(Seq(Token)) /\ Len(s) = k
    BY <1>1, <2>1
  <2>3. \A i \in 1 .. k : f[i] = f[i - 1] \o s[i]
    BY <1>6, <2>1
  <2> HIDE DEF s
  <2>4. FlattenSeq(s) = f[k]
    <3>1. FlattenSeq(s) = f[Len(s)]
      BY <1>5, <2>2, <2>3, FlattenIs
    <3>2. QED
      BY <2>2, <3>1
  <2>5. QED
    BY <2>4 DEF IdsUpto, s
<1>8. 0 \in 0 .. n /\ \A k \in 1 .. n : k \in 0 .. n /\ k - 1 \in 0 .. n
  BY <1>1
<1> DEFINE S == {k \in Nat : k <= n => Len(f[k]) = TokensUpto(docs, k)}
<1>9. \A k \in 0 .. n : Len(f[k]) = TokensUpto(docs, k)
  <2>0. /\ TokensUpto(docs, 0) = 0
        /\ \A k \in 0 .. n : TokensUpto(docs, k) \in Nat
        /\ \A k \in 1 .. n :
             TokensUpto(docs, k) = TokensUpto(docs, k - 1) + docs[k].tokens
    BY TokensUptoAdds DEF n
  <2>1. 0 \in S
    BY <1>5, <2>0
  <2>2. ASSUME NEW k \in Nat, k \in S PROVE k + 1 \in S
    <3> SUFFICES ASSUME k + 1 <= n PROVE Len(f[k + 1]) = TokensUpto(docs, k + 1)
      OBVIOUS
    <3>1. k + 1 \in 1 .. n /\ (k + 1) - 1 = k /\ k \in 0 .. n /\ k <= n
      BY <1>1
    <3>2. f[k] \in Seq(Token) /\ f[k + 1] = f[k] \o DocumentIds(docs, k + 1)
      BY <1>6, <3>1
    <3> DEFINE d == DocumentIds(docs, k + 1)
    <3>6. d \in Seq(Token) /\ Len(d) = docs[k + 1].tokens
      BY <1>1, <3>1
    <3> HIDE DEF d
    <3>7. Len(f[k] \o d) = Len(f[k]) + Len(d)
      <4> HIDE DEF S, Step, n
      <4>1. f[k] \in Seq(Token) /\ d \in Seq(Token)
        BY <3>2, <3>6
      <4>2. QED
        BY ONLY <4>1, ConcatProperties
    <3>3. Len(f[k + 1]) = Len(f[k]) + docs[k + 1].tokens
      BY <3>2, <3>6, <3>7 DEF d
    <3>4. Len(f[k]) = TokensUpto(docs, k)
      BY <2>2, <3>1
    <3>5. QED
      BY <2>0, <3>1, <3>3, <3>4
  <2> HIDE DEF S
  <2>3. Nat \subseteq S
    BY <2>1, <2>2, NatSetInduction
  <2>4. QED
    BY <1>1, <2>3 DEF S
<1>10. QED
  BY <1>5, <1>6, <1>7, <1>8, <1>9 DEF n

(* A batch in the flat output format.                                      *)
Batch == [ids : Seq(Token), offsets : Seq(Int)]

(* EncodeFlatSurfaceRange appends one document after the other.            *)
LEMMA EncodeRangeFolds ==
  ASSUME NEW docs \in Seq(Document), NEW range \in [start : Nat, end : Nat],
         range.start <= range.end, range.end <= Len(docs)
  PROVE  \E acc \in [0 .. range.end - range.start -> Batch] :
           /\ acc[0] = EmptyBatch
           /\ \A k \in 1 .. range.end - range.start :
                acc[k] = AppendDocument(acc[k - 1], DocumentIds(docs, range.start + k))
           /\ EncodeFlatSurfaceRange(docs, range) = acc[range.end - range.start]
<1> DEFINE m == range.end - range.start
           s == range.start
           seq == [k \in 1 .. m |-> s + k]
           Step == [x \in Batch \X (1 .. m) |-> AppendDocument(x[1], DocumentIds(docs, seq[x[2]]))]
<1>1. m \in Nat /\ s \in Nat /\ \A k \in 1 .. m : s + k \in 1 .. Len(docs)
  OBVIOUS
<1>2. ASSUME NEW batch \in Batch, NEW k \in 1 .. m
      PROVE  AppendDocument(batch, DocumentIds(docs, s + k)) \in Batch
  <2>1. DocumentIds(docs, s + k) \in Seq(Token)
    BY <1>1, DocumentIdsType
  <2>2. batch.ids \in Seq(Token) /\ batch.offsets \in Seq(Int)
    BY DEF Batch
  <2>3. batch.ids \o DocumentIds(docs, s + k) \in Seq(Token)
    BY <2>1, <2>2
  <2>4. Append(batch.offsets, Len(batch.ids) + Len(DocumentIds(docs, s + k))) \in Seq(Int)
    BY <2>1, <2>2
  <2>5. QED
    BY <2>3, <2>4 DEF AppendDocument, Batch
<1>3. EmptyBatch \in Batch
  BY DEF EmptyBatch, Batch
<1>4. Step \in [Batch \X (1 .. m) -> Batch]
  BY <1>2
<1> DEFINE Law(it) == it = [t \in SUBSET (1 .. m) |->
                             IF t = {} THEN EmptyBatch
                             ELSE AppendDocument(it[t \ {Max(t)}], DocumentIds(docs, seq[Max(t)]))]
<1>5. \E it : Law(it)
  <2>1. PICK it : IsFold(it, m, Batch, EmptyBatch, Step)
    <3> HIDE DEF m, Step
    <3> QED BY <1>1, <1>3, <1>4, FoldExists
  <2>2. it \in [SUBSET (1 .. m) -> Batch]
        /\ \A t \in SUBSET (1 .. m) :
             it[t] = IF t = {} THEN EmptyBatch ELSE Step[<<it[t \ {Max(t)}], Max(t)>>]
    <3> HIDE DEF m, Step
    <3> QED BY <2>1 DEF IsFold
  <2>3. ASSUME NEW t \in SUBSET (1 .. m), t # {}
        PROVE  Step[<<it[t \ {Max(t)}], Max(t)>>]
                 = AppendDocument(it[t \ {Max(t)}], DocumentIds(docs, seq[Max(t)]))
    <3>1. Max(t) \in 1 .. m
      <4> HIDE DEF m
      <4>1. Max(t) \in t
        BY <1>1, <2>3, MaxOfNaturals
      <4>2. QED
        BY <4>1
    <3>2. it[t \ {Max(t)}] \in Batch
      <4>1. t \ {Max(t)} \in SUBSET (1 .. m)
        OBVIOUS
      <4> HIDE DEF m, Step
      <4>2. QED
        BY <2>2, <4>1
    <3> HIDE DEF m
    <3>3. QED
      BY <3>1, <3>2
  <2> HIDE DEF m, Step, seq
  <2>4. it = [t \in SUBSET (1 .. m) |-> it[t]]
    BY <2>2
  <2>5. [t \in SUBSET (1 .. m) |-> it[t]]
        = [t \in SUBSET (1 .. m) |->
             IF t = {} THEN EmptyBatch
             ELSE AppendDocument(it[t \ {Max(t)}], DocumentIds(docs, seq[Max(t)]))]
    BY <2>2, <2>3
  <2>6. Law(it)
    BY <2>4, <2>5
  <2> HIDE DEF Law
  <2>7. QED
    BY <2>6
<1> DEFINE it == CHOOSE it : Law(it)
<1>6. Law(it)
  <2> HIDE DEF Law
  <2> QED BY <1>5
<1>7. EncodeFlatSurfaceRange(docs, range) = it[DOMAIN seq]
  BY DEF EncodeFlatSurfaceRange, FoldLeft, MapThenFoldSet
<1> HIDE DEF it
<1>8. \A t \in SUBSET (1 .. m) :
        it[t] = IF t = {} THEN EmptyBatch
                ELSE AppendDocument(it[t \ {Max(t)}], DocumentIds(docs, seq[Max(t)]))
  BY <1>6
<1> DEFINE acc == [k \in 0 .. m |-> it[1 .. k]]
<1>9. acc[0] = EmptyBatch
  <2>1. 1 .. 0 = {} /\ 0 \in 0 .. m /\ {} \in SUBSET (1 .. m)
    BY <1>1
  <2>2. QED
    BY <1>8, <2>1
<1>10. ASSUME NEW k \in 1 .. m
       PROVE  acc[k] = AppendDocument(acc[k - 1], DocumentIds(docs, s + k))
  <2>1. k - 1 \in Nat /\ (k - 1) + 1 = k /\ k \in 0 .. m /\ k - 1 \in 0 .. m
    BY <1>1
  <2>2. Max(1 .. k) = k /\ (1 .. k) \ {k} = 1 .. k - 1
    BY <2>1, MaxOfInterval
  <2>6. 1 .. k \in SUBSET (1 .. m) /\ 1 .. k # {}
    <3> HIDE DEF m
    <3>1. \A y \in 1 .. k : y \in 1 .. m
      BY <1>1
    <3>2. k \in 1 .. k
      BY <2>1
    <3>3. QED
      BY <3>1, <3>2
  <2>7. seq[k] = s + k
    OBVIOUS
  <2>3. 1 .. k \in SUBSET (1 .. m) /\ 1 .. k # {} /\ seq[k] = s + k
    BY <2>6, <2>7
  <2> HIDE DEF m, seq, s
  <2>4. it[1 .. k] = AppendDocument(it[1 .. k - 1], DocumentIds(docs, s + k))
    BY <1>8, <2>2, <2>3
  <2>5. QED
    BY <2>1, <2>4
<1> HIDE DEF acc
<1>11. acc \in [0 .. m -> Batch]
  <2> DEFINE S == {k \in Nat : k <= m => acc[k] \in Batch}
  <2>1. 0 \in S
    BY <1>3, <1>9
  <2>2. ASSUME NEW k \in Nat, k \in S PROVE k + 1 \in S
    <3> SUFFICES ASSUME k + 1 <= m PROVE acc[k + 1] \in Batch
      OBVIOUS
    <3>1. k + 1 \in 1 .. m /\ (k + 1) - 1 = k /\ k <= m
      BY <1>1
    <3>2. acc[k] \in Batch
      BY <2>2, <3>1
    <3> HIDE DEF m, s
    <3>3. QED
      BY <1>2, <1>10, <3>1, <3>2
  <2> HIDE DEF S
  <2>3. Nat \subseteq S
    BY <2>1, <2>2, NatSetInduction
  <2>4. \A k \in 0 .. m : acc[k] \in Batch
    BY <1>1, <2>3 DEF S
  <2> HIDE DEF m
  <2>5. QED
    BY <2>4 DEF acc
<1>12. EncodeFlatSurfaceRange(docs, range) = acc[m]
  <2>1. DOMAIN seq = 1 .. m /\ m \in 0 .. m
    BY <1>1
  <2>2. QED
    BY <1>7, <2>1 DEF acc
<1>13. QED
  BY <1>9, <1>10, <1>11, <1>12

(* The offsets of the documents of a range, counted from its start.        *)
OffsetsFrom(docs, s, m) ==
  [j \in 1 .. m + 1 |-> TokensUpto(docs, s + j - 1) - TokensUpto(docs, s)]

(* A range-local batch holds the token IDs of its documents, between those *)
(* of the documents before it and those after, and offsets of its own.     *)
LEMMA EncodeRangeIs ==
  ASSUME NEW docs \in Seq(Document), NEW range \in [start : Nat, end : Nat],
         range.start <= range.end, range.end <= Len(docs)
  PROVE  LET local == EncodeFlatSurfaceRange(docs, range)
         IN  /\ local.ids \in Seq(Token)
             /\ IdsUpto(docs, range.start) \o local.ids = IdsUpto(docs, range.end)
             /\ local.offsets = OffsetsFrom(docs, range.start, range.end - range.start)
<1> DEFINE m == range.end - range.start
           s == range.start
<1>1. m \in Nat /\ s \in Nat /\ s + m = range.end
  OBVIOUS
<1>2. PICK acc \in [0 .. m -> Batch] :
           /\ acc[0] = EmptyBatch
           /\ \A k \in 1 .. m :
                acc[k] = AppendDocument(acc[k - 1], DocumentIds(docs, s + k))
           /\ EncodeFlatSurfaceRange(docs, range) = acc[m]
  BY EncodeRangeFolds
<1>3. \A k \in 0 .. m : s + k \in 0 .. Len(docs)
  OBVIOUS
<1>4. \A k \in 1 .. m : s + k \in 1 .. Len(docs)
  OBVIOUS
<1> DEFINE Good(k) == /\ acc[k].ids \in Seq(Token)
                      /\ IdsUpto(docs, s) \o acc[k].ids = IdsUpto(docs, s + k)
                      /\ acc[k].offsets = OffsetsFrom(docs, s, k)
           S == {k \in Nat : k <= m => Good(k)}
<1> HIDE DEF m, s
<1>5. \A k \in 0 .. m : /\ IdsUpto(docs, s + k) \in Seq(Token)
                        /\ TokensUpto(docs, s + k) \in Nat
                        /\ Len(IdsUpto(docs, s + k)) = TokensUpto(docs, s + k)
  BY <1>3, IdsUptoAdds, TokensUptoAdds
<1>6. IdsUpto(docs, s) \in Seq(Token) /\ TokensUpto(docs, s) \in Nat
      /\ Len(IdsUpto(docs, s)) = TokensUpto(docs, s)
  <2>1. 0 \in 0 .. m /\ s + 0 = s
    BY <1>1
  <2>2. QED
    BY <1>5, <2>1
<1>7. 0 \in S
  <2>1. acc[0].ids = <<>> /\ acc[0].offsets = <<0>>
    BY <1>2 DEF EmptyBatch
  <2>2. IdsUpto(docs, s) \o <<>> = IdsUpto(docs, s) /\ s + 0 = s
    BY <1>1, <1>6
  <2>3. OffsetsFrom(docs, s, 0) = <<0>>
    <3>1. OffsetsFrom(docs, s, 0) = [j \in 1 .. 1 |-> TokensUpto(docs, s + j - 1) - TokensUpto(docs, s)]
      BY DEF OffsetsFrom
    <3>2. \A j \in 1 .. 1 : TokensUpto(docs, s + j - 1) - TokensUpto(docs, s) = 0
      <4>1. \A j \in 1 .. 1 : s + j - 1 = s
        BY <1>1
      <4>2. QED
        BY <1>6, <4>1
    <3>3. [j \in 1 .. 1 |-> 0] = <<0>>
      OBVIOUS
    <3>4. QED
      BY <3>1, <3>2, <3>3
  <2>4. Good(0)
    <3>1. <<>> \in Seq(Token)
      OBVIOUS
    <3>2. QED
      BY <2>1, <2>2, <2>3, <3>1
  <2> HIDE DEF Good
  <2>5. QED
    BY <2>4
<1>8. ASSUME NEW k \in Nat, k \in S PROVE k + 1 \in S
  <2> SUFFICES ASSUME k + 1 <= m PROVE Good(k + 1)
    BY DEF S
  <2>1. k + 1 \in 1 .. m /\ (k + 1) - 1 = k /\ k \in 0 .. m /\ k + 1 \in 0 .. m
        /\ s + (k + 1) - 1 = s + k /\ s + (k + 1) \in 1 .. Len(docs) /\ s + k \in Nat
    BY <1>1, <1>4
  <2>2. Good(k)
    BY <1>8, <2>1
  <2> DEFINE d == DocumentIds(docs, s + (k + 1))
             old == acc[k]
             t == TokensUpto(docs, s + k)
             base == TokensUpto(docs, s)
  <2>3. d \in Seq(Token) /\ Len(d) = docs[s + (k + 1)].tokens /\ docs[s + (k + 1)].tokens \in Nat
    BY <2>1, DocumentIdsType
  <2>4. acc[k + 1] = AppendDocument(old, d)
    BY <1>2, <2>1
  <2> DEFINE q == s + (k + 1)
             w == docs[q].tokens
             before == IdsUpto(docs, s)
             upto == IdsUpto(docs, s + k)
             ids == old.ids
  <2>4a. q \in 1 .. Len(docs) /\ q - 1 = s + k
    BY <1>1, <2>1
  <2>5. IdsUpto(docs, q) = upto \o d /\ TokensUpto(docs, q) = t + w
    <3> HIDE DEF q
    <3>1. IdsUpto(docs, q) = IdsUpto(docs, q - 1) \o DocumentIds(docs, q)
      BY <2>4a, IdsUptoAdds
    <3>2. TokensUpto(docs, q) = TokensUpto(docs, q - 1) + docs[q].tokens
      BY <2>4a, TokensUptoAdds
    <3>3. QED
      BY <2>4a, <3>1, <3>2 DEF q
  <2>6. ids \in Seq(Token) /\ before \o ids = upto /\ old.offsets = OffsetsFrom(docs, s, k)
    BY <2>2
  <2>7. t \in Nat /\ Len(upto) = t /\ base \in Nat /\ Len(before) = base /\ w \in Nat
        /\ before \in Seq(Token)
    BY <1>5, <1>6, <2>1, <2>3
  <2>7a. d \in Seq(Token) /\ Len(d) = w
    BY <2>3
  <2> HIDE DEF d, q, w, before, upto, ids, t, base, old, Good, S
  <2>8. Len(ids) = t - base
    <3>1. Len(before \o ids) = Len(before) + Len(ids)
      BY ONLY <2>6, <2>7, ConcatProperties
    <3>2. Len(ids) \in Nat
      BY <2>6
    <3>3. Len(upto) = Len(before) + Len(ids)
      BY ONLY <2>6, <3>1, Zenon
    <3>4. t = base + Len(ids)
      BY ONLY <2>7, <3>3
    <3>5. QED
      BY ONLY <2>7, <3>2, <3>4
  <2>9. acc[k + 1].ids = ids \o d /\ acc[k + 1].offsets = Append(old.offsets, Len(ids) + Len(d))
    BY <2>4 DEF AppendDocument, ids
  <2>10. ids \o d \in Seq(Token) /\ before \o (ids \o d) = IdsUpto(docs, q)
    <3>0. before \in Seq(Token) /\ ids \in Seq(Token) /\ d \in Seq(Token)
      BY <2>6, <2>7, <2>7a
    <3>1. (before \o ids) \o d = before \o (ids \o d)
      <4>1. \A x, y, z \in Seq(Token) : (x \o y) \o z = x \o (y \o z)
        BY ONLY ConcatAssociative
      <4>2. QED
        BY ONLY <3>0, <4>1, Zenon
    <3>2. ids \o d \in Seq(Token)
      BY <2>6, <2>7a
    <3>3. QED
      BY <2>5, <2>6, <3>1, <3>2
  <2>11. Append(old.offsets, Len(ids) + Len(d)) = OffsetsFrom(docs, s, k + 1)
    <3> DEFINE F == OffsetsFrom(docs, s, k + 1)
    <3>1. F \in [1 .. (k + 1) + 1 -> Int]
      <4>1. \A j \in 1 .. (k + 1) + 1 : TokensUpto(docs, s + j - 1) \in Nat
        <5>1. \A j \in 1 .. (k + 1) + 1 : j - 1 \in 0 .. m /\ s + (j - 1) = s + j - 1
          BY <1>1, <2>1
        <5>2. QED
          BY <1>5, <5>1
      <4>2. QED
        BY <1>6, <4>1 DEF OffsetsFrom
    <3>2. old.offsets \in Seq(Int) /\ Len(old.offsets) = k + 1
          /\ \A j \in 1 .. k + 1 : old.offsets[j] = F[j]
      <4>1. \A j \in 1 .. k + 1 : TokensUpto(docs, s + j - 1) - TokensUpto(docs, s) \in Int
        <5>1. \A j \in 1 .. k + 1 : j - 1 \in 0 .. m /\ s + (j - 1) = s + j - 1
          BY <1>1, <2>1
        <5>2. QED
          BY <1>5, <1>6, <5>1
      <4>2. OffsetsFrom(docs, s, k) \in Seq(Int) /\ Len(OffsetsFrom(docs, s, k)) = k + 1
        BY <4>1 DEF OffsetsFrom
      <4>3. \A j \in 1 .. k + 1 : j \in 1 .. (k + 1) + 1
        OBVIOUS
      <4>4. \A j \in 1 .. k + 1 : OffsetsFrom(docs, s, k)[j] = F[j]
        BY <4>3 DEF OffsetsFrom
      <4>5. QED
        BY <2>6, <4>2, <4>4
    <3>3. F[(k + 1) + 1] = Len(ids) + Len(d)
      <4>1. F[(k + 1) + 1] = TokensUpto(docs, s + ((k + 1) + 1) - 1) - base
        <5>1. (k + 1) + 1 \in 1 .. (k + 1) + 1
          OBVIOUS
        <5>2. QED
          BY <5>1 DEF OffsetsFrom, base
      <4>2. s + ((k + 1) + 1) - 1 = q
        BY <1>1 DEF q
      <4>3. F[(k + 1) + 1] = TokensUpto(docs, q) - base
        BY <4>1, <4>2
      <4> HIDE DEF F
      <4>4. F[(k + 1) + 1] = (t + w) - base
        BY <2>5, <4>3
      <4>5. QED
        BY <2>7, <2>7a, <2>8, <4>4
    <3> HIDE DEF F
    <3>4. k + 1 \in Nat
      OBVIOUS
    <3>5. Append(old.offsets, F[(k + 1) + 1]) = F
      BY ONLY <3>1, <3>2, <3>4, AppendIs
    <3>6. QED
      BY <3>3, <3>5 DEF F
  <2>12. QED
    BY <2>9, <2>10, <2>11 DEF Good, before, q
<1> HIDE DEF Good
<1>9. m \in S
  <2> HIDE DEF S
  <2>1. Nat \subseteq S
    BY <1>7, <1>8, NatSetInduction
  <2>2. QED
    BY <1>1, <2>1
<1>10. Good(m)
  BY <1>1, <1>9
<1>11. QED
  BY <1>1, <1>2, <1>10 DEF Good, m, s

(* The batch of the first e documents.                                     *)
BatchUpto(docs, e) == [ids |-> IdsUpto(docs, e), offsets |-> OffsetsFrom(docs, 0, e)]

(* Offsets are numbers, one more of them than documents.                   *)
LEMMA OffsetsType ==
  ASSUME NEW docs \in Seq(Document), NEW s \in 0 .. Len(docs), NEW m \in 0 .. Len(docs) - s
  PROVE  OffsetsFrom(docs, s, m) \in Seq(Int) /\ Len(OffsetsFrom(docs, s, m)) = m + 1
<1>1. \A j \in 1 .. m + 1 : s + j - 1 \in 0 .. Len(docs)
  OBVIOUS
<1>2. \A k \in 0 .. Len(docs) : TokensUpto(docs, k) \in Nat
  BY TokensUptoAdds
<1>3. \A j \in 1 .. m + 1 : TokensUpto(docs, s + j - 1) - TokensUpto(docs, s) \in Int
  BY <1>1, <1>2
<1>4. m + 1 \in Nat
  OBVIOUS
<1>5. QED
  BY <1>3, <1>4 DEF OffsetsFrom

(* The batch of the first documents is a batch.                            *)
LEMMA BatchUptoType ==
  ASSUME NEW docs \in Seq(Document), NEW e \in 0 .. Len(docs)
  PROVE  BatchUpto(docs, e) \in Batch
<1>1. IdsUpto(docs, e) \in Seq(Token)
  BY IdsUptoAdds
<1>2. OffsetsFrom(docs, 0, e) \in Seq(Int)
  <2>1. 0 \in 0 .. Len(docs) /\ e \in 0 .. Len(docs) - 0
    OBVIOUS
  <2>2. QED
    BY <2>1, OffsetsType
<1>3. QED
  BY <1>1, <1>2 DEF BatchUpto, Batch

(* The batch of no documents is the empty batch.                           *)
LEMMA NoDocuments ==
  ASSUME NEW docs \in Seq(Document)
  PROVE  BatchUpto(docs, 0) = EmptyBatch
<1>1. IdsUpto(docs, 0) = <<>> /\ TokensUpto(docs, 0) = 0
  BY IdsUptoAdds, TokensUptoAdds
<1>2. OffsetsFrom(docs, 0, 0) = [j \in 1 .. 1 |-> TokensUpto(docs, 0 + j - 1) - TokensUpto(docs, 0)]
  BY DEF OffsetsFrom
<1>3. \A j \in 1 .. 1 : TokensUpto(docs, 0 + j - 1) - TokensUpto(docs, 0) = 0
  <2>1. \A j \in 1 .. 1 : 0 + j - 1 = 0
    OBVIOUS
  <2>2. QED
    BY <1>1, <2>1
<1>4. [j \in 1 .. 1 |-> 0] = <<0>>
  OBVIOUS
<1>5. QED
  BY <1>1, <1>2, <1>3, <1>4 DEF BatchUpto, EmptyBatch

(* A range-local batch, rebased behind the batch of the documents before   *)
(* its range, gives the batch of the documents up to the end of its range. *)
LEMMA RebasedChunk ==
  ASSUME NEW docs \in Seq(Document), NEW a \in 0 .. Len(docs), NEW b \in a .. Len(docs)
  PROVE  LET local == EncodeFlatSurfaceRange(docs, [start |-> a, end |-> b])
             out == BatchUpto(docs, a)
         IN  /\ [ids     |-> out.ids \o local.ids,
                 offsets |-> out.offsets \o [j \in 1 .. (Len(local.offsets) - 1) |->
                                               Len(out.ids) + local.offsets[j + 1]]]
                = BatchUpto(docs, b)
             /\ local.ids \in Seq(Token)
             /\ local.offsets \in Seq(Int)
             /\ Len(local.offsets) = b - a + 1
<1> DEFINE range == [start |-> a, end |-> b]
           local == EncodeFlatSurfaceRange(docs, range)
           out == BatchUpto(docs, a)
           m == b - a
<1>1. /\ a \in Nat /\ b \in Nat /\ m \in Nat /\ a + m = b /\ b \in 0 .. Len(docs)
      /\ m \in 0 .. Len(docs) - a
  OBVIOUS
<1>2. /\ local.ids \in Seq(Token)
      /\ IdsUpto(docs, a) \o local.ids = IdsUpto(docs, b)
      /\ local.offsets = OffsetsFrom(docs, a, m)
  <2>1. range \in [start : Nat, end : Nat] /\ range.start <= range.end /\ range.end <= Len(docs)
    BY <1>1
  <2>2. range.start = a /\ range.end = b
    OBVIOUS
  <2> HIDE DEF range
  <2>3. /\ local.ids \in Seq(Token)
        /\ IdsUpto(docs, range.start) \o local.ids = IdsUpto(docs, range.end)
        /\ local.offsets = OffsetsFrom(docs, range.start, range.end - range.start)
    BY <2>1, EncodeRangeIs
  <2>4. QED
    BY <2>2, <2>3
<1> HIDE DEF local
<1>3. local.offsets \in Seq(Int) /\ Len(local.offsets) = m + 1
  BY <1>1, <1>2, OffsetsType
<1>4. /\ TokensUpto(docs, 0) = 0
      /\ \A k \in 0 .. Len(docs) : TokensUpto(docs, k) \in Nat
      /\ Len(IdsUpto(docs, a)) = TokensUpto(docs, a)
  BY TokensUptoAdds, IdsUptoAdds
<1> HIDE DEF range, m
<1> DEFINE base == TokensUpto(docs, a)
           rest == [j \in 1 .. (Len(local.offsets) - 1) |-> Len(out.ids) + local.offsets[j + 1]]
           before == OffsetsFrom(docs, 0, a)
           upto == OffsetsFrom(docs, 0, b)
<1>5. rest = [j \in 1 .. m |-> TokensUpto(docs, a + j)]
  <2>1. Len(local.offsets) - 1 = m
    BY <1>1, <1>3
  <2>2. Len(out.ids) = base /\ base \in Nat
    BY <1>4 DEF BatchUpto
  <2>3. ASSUME NEW j \in 1 .. m PROVE base + local.offsets[j + 1] = TokensUpto(docs, a + j)
    <3>1. j + 1 \in 1 .. m + 1 /\ a + (j + 1) - 1 = a + j /\ a + j \in 0 .. Len(docs)
      BY <1>1
    <3>2. local.offsets[j + 1] = TokensUpto(docs, a + (j + 1) - 1) - base
      BY <1>2, <3>1 DEF OffsetsFrom
    <3>3. local.offsets[j + 1] = TokensUpto(docs, a + j) - base /\ TokensUpto(docs, a + j) \in Nat
      BY <1>4, <3>1, <3>2
    <3> HIDE DEF base
    <3>4. QED
      BY <2>2, <3>3
  <2> HIDE DEF base, out
  <2>4. [j \in 1 .. m |-> base + local.offsets[j + 1]] = [j \in 1 .. m |-> TokensUpto(docs, a + j)]
    BY <2>3
  <2>5. QED
    BY <2>1, <2>2, <2>4
<1> HIDE DEF rest
<1>6. \A j \in 1 .. m : a + j \in 0 .. Len(docs) /\ TokensUpto(docs, a + j) \in Nat
  BY <1>1, <1>4
<1>7. rest \in Seq(Int) /\ Len(rest) = m /\ \A j \in 1 .. m : rest[j] = TokensUpto(docs, a + j)
  BY <1>1, <1>5, <1>6
<1>8. /\ before \in Seq(Int) /\ Len(before) = a + 1
      /\ \A j \in 1 .. a + 1 : before[j] = TokensUpto(docs, j - 1)
  <2>1. 0 \in 0 .. Len(docs) /\ a \in 0 .. Len(docs) - 0
    BY <1>1
  <2>2. before \in Seq(Int) /\ Len(before) = a + 1
    BY <2>1, OffsetsType
  <2>3. \A j \in 1 .. a + 1 : j - 1 \in 0 .. Len(docs) /\ 0 + j - 1 = j - 1
    BY <1>1
  <2>4. \A j \in 1 .. a + 1 : TokensUpto(docs, j - 1) - 0 = TokensUpto(docs, j - 1)
    BY <1>4, <2>3
  <2>5. \A j \in 1 .. a + 1 : before[j] = TokensUpto(docs, 0 + j - 1) - TokensUpto(docs, 0)
    BY DEF OffsetsFrom
  <2>6. QED
    BY <1>4, <2>2, <2>3, <2>4, <2>5
<1>9. /\ upto \in Seq(Int) /\ Len(upto) = b + 1
      /\ \A j \in 1 .. b + 1 : upto[j] = TokensUpto(docs, j - 1)
  <2>1. 0 \in 0 .. Len(docs) /\ b \in 0 .. Len(docs) - 0
    BY <1>1
  <2>2. upto \in Seq(Int) /\ Len(upto) = b + 1
    BY <2>1, OffsetsType
  <2>3. \A j \in 1 .. b + 1 : j - 1 \in 0 .. Len(docs) /\ 0 + j - 1 = j - 1
    BY <1>1
  <2>4. \A j \in 1 .. b + 1 : TokensUpto(docs, j - 1) - 0 = TokensUpto(docs, j - 1)
    BY <1>4, <2>3
  <2>5. \A j \in 1 .. b + 1 : upto[j] = TokensUpto(docs, 0 + j - 1) - TokensUpto(docs, 0)
    BY DEF OffsetsFrom
  <2>6. QED
    BY <1>4, <2>2, <2>3, <2>4, <2>5
<1> HIDE DEF before, upto
<1>10. before \o rest = upto
  <2> DEFINE both == before \o rest
  <2>1. /\ both \in Seq(Int) /\ Len(both) = (a + 1) + m
        /\ \A i \in 1 .. (a + 1) + m : both[i] = IF i <= a + 1 THEN before[i] ELSE rest[i - (a + 1)]
    <3>1. before \in Seq(Int) /\ rest \in Seq(Int) /\ Len(before) = a + 1 /\ Len(rest) = m
      BY <1>7, <1>8
    <3>2. /\ both \in Seq(Int) /\ Len(both) = Len(before) + Len(rest)
          /\ \A i \in 1 .. Len(before) + Len(rest) :
               both[i] = IF i <= Len(before) THEN before[i] ELSE rest[i - Len(before)]
      BY ONLY <3>1, ConcatProperties
    <3> HIDE DEF both
    <3>3. QED
      BY ONLY <3>1, <3>2
  <2> HIDE DEF both
  <2>2. (a + 1) + m = b + 1
    BY <1>1
  <2>3. ASSUME NEW i \in 1 .. b + 1 PROVE both[i] = upto[i]
    <3>1. CASE i <= a + 1
      <4>1. i \in 1 .. a + 1 /\ i \in 1 .. (a + 1) + m
        BY <1>1, <2>2, <3>1
      <4>2. QED
        BY <1>8, <1>9, <2>1, <3>1, <4>1
    <3>2. CASE ~ (i <= a + 1)
      <4>1. i - (a + 1) \in 1 .. m /\ a + (i - (a + 1)) = i - 1 /\ i \in 1 .. (a + 1) + m
        BY <1>1, <2>2, <3>2
      <4>2. rest[i - (a + 1)] = TokensUpto(docs, i - 1)
        BY <1>7, <4>1
      <4>3. QED
        BY <1>9, <2>1, <3>2, <4>1, <4>2
    <3>3. QED
      BY <3>1, <3>2
  <2>4. Len(both) = Len(upto) /\ \A i \in 1 .. Len(both) : both[i] = upto[i]
    BY <1>9, <2>1, <2>2, <2>3
  <2>5. both = upto
    BY ONLY <1>9, <2>1, <2>4, SeqEqual
  <2>6. QED
    BY <2>5 DEF both
<1>11. out.ids = IdsUpto(docs, a) /\ out.offsets = before
  BY DEF BatchUpto, before
<1>12. QED
  BY <1>2, <1>3, <1>10, <1>11 DEF BatchUpto, upto, rest, local, range, m

(* Contiguous chunks that start with the first document, put in order,     *)
(* become the batch of all the documents before the last boundary.         *)
LEMMA ConcatenateSurfaceIs ==
  ASSUME NEW docs \in Seq(Document), NEW n \in Nat, NEW b \in [0 .. n -> 0 .. Len(docs)],
         b[0] = 0, \A k \in 1 .. n : b[k - 1] <= b[k],
         NEW chunks, NEW cs, InOrder(chunks) = cs, DOMAIN cs = 1 .. n,
         \A k \in 1 .. n : cs[k].value
                             = EncodeFlatSurfaceRange(docs, [start |-> b[k - 1], end |-> b[k]])
  PROVE  ConcatenateSurfaceChunks(chunks) = BatchUpto(docs, b[n])
<1> DEFINE Add(out, value) ==
             [ids     |-> out.ids \o value.ids,
              offsets |-> out.offsets \o [j \in 1 .. (Len(value.offsets) - 1) |->
                                            Len(out.ids) + value.offsets[j + 1]]]
           Step == [x \in Batch \X (1 .. n) |-> Add(x[1], cs[x[2]].value)]
           f == [k \in 0 .. n |-> BatchUpto(docs, b[k])]
<1>0. ASSUME NEW k \in 1 .. n
      PROVE  k \in 0 .. n /\ k - 1 \in 0 .. n /\ b[k] \in 0 .. Len(docs)
             /\ b[k - 1] \in 0 .. Len(docs) /\ b[k] \in b[k - 1] .. Len(docs)
  OBVIOUS
<1>1. ASSUME NEW k \in 1 .. n
      PROVE  /\ Add(f[k - 1], cs[k].value) = f[k]
             /\ cs[k].value.ids \in Seq(Token)
             /\ cs[k].value.offsets \in Seq(Int)
             /\ Len(cs[k].value.offsets) - 1 \in Nat
  <2> DEFINE lo == b[k - 1]
             hi == b[k]
             value == EncodeFlatSurfaceRange(docs, [start |-> lo, end |-> hi])
  <2>1. lo \in 0 .. Len(docs) /\ hi \in lo .. Len(docs)
    BY <1>0
  <2>2. cs[k].value = value
    OBVIOUS
  <2> HIDE DEF lo, hi
  <2>3. /\ Add(BatchUpto(docs, lo), value) = BatchUpto(docs, hi)
        /\ value.ids \in Seq(Token)
        /\ value.offsets \in Seq(Int)
        /\ Len(value.offsets) = hi - lo + 1
    BY ONLY <2>1, docs \in Seq(Document), RebasedChunk
  <2>4. Len(value.offsets) - 1 \in Nat
    <3> HIDE DEF value
    <3> QED BY <2>1, <2>3
  <2>5. f[k - 1] = BatchUpto(docs, lo) /\ f[k] = BatchUpto(docs, hi)
    BY <1>0 DEF lo, hi
  <2> HIDE DEF value, Add, f
  <2>6. QED
    BY <2>2, <2>3, <2>4, <2>5
<1>2. \A k \in 0 .. n : f[k] \in Batch
  BY BatchUptoType
<1>3. f[0] = EmptyBatch /\ 0 \in 0 .. n
  <2>1. 0 \in 0 .. n
    OBVIOUS
  <2>2. QED
    BY <2>1, NoDocuments
<1>4. Step \in [Batch \X (1 .. n) -> Batch]
  <2>1. ASSUME NEW out \in Batch, NEW k \in 1 .. n PROVE Add(out, cs[k].value) \in Batch
    <3> DEFINE value == cs[k].value
    <3>1. out.ids \in Seq(Token) /\ out.offsets \in Seq(Int)
      BY DEF Batch
    <3>2. /\ value.ids \in Seq(Token) /\ value.offsets \in Seq(Int)
          /\ Len(value.offsets) - 1 \in Nat
      BY <1>1
    <3> HIDE DEF value
    <3> DEFINE rest == [j \in 1 .. (Len(value.offsets) - 1) |-> Len(out.ids) + value.offsets[j + 1]]
    <3>3. rest \in Seq(Int)
      <4>1. \A j \in 1 .. (Len(value.offsets) - 1) : Len(out.ids) + value.offsets[j + 1] \in Int
        <5>1. Len(out.ids) \in Nat
          BY <3>1
        <5>2. \A j \in 1 .. (Len(value.offsets) - 1) : value.offsets[j + 1] \in Int
          BY <3>2
        <5>3. QED
          BY <5>1, <5>2
      <4>2. QED
        BY <3>2, <4>1
    <3> HIDE DEF rest
    <3>4. out.ids \o value.ids \in Seq(Token) /\ out.offsets \o rest \in Seq(Int)
      BY <3>1, <3>2, <3>3
    <3>5. QED
      BY <3>4 DEF Batch, value, rest
  <2> HIDE DEF Add
  <2>2. QED
    BY <2>1
<1>5. EmptyBatch \in Batch
  BY DEF EmptyBatch, Batch
<1> DEFINE Law(it) == it = [t \in SUBSET (1 .. n) |->
                             IF t = {} THEN EmptyBatch
                             ELSE Add(it[t \ {Max(t)}], cs[Max(t)].value)]
<1>6. \E it : Law(it)
  <2> HIDE DEF Add
  <2>1. PICK it \in [SUBSET (1 .. n) -> Batch] :
          /\ it = [t \in SUBSET (1 .. n) |->
                    IF t = {} THEN EmptyBatch ELSE Step[<<it[t \ {Max(t)}], Max(t)>>]]
          /\ \A t \in SUBSET (1 .. n) : t # {} => it[t \ {Max(t)}] \in Batch /\ Max(t) \in 1 .. n
    <3> HIDE DEF Step
    <3> QED BY <1>4, <1>5, FoldLaw
  <2>2. \A t \in SUBSET (1 .. n) :
          t # {} => Step[<<it[t \ {Max(t)}], Max(t)>>] = Add(it[t \ {Max(t)}], cs[Max(t)].value)
    BY <2>1
  <2> HIDE DEF Step
  <2>3. Law(it)
    BY <2>1, <2>2
  <2>4. QED
    BY <2>3
<1> DEFINE it == CHOOSE it : Law(it)
<1>7. Law(it)
  <2> HIDE DEF Law
  <2> QED BY <1>6
<1>8. ConcatenateSurfaceChunks(chunks) = it[1 .. n]
  BY DEF ConcatenateSurfaceChunks, FoldLeft, MapThenFoldSet
<1> HIDE DEF it, Add
<1>9. /\ it[{}] = EmptyBatch
      /\ \A t \in SUBSET (1 .. n) :
           t # {} => it[t] = Add(it[t \ {Max(t)}], cs[Max(t)].value)
  BY <1>7
<1>10. it[1 .. n] = f[n]
  <2>1. ASSUME NEW k \in 1 .. n, Max(1 .. k) = k, (1 .. k) \ {k} = 1 .. k - 1,
               1 .. k \in SUBSET (1 .. n), 1 .. k # {}, it[1 .. k - 1] = f[k - 1]
        PROVE  it[1 .. k] = f[k]
    <3> HIDE DEF f, Law, Step
    <3>1. it[1 .. k] = Add(it[(1 .. k) \ {Max(1 .. k)}], cs[Max(1 .. k)].value)
      BY <1>9, <2>1
    <3>2. it[1 .. k] = Add(f[k - 1], cs[k].value)
      BY <2>1, <3>1
    <3>3. QED
      BY <1>1, <3>2
  <2>2. it[{}] = f[0]
    BY <1>3, <1>9
  <2> HIDE DEF f, Law, Step
  <2>3. InStep(it, f, n)
    BY <2>1 DEF InStep
  <2>4. QED
    BY ONLY <2>3, <2>2, n \in Nat, FoldEnds
<1>11. f[n] = BatchUpto(docs, b[n])
  OBVIOUS
<1>12. QED
  BY <1>8, <1>10, <1>11

(* What a caller is promised of the first e documents.                     *)
LEMMA OrderedEncodingIs ==
  ASSUME NEW docs \in Seq(Document), NEW e \in 0 .. Len(docs)
  PROVE  OrderedEncoding(SubSeq(docs, 1, e)) = BatchUpto(docs, e)
<1> DEFINE few == SubSeq(docs, 1, e)
<1>1. /\ few \in Seq(Document) /\ Len(few) = e /\ \A i \in 1 .. e : few[i] = docs[i]
      /\ DOMAIN few = 1 .. e
  <2>1. \A i \in 1 .. e : docs[i] \in Document
    OBVIOUS
  <2>2. e = 0 \/ 1 <= e
    OBVIOUS
  <2>3. few \in Seq(Document) /\ Len(few) = (IF 1 <= e THEN e - 1 + 1 ELSE 0)
        /\ \A i \in 1 .. e - 1 + 1 : few[i] = docs[1 + i - 1]
    BY <2>1, SubSeqProperties
  <2> HIDE DEF few
  <2>4. Len(few) = e /\ e - 1 + 1 = e
    BY <2>2, <2>3
  <2>5. \A i \in 1 .. e : 1 + i - 1 = i
    OBVIOUS
  <2>6. QED
    BY <2>3, <2>4, <2>5
<1> HIDE DEF few
<1>2. OrderedEncoding(few).ids = IdsUpto(docs, e)
  <2>1. \A i \in 1 .. e : DocumentIds(few, i) = DocumentIds(docs, i)
    BY <1>1 DEF DocumentIds
  <2>2. [i \in DOMAIN few |-> DocumentIds(few, i)] = [i \in 1 .. e |-> DocumentIds(docs, i)]
    BY <1>1, <2>1
  <2>3. QED
    BY <2>2 DEF OrderedEncoding, IdsUpto
<1>3. OrderedEncoding(few).offsets = OffsetsFrom(docs, 0, e)
  <2>1. OrderedEncoding(few).offsets = [j \in 1 .. e + 1 |-> TokensUpto(few, j - 1)]
    BY <1>1 DEF OrderedEncoding, TokensUpto
  <2>2. \A k \in 0 .. e : TokensUpto(few, k) = TokensUpto(docs, k) /\ TokensUpto(docs, k) \in Nat
    <3> DEFINE f == [k \in 0 .. e |-> TokensUpto(few, k)]
               g == [k \in 0 .. e |-> TokensUpto(docs, k)]
    <3>1. f[0] = g[0]
      <4>1. 0 \in 0 .. e
        OBVIOUS
      <4>2. QED
        BY <1>1, <4>1, TokensUptoAdds
    <3>2. ASSUME NEW k \in 1 .. e, f[k - 1] = g[k - 1] PROVE f[k] = g[k]
      <4>1. k \in 0 .. e /\ k - 1 \in 0 .. e /\ k \in 1 .. Len(docs)
        OBVIOUS
      <4>2. TokensUpto(few, k) = TokensUpto(few, k - 1) + few[k].tokens
        BY <1>1, TokensUptoAdds
      <4>3. TokensUpto(docs, k) = TokensUpto(docs, k - 1) + docs[k].tokens
        BY <4>1, TokensUptoAdds
      <4>4. TokensUpto(few, k - 1) = TokensUpto(docs, k - 1)
        BY <3>2, <4>1
      <4>5. few[k] = docs[k]
        BY <1>1
      <4>6. QED
        BY <4>1, <4>2, <4>3, <4>4, <4>5
    <3> HIDE DEF f, g
    <3>3. e \in Nat
      OBVIOUS
    <3>4. \A k \in 0 .. e : f[k] = g[k]
      <4>1. SameSteps(f, g, e)
        BY <3>1, <3>2 DEF SameSteps
      <4>2. QED
        BY <3>3, <4>1, SameRecursion
    <3>5. \A k \in 0 .. e : TokensUpto(docs, k) \in Nat
      <4>1. \A k \in 0 .. e : k \in 0 .. Len(docs)
        OBVIOUS
      <4>2. QED
        BY <4>1, TokensUptoAdds
    <3>6. QED
      BY <3>4, <3>5 DEF f, g
  <2>3. \A j \in 1 .. e + 1 : j - 1 \in 0 .. e /\ 0 + j - 1 = j - 1
    OBVIOUS
  <2>4. TokensUpto(docs, 0) = 0
    BY TokensUptoAdds
  <2>5. \A j \in 1 .. e + 1 : TokensUpto(few, j - 1) = TokensUpto(docs, 0 + j - 1) - TokensUpto(docs, 0)
    <3>1. ASSUME NEW k \in 0 .. e PROVE TokensUpto(docs, k) - 0 = TokensUpto(docs, k)
      BY <2>2
    <3>2. QED
      BY <2>2, <2>3, <2>4, <3>1
  <2>6. QED
    BY <2>1, <2>5 DEF OffsetsFrom
<1>4. OrderedEncoding(few) = [ids |-> OrderedEncoding(few).ids, offsets |-> OrderedEncoding(few).offsets]
  BY DEF OrderedEncoding
<1>5. QED
  BY <1>2, <1>3, <1>4 DEF BatchUpto, few

(* A half-open range of documents.                                         *)
Span == [start : Nat, end : Nat]

(* Ranges that cover the first documents, or none yet.                     *)
CoversUpto(ranges, documents) ==
  (ranges = <<>> /\ documents = 0) \/ IsExactCover(ranges, documents)

(* The ends of one range of a sequence of ranges.                          *)
LEMMA SpanAt ==
  ASSUME NEW ranges \in Seq(Span), NEW k \in 1 .. Len(ranges)
  PROVE  ranges[k] \in Span /\ ranges[k].start \in Nat /\ ranges[k].end \in Nat
         /\ ranges[k] = [start |-> ranges[k].start, end |-> ranges[k].end]
<1>1. ranges[k] \in Span
  BY ElementOfSeq
<1>2. QED
  BY <1>1 DEF Span

(* One more range behind a cover covers more.                              *)
LEMMA AppendCovers ==
  ASSUME NEW ranges \in Seq(Span), NEW s \in Nat, NEW e \in Nat, s < e,
         CoversUpto(ranges, s)
  PROVE  LET more == Append(ranges, [start |-> s, end |-> e])
         IN  more \in Seq(Span) /\ IsExactCover(more, e)
<1> DEFINE new == [start |-> s, end |-> e]
           n == Len(ranges)
           more == Append(ranges, new)
<1>1. new \in Span /\ n \in Nat
  BY DEF Span
<1>2. new.start = s /\ new.end = e
  OBVIOUS
<1> HIDE DEF new
<1>3. /\ more \in Seq(Span) /\ Len(more) = n + 1 /\ \A i \in 1 .. n : more[i] = ranges[i]
      /\ more[n + 1] = new
  BY <1>1, AppendProperties
<1> HIDE DEF more
<1>4. DOMAIN more = 1 .. n + 1 /\ DOMAIN ranges = 1 .. n
  BY <1>3
<1>5. CASE ranges = <<>> /\ s = 0
  <2>1. n = 0 /\ n + 1 = 1
    BY <1>5
  <2>2. Len(more) = 1 /\ more[1] = new /\ DOMAIN more = 1 .. 1
    BY <1>3, <1>4, <2>1
  <2>3. \A k \in DOMAIN more : k = 1
    BY <2>2
  <2>4. 1 .. Len(more) - 1 = {}
    BY <2>2
  <2>5. IsExactCover(more, e)
    BY <1>2, <1>5, <2>2, <2>3, <2>4 DEF IsExactCover
  <2>6. QED
    BY <1>3, <2>5 DEF more, new
<1>6. CASE IsExactCover(ranges, s)
  <2>1. n > 0 /\ ranges[1].start = 0 /\ ranges[n].end = s
        /\ (\A k \in 1 .. n : ranges[k].start < ranges[k].end)
        /\ \A k \in 1 .. n - 1 : ranges[k].end = ranges[k + 1].start
    BY <1>4, <1>6 DEF IsExactCover
  <2> HIDE DEF n
  <2>2. 1 \in 1 .. n /\ n \in 1 .. n
    BY <1>1, <2>1
  <2>3. Len(more) > 0 /\ more[1].start = 0 /\ more[Len(more)].end = e
    BY <1>1, <1>2, <1>3, <2>1, <2>2
  <2>4. ASSUME NEW k \in 1 .. n + 1 PROVE more[k].start < more[k].end
    <3>1. k \in 1 .. n \/ k = n + 1
      BY <1>1
    <3>2. QED
      BY <1>2, <1>3, <2>1, <3>1
  <2>5. ASSUME NEW k \in 1 .. Len(more) - 1 PROVE more[k].end = more[k + 1].start
    <3>1. k \in 1 .. n /\ (k = n \/ (k \in 1 .. n - 1 /\ k + 1 \in 1 .. n))
      BY <1>1, <1>3
    <3>2. CASE k = n
      BY <1>2, <1>3, <2>1, <3>1, <3>2
    <3>3. CASE k \in 1 .. n - 1 /\ k + 1 \in 1 .. n
      BY <1>3, <2>1, <3>1, <3>3
    <3>4. QED
      BY <3>1, <3>2, <3>3
  <2>6. IsExactCover(more, e)
    BY <1>4, <2>3, <2>4, <2>5 DEF IsExactCover
  <2>7. QED
    BY <1>3, <2>6 DEF more, new
<1>7. QED
  BY <1>5, <1>6 DEF CoversUpto

(* The ranges of a cover stay within the batch, one behind the other, and  *)
(* leave no document out.                                                  *)
LEMMA CoverShape ==
  ASSUME NEW ranges \in Seq(Span), NEW d \in Nat, IsExactCover(ranges, d)
  PROVE  /\ \A k \in 1 .. Len(ranges) : ranges[k].start \in 0 .. d /\ ranges[k].end \in 0 .. d
         /\ \A i \in 1 .. d : \E k \in 1 .. Len(ranges) : i \in DocsOf(ranges[k])
<1> DEFINE n == Len(ranges)
<1>1. n \in Nat /\ DOMAIN ranges = 1 .. n
  OBVIOUS
<1>2. \A k \in 1 .. n : ranges[k].start \in Nat /\ ranges[k].end \in Nat
  BY SpanAt
<1>3. n > 0 /\ ranges[1].start = 0 /\ ranges[n].end = d
      /\ (\A k \in 1 .. n : ranges[k].start < ranges[k].end)
      /\ \A k \in 1 .. n - 1 : ranges[k].end = ranges[k + 1].start
  BY <1>1 DEF IsExactCover
<1> HIDE DEF n
<1> DEFINE Below(j) == \A i \in 1 .. d : i <= ranges[n - j].start \/ \E k \in 1 .. n : i \in DocsOf(ranges[k])
           Bounded(j) == ranges[n - j].end <= d
           S == {j \in Nat : j < n => Below(j) /\ Bounded(j)}
<1>4. ASSUME NEW k \in 1 .. n, NEW i \in 1 .. d
      PROVE  i \in DocsOf(ranges[k]) <=> ranges[k].start < i /\ i <= ranges[k].end
  BY <1>2 DEF DocsOf
<1>5. 0 \in S
  <2>1. n - 0 = n /\ n \in 1 .. n
    BY <1>1, <1>3
  <2>2. Below(0)
    <3>1. ASSUME NEW i \in 1 .. d, ~ (i <= ranges[n].start) PROVE i \in DocsOf(ranges[n])
      BY <1>2, <1>3, <1>4, <2>1, <3>1
    <3>2. QED
      BY <2>1, <3>1
  <2>3. Bounded(0)
    BY <1>2, <1>3, <2>1
  <2> HIDE DEF Below, Bounded
  <2>4. QED
    BY <2>2, <2>3
<1>6. ASSUME NEW j \in Nat, j \in S PROVE j + 1 \in S
  <2> SUFFICES ASSUME j + 1 < n PROVE Below(j + 1) /\ Bounded(j + 1)
    BY DEF S
  <2> DEFINE a == n - (j + 1)
  <2>1. a \in 1 .. n - 1 /\ a \in 1 .. n /\ a + 1 = n - j /\ a + 1 \in 1 .. n /\ j < n
    BY <1>1
  <2>2. Below(j) /\ Bounded(j)
    BY <1>6, <2>1
  <2>3. ranges[a].end = ranges[a + 1].start /\ ranges[a + 1].start < ranges[a + 1].end
        /\ ranges[a + 1].end <= d
    BY <1>3, <2>1, <2>2
  <2> HIDE DEF a
  <2>4. ranges[a].end <= d
    BY <1>2, <2>1, <2>3
  <2>5. ASSUME NEW i \in 1 .. d, ~ (i <= ranges[a].start) PROVE \E k \in 1 .. n : i \in DocsOf(ranges[k])
    <3>1. CASE i <= ranges[a].end
      BY <1>2, <1>4, <2>1, <2>5, <3>1
    <3>2. CASE ~ (i <= ranges[a].end)
      BY <2>1, <2>2, <2>3, <3>2
    <3>3. QED
      BY <3>1, <3>2
  <2>6. QED
    BY <2>4, <2>5 DEF a
<1>7. Nat \subseteq S
  <2> HIDE DEF S
  <2> QED BY <1>5, <1>6, NatSetInduction
<1>8. ASSUME NEW j \in Nat, j < n PROVE Below(j) /\ Bounded(j)
  BY <1>7, <1>8
<1>9. ASSUME NEW k \in 1 .. n PROVE ranges[k].end <= d
  <2>1. n - k \in Nat /\ n - k < n /\ n - (n - k) = k
    BY <1>1
  <2>2. Bounded(n - k)
    BY <1>8, <2>1
  <2>3. QED
    BY <2>1, <2>2
<1>10. ASSUME NEW i \in 1 .. d PROVE \E k \in 1 .. n : i \in DocsOf(ranges[k])
  <2>1. n - 1 \in Nat /\ n - 1 < n /\ n - (n - 1) = 1
    BY <1>1, <1>3
  <2>2. Below(n - 1)
    BY <1>8, <2>1
  <2>3. i <= ranges[1].start \/ \E k \in 1 .. n : i \in DocsOf(ranges[k])
    BY <2>1, <2>2
  <2>4. ~ (i <= ranges[1].start)
    BY <1>3
  <2>5. QED
    BY <2>3, <2>4
<1>11. ASSUME NEW k \in 1 .. n PROVE ranges[k].start \in 0 .. d /\ ranges[k].end \in 0 .. d
  BY <1>2, <1>3, <1>9
<1>12. QED
  BY <1>10, <1>11 DEF n

(* build_batch_ranges cuts every non-empty batch into an exact cover: no   *)
(* document is left out, repeated or moved, whatever the sizes are.        *)
LEMMA BatchRangesCover ==
  ASSUME NEW sizes \in Seq(Nat), sizes # <<>>, NEW threads
  PROVE  /\ BuildBatchRanges(sizes, threads) \in Seq(Span)
         /\ IsExactCover(BuildBatchRanges(sizes, threads), Len(sizes))
<1> DEFINE n == Len(sizes)
           target == TargetBytes(sizes, threads)
           Acc == [ranges : Seq(Span), start : Nat, bytes : Nat]
           empty == [ranges |-> <<>>, start |-> 0, bytes |-> 0]
           Take(acc, i) ==
             IF acc.bytes + sizes[i] >= target /\ i < n
             THEN [ranges |-> Append(acc.ranges, [start |-> acc.start, end |-> i]),
                   start |-> i, bytes |-> 0]
             ELSE [acc EXCEPT !.bytes = @ + sizes[i]]
           pos == [i \in DOMAIN sizes |-> i]
           Step == [x \in Acc \X (1 .. n) |-> Take(x[1], x[2])]
<1>1. n \in Nat /\ n > 0 /\ DOMAIN sizes = 1 .. n /\ \A i \in 1 .. n : sizes[i] \in Nat
  OBVIOUS
<1> HIDE DEF target, n
<1>2. empty \in Acc
  OBVIOUS
<1>3. ASSUME NEW acc \in Acc, NEW i \in 1 .. n PROVE Take(acc, i) \in Acc
  <2>1. acc.bytes + sizes[i] \in Nat /\ acc.start \in Nat /\ i \in Nat /\ acc.ranges \in Seq(Span)
    BY <1>1
  <2>2. Append(acc.ranges, [start |-> acc.start, end |-> i]) \in Seq(Span)
    <3>1. [start |-> acc.start, end |-> i] \in Span
      BY <2>1 DEF Span
    <3>2. QED
      BY <2>1, <3>1
  <2>3. QED
    BY <2>1, <2>2
<1> HIDE DEF Acc, empty
<1>4. Step \in [Acc \X (1 .. n) -> Acc]
  <2> HIDE DEF Take
  <2> QED BY <1>3
<1> DEFINE Law(it) == it = [t \in SUBSET (1 .. n) |->
                             IF t = {} THEN empty
                             ELSE Take(it[t \ {Max(t)}], pos[Max(t)])]
<1> HIDE DEF Take
<1>5. \E it : Law(it)
  <2>1. PICK it \in [SUBSET (1 .. n) -> Acc] :
          /\ it = [t \in SUBSET (1 .. n) |->
                    IF t = {} THEN empty ELSE Step[<<it[t \ {Max(t)}], Max(t)>>]]
          /\ \A t \in SUBSET (1 .. n) : t # {} => it[t \ {Max(t)}] \in Acc /\ Max(t) \in 1 .. n
    <3> HIDE DEF Step
    <3> QED BY <1>1, <1>2, <1>4, FoldLaw
  <2>2. \A t \in SUBSET (1 .. n) :
          t # {} => Step[<<it[t \ {Max(t)}], Max(t)>>] = Take(it[t \ {Max(t)}], pos[Max(t)])
    BY <1>1, <2>1
  <2> HIDE DEF Step, pos
  <2>3. Law(it)
    BY <2>1, <2>2
  <2>4. QED
    BY <2>3
<1> DEFINE it == CHOOSE it : Law(it)
<1>6. Law(it)
  <2> HIDE DEF Law
  <2> QED BY <1>5
<1> DEFINE cut == it[DOMAIN pos]
<1>7. BuildBatchRanges(sizes, threads) = Append(cut.ranges, [start |-> cut.start, end |-> n])
  <2> DEFINE fold == FoldLeftDomain(Take, empty, sizes)
  <2>1. BuildBatchRanges(sizes, threads) = Append(fold.ranges, [start |-> fold.start, end |-> n])
    BY Zenon DEF BuildBatchRanges, Take, target, empty, n
  <2>2. fold = FoldLeft(Take, empty, pos)
    BY Zenon DEF FoldLeftDomain, pos
  <2>4. FoldLeft(Take, empty, pos) = MapThenFoldSet(LAMBDA x, y : Take(y, x), empty, LAMBDA i : pos[i], LAMBDA S : Max(S), DOMAIN pos)
    BY Zenon DEF FoldLeft
  <2>5. MapThenFoldSet(LAMBDA x, y : Take(y, x), empty, LAMBDA i : pos[i], LAMBDA S : Max(S), DOMAIN pos) = cut
    <3>1. DOMAIN pos = 1 .. n
      BY <1>1
    <3> HIDE DEF pos, Take
    <3>2. QED
      BY <3>1 DEF MapThenFoldSet
  <2>3. QED
    BY <2>1, <2>2, <2>4, <2>5, Zenon
<1>8. DOMAIN pos = 1 .. n /\ \A i \in 1 .. n : pos[i] = i
  BY <1>1
<1> HIDE DEF it, pos
<1>9. /\ it[{}] = empty
      /\ \A t \in SUBSET (1 .. n) : t # {} => it[t] = Take(it[t \ {Max(t)}], pos[Max(t)])
  BY <1>6
<1>10. PICK f : IsRecursion(f, n, Acc, empty, Step)
  <2> HIDE DEF Step
  <2> QED BY <1>1, <1>2, <1>4, RecursionExists
<1>11. /\ f \in [0 .. n -> Acc] /\ f[0] = empty
       /\ \A k \in 1 .. n : f[k] = Take(f[k - 1], k)
  <2>1. /\ f \in [0 .. n -> Acc] /\ f[0] = empty
        /\ \A k \in 1 .. n : f[k] = Step[<<f[k - 1], k>>]
    <3> HIDE DEF Step
    <3> QED BY <1>10 DEF IsRecursion
  <2>2. \A k \in 1 .. n : f[k - 1] \in Acc
    <3>1. \A k \in 1 .. n : k - 1 \in 0 .. n
      BY <1>1
    <3>2. QED
      BY <2>1, <3>1
  <2>3. QED
    BY <2>1, <2>2
<1> HIDE DEF Step, Law
<1>12. it[1 .. n] = f[n]
  <2>1. ASSUME NEW k \in 1 .. n, Max(1 .. k) = k, (1 .. k) \ {k} = 1 .. k - 1,
               1 .. k \in SUBSET (1 .. n), 1 .. k # {}, it[1 .. k - 1] = f[k - 1]
        PROVE  it[1 .. k] = f[k]
    <3>1. it[1 .. k] = Take(it[(1 .. k) \ {Max(1 .. k)}], pos[Max(1 .. k)])
      BY <1>9, <2>1
    <3>2. it[1 .. k] = Take(f[k - 1], k)
      BY <1>8, <2>1, <3>1
    <3>3. QED
      BY <1>11, <3>2
  <2>2. it[{}] = f[0]
    BY <1>9, <1>11
  <2>3. InStep(it, f, n)
    BY <2>1 DEF InStep
  <2>4. QED
    BY ONLY <1>1, <2>3, <2>2, FoldEnds
<1> DEFINE Good(k) == /\ f[k].ranges \in Seq(Span) /\ f[k].start \in Nat
                      /\ f[k].start <= k /\ f[k].start < n
                      /\ CoversUpto(f[k].ranges, f[k].start)
           S == {k \in Nat : k <= n => Good(k)}
<1>13. 0 \in S
  <2>1. Good(0)
    BY <1>1, <1>11 DEF empty, CoversUpto
  <2> HIDE DEF Good
  <2>2. QED
    BY <2>1
<1>14. ASSUME NEW k \in Nat, k \in S PROVE k + 1 \in S
  <2> SUFFICES ASSUME k + 1 <= n PROVE Good(k + 1)
    BY DEF S
  <2>1. k + 1 \in 1 .. n /\ (k + 1) - 1 = k /\ k \in 0 .. n /\ k + 1 \in 0 .. n /\ k <= n
    BY <1>1
  <2>2. Good(k)
    BY <1>14, <2>1
  <2> DEFINE acc == f[k]
  <2>3. f[k + 1] = Take(acc, k + 1) /\ acc \in Acc
    BY <1>11, <2>1
  <2>4. /\ acc.ranges \in Seq(Span) /\ acc.start \in Nat
        /\ acc.start <= k /\ acc.start < n /\ CoversUpto(acc.ranges, acc.start)
    BY <2>2
  <2> HIDE DEF acc, Good, S
  <2>5. CASE acc.bytes + sizes[k + 1] >= target /\ k + 1 < n
    <3> DEFINE more == Append(acc.ranges, [start |-> acc.start, end |-> k + 1])
    <3>1. f[k + 1] = [ranges |-> more, start |-> k + 1, bytes |-> 0]
      BY <2>3, <2>5 DEF Take
    <3>2. acc.start < k + 1 /\ k + 1 \in Nat
      BY <2>4
    <3>3. more \in Seq(Span) /\ IsExactCover(more, k + 1)
      BY <2>4, <3>2, AppendCovers
    <3> HIDE DEF more
    <3>4. f[k + 1].ranges = more /\ f[k + 1].start = k + 1
      BY <3>1
    <3>5. QED
      BY <2>5, <3>3, <3>4, <3>2 DEF Good, CoversUpto
  <2>6. CASE ~ (acc.bytes + sizes[k + 1] >= target /\ k + 1 < n)
    <3>1. f[k + 1] = [acc EXCEPT !.bytes = acc.bytes + sizes[k + 1]]
      BY <2>3, <2>6 DEF Take
    <3>2. f[k + 1].ranges = acc.ranges /\ f[k + 1].start = acc.start
      BY <2>3, <3>1 DEF Acc
    <3>3. acc.start <= k + 1
      BY <2>4
    <3>4. QED
      BY <2>4, <3>2, <3>3 DEF Good
  <2>7. QED
    BY <2>5, <2>6
<1>15. Good(n)
  <2>1. Nat \subseteq S
    <3> HIDE DEF S
    <3> QED BY <1>13, <1>14, NatSetInduction
  <2> HIDE DEF Good
  <2>2. QED
    BY <1>1, <2>1
<1>16. cut = f[n]
  BY <1>8, <1>12
<1> HIDE DEF cut
<1>17. /\ cut.ranges \in Seq(Span) /\ cut.start \in Nat /\ cut.start < n
       /\ CoversUpto(cut.ranges, cut.start)
  BY <1>15, <1>16
<1>18. QED
  BY <1>1, <1>7, <1>17, AppendCovers DEF n

(* A shard takes at least one document and leaves one for each later shard;*)
(* it stops at the first document with which it holds its share.           *)
LEMMA ShardEndIs ==
  ASSUME NEW sizes \in Seq(Nat), NEW s \in Nat, NEW r \in Nat \ {0}, s + r <= Len(sizes)
  PROVE  LET target == CeilDiv(Weight(sizes, s, Len(sizes)), r)
             maxEnd == Len(sizes) - (r - 1)
             e == ShardEnd(sizes, s, r)
         IN  /\ e \in (s + 1) .. maxEnd /\ e \in Nat
             /\ e = maxEnd \/ Weight(sizes, s, e) >= target
             /\ e - 1 \in (s + 1) .. maxEnd => ~ (Weight(sizes, s, e - 1) >= target)
<1> DEFINE target == CeilDiv(Weight(sizes, s, Len(sizes)), r)
           maxEnd == Len(sizes) - (r - 1)
           ends == {e \in (s + 1) .. maxEnd : e = maxEnd \/ Weight(sizes, s, e) >= target}
<1>1. maxEnd \in Nat /\ maxEnd \in (s + 1) .. maxEnd
  OBVIOUS
<1> HIDE DEF target, maxEnd
<1>2. ends \in SUBSET Nat /\ maxEnd \in ends
  BY <1>1
<1>3. ShardEnd(sizes, s, r) = Min(ends)
  BY DEF ShardEnd, target, maxEnd
<1>4. Min(ends) \in ends /\ \A y \in ends : Min(ends) <= y
  <2> HIDE DEF ends
  <2> QED BY <1>2, MinOfNaturals
<1> DEFINE e == Min(ends)
<1> HIDE DEF e
<1>5. e \in ends /\ \A y \in ends : e <= y
  BY <1>4 DEF e
<1>6. e \in (s + 1) .. maxEnd /\ e \in Nat /\ (e = maxEnd \/ Weight(sizes, s, e) >= target)
  BY <1>1, <1>5
<1>7. e - 1 \in (s + 1) .. maxEnd => ~ (Weight(sizes, s, e - 1) >= target)
  <2> SUFFICES ASSUME e - 1 \in (s + 1) .. maxEnd, Weight(sizes, s, e - 1) >= target PROVE FALSE
    OBVIOUS
  <2>1. e - 1 \in ends
    OBVIOUS
  <2>2. e <= e - 1
    <3> HIDE DEF ends
    <3> QED BY <1>5, <2>1
  <2>3. QED
    BY <1>6, <2>2
<1>8. QED
  BY <1>3, <1>6, <1>7 DEF e, target, maxEnd

(* The starts of the shards, each leaving a document for every later one.  *)
IsStarts(f, sizes, count) ==
  /\ f \in [1 .. count -> Nat]
  /\ f[1] = 0
  /\ \A k \in 2 .. count : f[k] = ShardEnd(sizes, f[k - 1], count - k + 2)
  /\ \A k \in 1 .. count : f[k] + (count - k + 1) <= Len(sizes)

(* BuildShardRanges cuts at such starts.                                   *)
LEMMA ShardStarts ==
  ASSUME NEW sizes \in Seq(Nat), sizes # <<>>, NEW requested \in Nat \ {0}
  PROVE  LET count == Min({requested, Len(sizes)})
         IN  /\ count \in Nat \ {0} /\ count <= Len(sizes) /\ count <= requested
             /\ \E f : /\ IsStarts(f, sizes, count)
                       /\ BuildShardRanges(sizes, requested)
                            = [k \in 1 .. count |->
                                 [start |-> f[k],
                                  end   |-> IF k = count THEN Len(sizes) ELSE f[k + 1]]]
<1> DEFINE len == Len(sizes)
           count == Min({requested, Len(sizes)})
<1>1. len \in Nat \ {0}
  OBVIOUS
<1>2. count \in Nat \ {0} /\ count <= len /\ count <= requested
  BY <1>1, MinOfTwo
<1> HIDE DEF count
<1> DEFINE n == count - 1
           End(x, j) == ShardEnd(sizes, x, count - j + 1)
           Step == [x \in Nat \X (1 .. n) |-> IF End(x[1], x[2]) \in Nat THEN End(x[1], x[2]) ELSE 0]
<1>3. n \in Nat /\ n + 1 = count
  BY <1>2
<1> HIDE DEF End, n
<1>4. Step \in [Nat \X (1 .. n) -> Nat]
  OBVIOUS
<1>5. PICK h : IsRecursion(h, n, Nat, 0, Step)
  <2> HIDE DEF Step
  <2>1. 0 \in Nat
    OBVIOUS
  <2> QED BY <1>3, <1>4, <2>1, RecursionExists
<1>6. /\ h \in [0 .. n -> Nat] /\ h[0] = 0
      /\ \A j \in 1 .. n : h[j] = IF End(h[j - 1], j) \in Nat THEN End(h[j - 1], j) ELSE 0
  <2>1. /\ h \in [0 .. n -> Nat] /\ h[0] = 0
        /\ \A j \in 1 .. n : h[j] = Step[<<h[j - 1], j>>]
    <3> HIDE DEF Step
    <3> QED BY <1>5 DEF IsRecursion
  <2>2. \A j \in 1 .. n : h[j - 1] \in Nat
    <3>1. \A j \in 1 .. n : j - 1 \in 0 .. n
      BY <1>3
    <3>2. QED
      BY <2>1, <3>1
  <2>3. QED
    BY <2>1, <2>2
<1> HIDE DEF Step
<1> DEFINE Room(j) == h[j] + (count - j) <= len
           S == {j \in Nat : j <= n => Room(j)}
<1>7. ASSUME NEW j \in 1 .. n, Room(j - 1)
      PROVE  End(h[j - 1], j) \in Nat /\ Room(j) /\ h[j] = End(h[j - 1], j)
  <2> DEFINE r == count - j + 1
             s == h[j - 1]
  <2>1. r \in Nat \ {0} /\ count - (j - 1) = r /\ j - 1 \in 0 .. n
    BY <1>2, <1>3
  <2>2. s \in Nat /\ s + r <= len
    BY <1>6, <1>7, <2>1
  <2> HIDE DEF s, Room
  <2>3. ShardEnd(sizes, s, r) \in Nat /\ ShardEnd(sizes, s, r) \in (s + 1) .. len - (r - 1)
    <3> HIDE DEF r
    <3> QED BY <2>1, <2>2, ShardEndIs
  <2>4. End(h[j - 1], j) = ShardEnd(sizes, s, r)
    BY DEF End, s
  <2>5. h[j] = ShardEnd(sizes, s, r)
    BY <1>6, <2>3, <2>4
  <2>6. h[j] + (count - j) <= len
    BY <1>1, <1>2, <1>3, <2>2, <2>3, <2>5
  <2>7. QED
    BY <2>3, <2>4, <2>5, <2>6 DEF Room
<1>8. Room(0)
  BY <1>2, <1>6
<1> HIDE DEF Room
<1>9. \A j \in 0 .. n : Room(j)
  <2>1. 0 \in S
    BY <1>8
  <2>2. ASSUME NEW j \in Nat, j \in S PROVE j + 1 \in S
    <3> SUFFICES ASSUME j + 1 <= n PROVE Room(j + 1)
      OBVIOUS
    <3>1. j + 1 \in 1 .. n /\ (j + 1) - 1 = j /\ j <= n
      BY <1>3
    <3>2. QED
      BY <1>7, <2>2, <3>1
  <2> HIDE DEF S
  <2>3. Nat \subseteq S
    BY <2>1, <2>2, NatSetInduction
  <2>4. QED
    BY <1>3, <2>3 DEF S
<1>10. \A j \in 1 .. n : h[j] = End(h[j - 1], j)
  <2>1. \A j \in 1 .. n : j - 1 \in 0 .. n
    BY <1>3
  <2>2. QED
    BY <1>7, <1>9, <2>1
<1> DEFINE Law(begins) == begins = [k \in 1 .. count |->
                            IF k = 1 THEN 0 ELSE ShardEnd(sizes, begins[k - 1], count - k + 2)]
           g0 == [k \in 1 .. count |-> h[k - 1]]
<1>11. ASSUME NEW k \in 1 .. count
       PROVE  g0[k] = IF k = 1 THEN 0 ELSE ShardEnd(sizes, g0[k - 1], count - k + 2)
  <2>1. g0[k] = h[k - 1]
    OBVIOUS
  <2>2. CASE k = 1
    <3>1. k - 1 = 0
      BY <2>2
    <3>2. QED
      BY <1>6, <2>1, <2>2, <3>1
  <2>3. CASE k # 1
    <3>1. k - 1 \in 1 .. n /\ k - 1 \in 1 .. count /\ count - (k - 1) + 1 = count - k + 2
      BY <1>2, <1>3, <2>3
    <3>2. g0[k - 1] = h[(k - 1) - 1]
      BY <3>1
    <3>3. h[k - 1] = End(h[(k - 1) - 1], k - 1)
      BY <1>10, <3>1
    <3>4. QED
      BY <2>1, <2>3, <3>1, <3>2, <3>3 DEF End
  <2>4. QED
    BY <2>2, <2>3
<1>12. Law(g0)
  <2>1. g0 = [k \in 1 .. count |-> g0[k]]
    OBVIOUS
  <2> HIDE DEF g0
  <2>2. QED
    BY <1>11, <2>1
<1> HIDE DEF g0
<1> DEFINE begins == CHOOSE begins : Law(begins)
<1>13. Law(begins)
  <2>1. \E g1 : Law(g1)
    BY <1>12
  <2> HIDE DEF Law
  <2> QED BY <2>1
<1>14. BuildShardRanges(sizes, requested)
         = [k \in 1 .. count |->
              [start |-> begins[k], end |-> IF k = count THEN Len(sizes) ELSE begins[k + 1]]]
  BY DEF BuildShardRanges, count
<1> HIDE DEF begins
<1>15. \A k \in 1 .. count :
         begins[k] = IF k = 1 THEN 0 ELSE ShardEnd(sizes, begins[k - 1], count - k + 2)
  BY <1>13
<1>16. \A k \in 1 .. count : begins[k] = h[k - 1]
  <2> DEFINE u == [j \in 0 .. n |-> begins[j + 1]]
  <2>1. 0 \in 0 .. n /\ 0 + 1 = 1 /\ 1 \in 1 .. count
    BY <1>2, <1>3
  <2>2. u[0] = h[0]
    <3>1. begins[1] = 0
      BY <1>15, <2>1
    <3>2. u[0] = begins[0 + 1]
      BY <2>1
    <3>3. QED
      BY <1>6, <2>1, <3>1, <3>2
  <2>3. ASSUME NEW j \in 1 .. n, u[j - 1] = h[j - 1] PROVE u[j] = h[j]
    <3>1. /\ j + 1 \in 1 .. count /\ j + 1 # 1 /\ (j + 1) - 1 = j /\ j \in 0 .. n /\ j - 1 \in 0 .. n
          /\ (j - 1) + 1 = j /\ count - (j + 1) + 2 = count - j + 1
      BY <1>2, <1>3
    <3>2. begins[j + 1] = ShardEnd(sizes, begins[j], count - j + 1)
      BY <1>15, <3>1
    <3>3. u[j] = begins[j + 1] /\ u[j - 1] = begins[j]
      BY <3>1
    <3>4. QED
      BY <1>10, <2>3, <3>2, <3>3 DEF End
  <2> HIDE DEF u
  <2>4. \A j \in 0 .. n : u[j] = h[j]
    <3>1. SameSteps(u, h, n)
      BY <2>2, <2>3 DEF SameSteps
    <3>2. QED
      BY <1>3, <3>1, SameRecursion
  <2>5. \A k \in 1 .. count : k - 1 \in 0 .. n /\ (k - 1) + 1 = k
    BY <1>2, <1>3
  <2>6. QED
    BY <2>4, <2>5 DEF u
<1>17. IsStarts(begins, sizes, count)
  <2>1. \A k \in 1 .. count : k - 1 \in 0 .. n /\ count - (k - 1) = count - k + 1
    BY <1>2, <1>3
  <2>2. \A k \in 1 .. count : begins[k] \in Nat /\ begins[k] + (count - k + 1) <= len
    BY <1>6, <1>9, <1>16, <2>1 DEF Room
  <2>3. begins \in [1 .. count -> Nat]
    <3>1. begins = [k \in 1 .. count |-> IF k = 1 THEN 0 ELSE ShardEnd(sizes, begins[k - 1], count - k + 2)]
      BY <1>13
    <3>2. begins = [k \in 1 .. count |-> begins[k]]
      BY <3>1
    <3>3. QED
      BY <2>2, <3>2
  <2>4. 1 \in 1 .. count /\ \A k \in 2 .. count : k \in 1 .. count /\ k # 1
    BY <1>2
  <2>5. QED
    BY <1>15, <2>2, <2>3, <2>4 DEF IsStarts
<1>18. QED
  BY <1>2, <1>14, <1>17 DEF count

(* Rounding up: the least number of parts of size b that hold a.           *)
LEMMA CeilDivIs ==
  ASSUME NEW a \in Nat, NEW b \in Nat \ {0}
  PROVE  /\ CeilDiv(a, b) \in Nat /\ a <= CeilDiv(a, b) * b
         /\ \A c \in Nat : a <= c * b => CeilDiv(a, b) <= c
<1> DEFINE t == CeilDiv(a, b)
<1>1. a + b - 1 \in Nat
  OBVIOUS
<1>2. ASSUME NEW x \in Nat PROVE x \div b \in Nat /\ (x \div b) * b <= x /\ x < (x \div b) * b + b
  OBVIOUS
<1>3. t \in Nat /\ t * b <= a + b - 1 /\ a + b - 1 < t * b + b
  BY <1>1, <1>2 DEF CeilDiv
<1> HIDE DEF t
<1>4. a <= t * b
  <2>1. t * b \in Nat
    BY <1>3
  <2>2. QED
    BY <1>3, <2>1
<1>5. ASSUME NEW c \in Nat, a <= c * b PROVE t <= c
  <2> SUFFICES ASSUME c + 1 <= t PROVE FALSE
    BY <1>3
  <2>1. (c + 1) * b <= t * b
    BY <1>3, ProductMonotone
  <2>2. (c + 1) * b = c * b + b /\ c * b \in Nat /\ t * b \in Nat
    BY <1>3
  <2>3. QED
    BY <1>3, <1>5, <2>1, <2>2
<1>6. QED
  BY <1>3, <1>4, <1>5 DEF t

(* The weight of a range is the difference of two strictly growing totals. *)
LEMMA WeightIs ==
  ASSUME NEW sizes \in Seq(Nat)
  PROVE  \E P \in [0 .. Len(sizes) -> Nat] :
           /\ P[0] = 0
           /\ \A k \in 1 .. Len(sizes) : P[k - 1] < P[k]
           /\ \A a, b \in 0 .. Len(sizes) : a <= b => Weight(sizes, a, b) = P[b] - P[a]
<1> DEFINE n == Len(sizes)
           w == [i \in 1 .. n |-> Max({sizes[i], 1})]
<1>1. n \in Nat /\ \A i \in 1 .. n : Max({sizes[i], 1}) \in Nat /\ Max({sizes[i], 1}) >= 1
  <2>1. n \in Nat /\ \A i \in 1 .. n : sizes[i] \in Nat
    OBVIOUS
  <2>2. QED
    BY <2>1, MaxOfTwo
<1>2. w \in [1 .. n -> Nat]
  BY <1>1
<1> HIDE DEF n
<1>3. PICK P : /\ IsTotal(P, n, w)
               /\ \A a, b \in 0 .. n : a <= b =>
                    /\ \E it : IsSum(it, a + 1 .. b, w)
                    /\ \A it : IsSum(it, a + 1 .. b, w) => it[a + 1 .. b] = P[b] - P[a]
  <2> HIDE DEF w
  <2> QED BY <1>1, <1>2, SumOfInterval
<1>4. ASSUME NEW a \in 0 .. n, NEW b \in 0 .. n, a <= b PROVE Weight(sizes, a, b) = P[b] - P[a]
  <2> DEFINE D == a + 1 .. b
             Law(it) == it = [s \in SUBSET D |->
                               IF s = {} THEN 0
                               ELSE Max({sizes[Picked(s)], 1}) + it[s \ {Picked(s)}]]
  <2>0. \A x \in D : x \in 1 .. n
    BY <1>1
  <2>1. ASSUME NEW it PROVE Law(it) <=> IsSum(it, D, w)
    <3> HIDE DEF D
    <3>1. ASSUME NEW s \in SUBSET D, s # {}
          PROVE  Max({sizes[Picked(s)], 1}) = w[Picked(s)]
      <4>1. Picked(s) \in s
        BY <3>1 DEF Picked
      <4>2. Picked(s) \in 1 .. n
        BY <2>0, <4>1
      <4>3. QED
        BY <4>2
    <3>2. \A s \in SUBSET D :
            (IF s = {} THEN 0 ELSE Max({sizes[Picked(s)], 1}) + it[s \ {Picked(s)}])
            = (IF s = {} THEN 0 ELSE w[Picked(s)] + it[s \ {Picked(s)}])
      BY <3>1
    <3>3. [s \in SUBSET D |->
             IF s = {} THEN 0 ELSE Max({sizes[Picked(s)], 1}) + it[s \ {Picked(s)}]]
          = [s \in SUBSET D |-> IF s = {} THEN 0 ELSE w[Picked(s)] + it[s \ {Picked(s)}]]
      BY <3>2
    <3> HIDE DEF w
    <3>4. QED
      BY <3>3 DEF IsSum
  <2>2. Weight(sizes, a, b) = (CHOOSE it : Law(it))[D]
    BY DEF Weight, MapThenSumSet, MapThenFoldSet, Picked
  <2>4. (\E it : IsSum(it, D, w)) /\ \A it : IsSum(it, D, w) => it[D] = P[b] - P[a]
    <3> HIDE DEF w
    <3> QED BY <1>3, <1>4
  <2>5. \E it : Law(it)
    <3> HIDE DEF Law, w, D
    <3> QED BY <2>1, <2>4
  <2> DEFINE it == CHOOSE it : Law(it)
  <2>6. Law(it)
    <3> HIDE DEF Law
    <3> QED BY <2>5
  <2> HIDE DEF it, Law, w, D
  <2>7. it[D] = P[b] - P[a]
    BY <2>1, <2>4, <2>6
  <2>8. QED
    BY <2>2, <2>7 DEF it
<1>5. P \in [0 .. n -> Nat] /\ P[0] = 0 /\ \A k \in 1 .. n : P[k] = P[k - 1] + w[k]
  BY <1>3 DEF IsTotal
<1>6. \A k \in 1 .. n : P[k - 1] < P[k]
  <2>1. ASSUME NEW k \in 1 .. n PROVE P[k - 1] \in Nat /\ w[k] \in Nat /\ w[k] >= 1
    <3>1. k - 1 \in 0 .. n
      BY <1>1
    <3>2. QED
      BY <1>1, <1>5, <3>1
  <2>2. ASSUME NEW x \in Nat, NEW y \in Nat, y >= 1 PROVE x < x + y
    BY <2>2
  <2>3. \A k \in 1 .. n : P[k - 1] < P[k - 1] + w[k]
    BY <2>1, <2>2
  <2>4. QED
    BY <1>5, <2>3
<1>7. QED
  BY <1>4, <1>5, <1>6 DEF n

(* The ranges between the starts.                                          *)
ShardsFrom(f, sizes, count) ==
  [k \in 1 .. count |-> [start |-> f[k], end |-> IF k = count THEN Len(sizes) ELSE f[k + 1]]]

(* A later shard starts behind an earlier one.                             *)
LEMMA StartsAscend ==
  ASSUME NEW sizes \in Seq(Nat), NEW count \in Nat \ {0}, NEW f, IsStarts(f, sizes, count),
         NEW k \in 1 .. count, k # count
  PROVE  LET r == count - k + 1
             target == CeilDiv(Weight(sizes, f[k], Len(sizes)), r)
             maxEnd == Len(sizes) - (r - 1)
             e == f[k + 1]
         IN  /\ e \in (f[k] + 1) .. maxEnd
             /\ e = maxEnd \/ Weight(sizes, f[k], e) >= target
             /\ e - 1 \in (f[k] + 1) .. maxEnd => ~ (Weight(sizes, f[k], e - 1) >= target)
<1> DEFINE r == count - k + 1
           s == f[k]
<1>1. k + 1 \in 2 .. count /\ (k + 1) - 1 = k /\ count - (k + 1) + 2 = r /\ r \in Nat \ {0}
  OBVIOUS
<1>2. s \in Nat /\ s + r <= Len(sizes)
  BY DEF IsStarts
<1>3. f[k + 1] = ShardEnd(sizes, s, r)
  BY <1>1 DEF IsStarts
<1> HIDE DEF r, s
<1>4. LET target == CeilDiv(Weight(sizes, s, Len(sizes)), r)
          maxEnd == Len(sizes) - (r - 1)
          e == ShardEnd(sizes, s, r)
      IN  /\ e \in (s + 1) .. maxEnd /\ e \in Nat
          /\ e = maxEnd \/ Weight(sizes, s, e) >= target
          /\ e - 1 \in (s + 1) .. maxEnd => ~ (Weight(sizes, s, e - 1) >= target)
  BY <1>1, <1>2, ShardEndIs
<1>5. QED
  BY <1>3, <1>4 DEF r, s

(* build_shard_ranges cuts every non-empty batch into an exact cover of at *)
(* most the requested number of shards.                                    *)
LEMMA ShardRangesCover ==
  ASSUME NEW sizes \in Seq(Nat), sizes # <<>>, NEW requested \in Nat \ {0}
  PROVE  LET ranges == BuildShardRanges(sizes, requested)
         IN  /\ ranges \in Seq(Span)
             /\ IsExactCover(ranges, Len(sizes))
             /\ Len(ranges) \in Nat \ {0} /\ Len(ranges) <= requested
<1> DEFINE len == Len(sizes)
           count == Min({requested, Len(sizes)})
           ranges == BuildShardRanges(sizes, requested)
<1>1. count \in Nat \ {0} /\ count <= len /\ count <= requested
  BY ShardStarts
<1>2. PICK f : IsStarts(f, sizes, count) /\ ranges = ShardsFrom(f, sizes, count)
  BY ShardStarts DEF ShardsFrom
<1>3. len \in Nat \ {0}
  OBVIOUS
<1> HIDE DEF count, ranges, len
<1>4. f \in [1 .. count -> Nat] /\ f[1] = 0 /\ \A k \in 1 .. count : f[k] + (count - k + 1) <= len
  BY <1>2 DEF IsStarts, len
<1>5. ASSUME NEW k \in 1 .. count, k # count PROVE k + 1 \in 1 .. count /\ f[k] < f[k + 1]
  <2>1. f[k + 1] \in (f[k] + 1) .. Len(sizes) - ((count - k + 1) - 1)
    BY <1>1, <1>2, <1>5, StartsAscend
  <2>2. k + 1 \in 1 .. count /\ f[k] \in Nat
    BY <1>1, <1>4, <1>5
  <2>3. QED
    BY <2>1, <2>2
<1>6. ranges = [k \in 1 .. count |-> [start |-> f[k], end |-> IF k = count THEN len ELSE f[k + 1]]]
  BY <1>2 DEF ShardsFrom, len
<1>7. ASSUME NEW k \in 1 .. count
      PROVE  [start |-> f[k], end |-> IF k = count THEN len ELSE f[k + 1]] \in Span
  <2>1. f[k] \in Nat /\ (k # count => f[k + 1] \in Nat)
    BY <1>4, <1>5
  <2>2. QED
    BY <1>3, <2>1 DEF Span
<1>8. ranges \in Seq(Span) /\ Len(ranges) = count /\ DOMAIN ranges = 1 .. count
  BY <1>1, <1>6, <1>7
<1>9. \A k \in 1 .. count : ranges[k].start = f[k]
                            /\ ranges[k].end = IF k = count THEN len ELSE f[k + 1]
  BY <1>6
<1>10. ASSUME NEW k \in 1 .. count PROVE ranges[k].start < ranges[k].end
  <2>1. CASE k = count
    <3>1. f[k] \in Nat /\ f[k] + (count - k + 1) <= len /\ count - k + 1 = 1
      BY <1>1, <1>4, <2>1
    <3>2. QED
      BY <1>3, <1>9, <2>1, <3>1
  <2>2. CASE k # count
    BY <1>5, <1>9, <2>2
  <2>3. QED
    BY <2>1, <2>2
<1>11. ASSUME NEW k \in 1 .. Len(ranges) - 1 PROVE ranges[k].end = ranges[k + 1].start
  <2>1. k \in 1 .. count /\ k + 1 \in 1 .. count /\ k # count
    BY <1>1, <1>8
  <2>2. QED
    BY <1>9, <2>1
<1>12. 1 \in 1 .. count /\ count \in 1 .. count
  BY <1>1
<1>13. IsExactCover(ranges, len)
  BY <1>1, <1>4, <1>8, <1>9, <1>10, <1>11, <1>12 DEF IsExactCover
<1>14. QED
  BY <1>1, <1>8, <1>13 DEF ranges, len

(* No shard is given more than an even share plus one document.            *)
LEMMA ShardRangesBalanced ==
  ASSUME NEW sizes \in Seq(Nat), sizes # <<>>, NEW requested \in Nat \ {0}
  PROVE  LET ranges == BuildShardRanges(sizes, requested)
             share == CeilDiv(Weight(sizes, 0, Len(sizes)), Len(ranges))
             largest == Max({Weight(sizes, i - 1, i) : i \in DOMAIN sizes})
         IN  \A r \in ToSet(ranges) : Weight(sizes, r.start, r.end) < share + largest
<1> DEFINE len == Len(sizes)
           count == Min({requested, Len(sizes)})
           ranges == BuildShardRanges(sizes, requested)
           share == CeilDiv(Weight(sizes, 0, len), count)
           single == {Weight(sizes, i - 1, i) : i \in DOMAIN sizes}
           largest == Max(single)
<1>1. count \in Nat \ {0} /\ count <= len
  BY ShardStarts
<1>2. PICK f : IsStarts(f, sizes, count) /\ ranges = ShardsFrom(f, sizes, count)
  BY ShardStarts DEF ShardsFrom
<1>3. len \in Nat \ {0} /\ DOMAIN sizes = 1 .. len /\ len \in 0 .. len
  OBVIOUS
<1>4. PICK P \in [0 .. len -> Nat] :
           /\ P[0] = 0
           /\ \A k \in 1 .. len : P[k - 1] < P[k]
           /\ \A a, b \in 0 .. len : a <= b => Weight(sizes, a, b) = P[b] - P[a]
  BY WeightIs
<1> HIDE DEF count, ranges, len, largest
<1>5. f \in [1 .. count -> Nat] /\ f[1] = 0 /\ \A k \in 1 .. count : f[k] + (count - k + 1) <= len
  BY <1>2 DEF IsStarts, len
<1>6. \A k \in 0 .. len : P[k] \in Nat
  OBVIOUS
<1>7. \A k \in 0 .. len : P[k] <= P[len]
  <2> DEFINE S == {j \in Nat : j <= len => P[len - j] <= P[len]}
  <2>1. 0 \in S
    <3>1. len - 0 = len /\ len \in 0 .. len
      BY <1>3
    <3>2. QED
      BY <1>6, <3>1
  <2>2. ASSUME NEW j \in Nat, j \in S PROVE j + 1 \in S
    <3> SUFFICES ASSUME j + 1 <= len PROVE P[len - (j + 1)] <= P[len]
      OBVIOUS
    <3>1. len - j \in 1 .. len /\ (len - j) - 1 = len - (j + 1) /\ j <= len
          /\ len - j \in 0 .. len /\ len - (j + 1) \in 0 .. len /\ len \in 0 .. len
      BY <1>3
    <3>2. P[len - (j + 1)] < P[len - j] /\ P[len - j] <= P[len]
      BY <1>4, <2>2, <3>1
    <3>3. QED
      BY <1>6, <3>1, <3>2
  <2> HIDE DEF S
  <2>3. Nat \subseteq S
    BY <2>1, <2>2, NatSetInduction
  <2>4. \A k \in 0 .. len : len - k \in Nat /\ len - k <= len /\ len - (len - k) = k
    BY <1>3
  <2>5. QED
    BY <2>3, <2>4 DEF S
<1> DEFINE one(i) == P[i] - P[i - 1]
<1>8. /\ largest \in Nat
      /\ \A i \in 1 .. len : one(i) <= largest /\ one(i) \in Nat /\ one(i) >= 1
  <2>1. ASSUME NEW i \in 1 .. len
        PROVE  i - 1 \in 0 .. len /\ i \in 0 .. len /\ Weight(sizes, i - 1, i) = one(i)
               /\ one(i) \in 1 .. P[len]
    <3>1. i - 1 \in 0 .. len /\ i \in 0 .. len /\ i - 1 <= i
      BY <1>3
    <3>2. Weight(sizes, i - 1, i) = P[i] - P[i - 1]
      BY <1>4, <3>1
    <3>3. P[i] \in Nat /\ P[i - 1] \in Nat /\ P[i - 1] < P[i] /\ P[i] <= P[len] /\ P[len] \in Nat
      BY <1>3, <1>4, <1>6, <1>7, <3>1
    <3>4. QED
      BY <3>1, <3>2, <3>3
  <2> HIDE DEF one
  <2>2. single \in SUBSET (1 .. P[len]) /\ single # {}
    <3>1. 1 \in 1 .. len
      BY <1>3
    <3>2. Weight(sizes, 1 - 1, 1) \in single
      BY <1>3, <3>1
    <3>3. QED
      BY <1>3, <2>1, <3>2
  <2>3. P[len] \in Nat
    BY <1>3, <1>6
  <2>4. \A i \in 1 .. len : one(i) \in single
    BY <1>3, <2>1
  <2> HIDE DEF single
  <2>5. largest \in single /\ \A y \in single : largest >= y
    BY <2>2, <2>3, MaxOfNaturals DEF largest
  <2>6. largest \in Nat /\ \A i \in 1 .. len : one(i) \in Nat /\ one(i) >= 1
    BY <2>1, <2>2, <2>3, <2>5
  <2>7. QED
    BY <2>4, <2>5, <2>6
<1>9. share \in Nat /\ P[len] <= share * count /\ share >= 1
  <2>1. 0 \in 0 .. len /\ len \in 0 .. len /\ 0 <= len /\ 1 \in 1 .. len /\ 1 \in 0 .. len
    BY <1>3
  <2>2. Weight(sizes, 0, len) = P[len] - P[0]
    BY <1>4, <2>1
  <2>3. Weight(sizes, 0, len) = P[len] /\ P[len] \in Nat
    BY <1>4, <1>6, <2>1, <2>2
  <2>4. share \in Nat /\ P[len] <= share * count
    BY <1>1, <2>3, CeilDivIs
  <2>5. P[len] >= 1
    <3>1. one(1) >= 1 /\ one(1) = P[1] - P[1 - 1]
      BY <1>8, <2>1
    <3>2. P[1] <= P[len] /\ P[1] \in Nat /\ P[1 - 1] = 0
      BY <1>4, <1>6, <1>7, <2>1
    <3>3. QED
      BY <2>3, <3>1, <3>2
  <2> HIDE DEF share
  <2>6. share # 0
    <3> SUFFICES ASSUME share = 0 PROVE FALSE
      OBVIOUS
    <3>1. share * count = 0
      BY <1>1
    <3>2. QED
      BY <2>3, <2>4, <2>5, <3>1
  <2>7. QED
    BY <2>4, <2>6
<1> HIDE DEF share
<1> DEFINE r(k) == count - k + 1
           Rest(k) == P[len] - P[f[k]]
           Even(k) == Rest(k) <= share * r(k) \/ len - f[k] = r(k)
<1>10. ASSUME NEW k \in 1 .. count
       PROVE  r(k) \in Nat \ {0} /\ f[k] \in 0 .. len /\ f[k] + r(k) <= len
              /\ P[f[k]] \in Nat /\ P[f[k]] <= P[len] /\ Rest(k) \in Nat
              /\ Weight(sizes, f[k], len) = Rest(k)
  <2>1. r(k) \in Nat \ {0} /\ f[k] \in 0 .. len /\ f[k] + r(k) <= len /\ f[k] <= len /\ len \in 0 .. len
    <3> DEFINE s == f[k]
    <3>1. r(k) \in Nat \ {0}
      BY <1>1
    <3>2. s \in Nat /\ s + r(k) <= len
      BY <1>5
    <3> HIDE DEF r, s
    <3>3. s \in 0 .. len /\ s + r(k) <= len /\ s <= len
      BY <1>3, <3>1, <3>2
    <3>4. QED
      BY <1>3, <3>1, <3>3 DEF s
  <2>2. P[f[k]] \in Nat /\ P[f[k]] <= P[len] /\ P[len] \in Nat
    BY <1>6, <1>7, <2>1
  <2>3. QED
    BY <1>4, <2>1, <2>2
<1> DEFINE target(k) == CeilDiv(Rest(k), r(k))
<1>11. ASSUME NEW k \in 1 .. count
       PROVE  /\ target(k) \in Nat /\ Rest(k) <= target(k) * r(k)
              /\ Rest(k) <= share * r(k) => target(k) <= share
  <2>1. r(k) \in Nat \ {0} /\ Rest(k) \in Nat
    BY <1>10
  <2> HIDE DEF r, Rest
  <2>2. QED
    BY <1>9, <2>1, CeilDivIs
<1> HIDE DEF target
<1>12. ASSUME NEW k \in 1 .. count, k # count
       PROVE  LET maxEnd == len - (r(k) - 1)
                  e == f[k + 1]
              IN  /\ k + 1 \in 1 .. count /\ r(k + 1) = r(k) - 1
                  /\ e \in (f[k] + 1) .. maxEnd /\ e \in 0 .. len
                  /\ e = maxEnd \/ P[e] - P[f[k]] >= target(k)
                  /\ e - 1 \in (f[k] + 1) .. maxEnd => ~ (P[e - 1] - P[f[k]] >= target(k))
  <2> DEFINE maxEnd == len - (r(k) - 1)
             e == f[k + 1]
  <2>1. k + 1 \in 1 .. count /\ r(k + 1) = r(k) - 1
    BY <1>1, <1>12
  <2>2. /\ e \in (f[k] + 1) .. maxEnd
        /\ e = maxEnd \/ Weight(sizes, f[k], e) >= target(k)
        /\ e - 1 \in (f[k] + 1) .. maxEnd => ~ (Weight(sizes, f[k], e - 1) >= target(k))
    <3>1. LET r0 == count - k + 1
              target0 == CeilDiv(Weight(sizes, f[k], Len(sizes)), r0)
              maxEnd0 == Len(sizes) - (r0 - 1)
              e0 == f[k + 1]
          IN  /\ e0 \in (f[k] + 1) .. maxEnd0
              /\ e0 = maxEnd0 \/ Weight(sizes, f[k], e0) >= target0
              /\ e0 - 1 \in (f[k] + 1) .. maxEnd0 => ~ (Weight(sizes, f[k], e0 - 1) >= target0)
      BY <1>1, <1>2, <1>12, StartsAscend
    <3>2. CeilDiv(Weight(sizes, f[k], Len(sizes)), count - k + 1) = target(k)
      BY <1>10 DEF target, len
    <3>3. QED
      BY <3>1, <3>2 DEF len
  <2>3. f[k] \in 0 .. len /\ r(k) \in Nat \ {0}
    BY <1>10
  <2> HIDE DEF e, r
  <2>4. e \in 0 .. len /\ f[k] <= e /\ (e - 1 \in (f[k] + 1) .. maxEnd => e - 1 \in 0 .. len /\ f[k] <= e - 1)
    <3> DEFINE s == f[k]
    <3>1. s \in Nat /\ e \in (s + 1) .. maxEnd /\ maxEnd \in Int /\ maxEnd <= len
      <4>1. maxEnd \in Int /\ maxEnd <= len
        BY <1>3, <2>3
      <4> HIDE DEF maxEnd
      <4>2. QED
        BY <2>2, <2>3, <4>1
    <3> HIDE DEF s, maxEnd
    <3>2. e \in 0 .. len /\ s <= e /\ (e - 1 \in (s + 1) .. maxEnd => e - 1 \in 0 .. len /\ s <= e - 1)
      BY <1>3, <3>1
    <3>3. QED
      BY <3>2 DEF s
  <2>5. Weight(sizes, f[k], e) = P[e] - P[f[k]]
        /\ (e - 1 \in (f[k] + 1) .. maxEnd => Weight(sizes, f[k], e - 1) = P[e - 1] - P[f[k]])
    BY <1>4, <2>3, <2>4
  <2> HIDE DEF maxEnd
  <2>6. QED
    BY <2>1, <2>2, <2>4, <2>5 DEF e, maxEnd
<1>13. ASSUME NEW k \in 1 .. count, k # count, Even(k) PROVE Even(k + 1)
  <2> DEFINE s == f[k]
             e == f[k + 1]
             left == r(k)
             t == target(k)
  <2>1. /\ left \in Nat \ {0} /\ s \in 0 .. len /\ s + left <= len /\ P[s] \in Nat /\ Rest(k) = P[len] - P[s]
        /\ t \in Nat /\ Rest(k) <= t * left /\ (Rest(k) <= share * left => t <= share)
    BY <1>10, <1>11
  <2>2. /\ r(k + 1) = left - 1 /\ Rest(k + 1) = P[len] - P[e]
        /\ e \in (s + 1) .. len - (left - 1) /\ e \in 0 .. len
        /\ e = len - (left - 1) \/ P[e] - P[s] >= t
    BY <1>12, <1>13
  <2>3. P[len] \in Nat /\ P[e] \in Nat
    BY <1>3, <1>6, <2>2
  <2>4. Rest(k) <= share * left \/ len - s = left
    BY <1>13
  <2> HIDE DEF s, e, left, t, r
  <2>5. CASE e = len - (left - 1)
    <3>1. len - e = left - 1
      BY <1>3, <2>1, <2>5
    <3>2. QED
      BY <2>2, <3>1 DEF e
  <2>6. CASE e # len - (left - 1)
    <3>1. Rest(k) <= share * left /\ P[e] - P[s] >= t
      <4>1. len - s # left
        BY <1>3, <2>1, <2>2, <2>6
      <4>2. QED
        BY <2>2, <2>4, <2>6, <4>1
    <3>2. t <= share /\ left - 1 \in Nat
      BY <2>1, <3>1
    <3>3. t * (left - 1) <= share * (left - 1)
      BY <1>9, <2>1, <3>2, ProductMonotone
    <3>4. t * (left - 1) = t * left - t /\ t * left \in Nat
      BY <2>1
    <3>5. share * (left - 1) \in Nat
      BY <1>9, <3>2
    <3> HIDE DEF Rest
    <3>6. Rest(k + 1) <= share * (left - 1)
      <4> DEFINE p == t * left
                 q == share * (left - 1)
                 m == t * (left - 1)
      <4>1. p \in Nat /\ q \in Nat /\ m = p - t /\ m <= q
        BY <3>3, <3>4, <3>5
      <4>2. P[len] - P[s] <= p /\ P[e] - P[s] >= t /\ Rest(k + 1) = P[len] - P[e]
        BY <2>1, <2>2, <3>1
      <4>2a. P[len] \in Nat /\ P[e] \in Nat /\ P[s] \in Nat /\ t \in Nat
        BY <2>1, <2>3
      <4> HIDE DEF p, q, m
      <4> DEFINE x == P[len]
                 y == P[e]
                 z == P[s]
      <4>2b. x \in Nat /\ y \in Nat /\ z \in Nat /\ t \in Nat /\ x - z <= p /\ y - z >= t
        BY <4>2, <4>2a
      <4> HIDE DEF x, y, z
      <4>2c. x - y <= q
        BY ONLY <4>1, <4>2b
      <4>3. P[len] - P[e] <= q
        BY <4>2c DEF x, y
      <4>4. QED
        BY <4>2, <4>3 DEF q
    <3>7. QED
      BY <2>2, <3>6
  <2>7. QED
    BY <2>5, <2>6
<1>14. \A k \in 1 .. count : Even(k)
  <2> DEFINE S == {j \in Nat : j + 1 <= count => Even(j + 1)}
  <2>1. 0 \in S
    <3>1. r(1) = count /\ Rest(1) = P[len] - P[0] /\ 1 \in 1 .. count /\ 0 + 1 = 1
      BY <1>1, <1>5
    <3>2. Rest(1) = P[len]
      <4>1. P[len] \in Nat /\ P[0] = 0
        BY <1>3, <1>4, <1>6
      <4> HIDE DEF Rest
      <4>2. QED
        BY <3>1, <4>1
    <3>3. Even(1)
      BY <1>9, <3>1, <3>2
    <3> HIDE DEF Even
    <3>4. QED
      BY <3>1, <3>3
  <2> HIDE DEF Even
  <2>2. ASSUME NEW j \in Nat, j \in S PROVE j + 1 \in S
    <3> SUFFICES ASSUME (j + 1) + 1 <= count PROVE Even((j + 1) + 1)
      OBVIOUS
    <3>1. j + 1 \in 1 .. count /\ j + 1 # count /\ j + 1 <= count
      BY <1>1
    <3>2. QED
      BY <1>13, <2>2, <3>1
  <2> HIDE DEF S
  <2>3. Nat \subseteq S
    BY <2>1, <2>2, NatSetInduction
  <2>4. \A k \in 1 .. count : k - 1 \in Nat /\ (k - 1) + 1 = k /\ (k - 1) + 1 <= count
    BY <1>1
  <2>5. QED
    BY <2>3, <2>4 DEF S
<1>15. ASSUME NEW k \in 1 .. count
       PROVE  LET e == IF k = count THEN len ELSE f[k + 1]
              IN  Weight(sizes, f[k], e) < share + largest
  <2> DEFINE e == IF k = count THEN len ELSE f[k + 1]
             s == f[k]
  <2>1. s \in 0 .. len /\ e \in 0 .. len /\ s < e
    <3>1. CASE k = count
      <4>1. s \in 0 .. len /\ s + r(k) <= len /\ r(k) \in Nat \ {0}
        BY <1>10
      <4> HIDE DEF r
      <4>2. QED
        BY <1>3, <3>1, <4>1
    <3>2. CASE k # count
      <4>1. e \in (s + 1) .. (len - (r(k) - 1)) /\ e \in 0 .. len /\ s \in 0 .. len
        BY <1>10, <1>12, <3>2
      <4> HIDE DEF e, r, s
      <4>2. QED
        BY <4>1
    <3>3. QED
      BY <3>1, <3>2
  <2>2. Weight(sizes, s, e) = P[e] - P[s]
    <3> HIDE DEF e, s
    <3>1. s <= e
      BY <2>1
    <3>2. QED
      BY <1>4, <2>1, <3>1
  <2>3. /\ e \in 1 .. len /\ e - 1 \in 0 .. len /\ one(e) <= largest /\ one(e) = P[e] - P[e - 1]
        /\ P[s] \in Nat /\ P[e] \in Nat /\ P[e - 1] \in Nat /\ P[len] \in Nat
    <3> HIDE DEF e, s
    <3>1. e \in 1 .. len /\ e - 1 \in 0 .. len /\ len \in 0 .. len
      BY <1>3, <2>1
    <3>2. QED
      BY <1>6, <1>8, <2>1, <3>1
  <2>4. ASSUME e = s + 1 PROVE P[e] - P[s] < share + largest
    <3> HIDE DEF e, s, one
    <3>1. P[e - 1] = P[s]
      <4>1. e - 1 = s
        BY <2>1, <2>4
      <4>2. QED
        BY <4>1
    <3>2. one(e) < share + largest
      BY <1>8, <1>9, <2>3
    <3>3. QED
      BY <2>3, <3>1, <3>2
  <2>5. ASSUME e # s + 1 PROVE P[e] - P[s] < share + largest
    <3>1. Even(k)
      BY <1>14
    <3>2. r(k) \in Nat \ {0} /\ s + r(k) <= len /\ Rest(k) = P[len] - P[s]
          /\ (Rest(k) <= share * r(k) \/ len - s = r(k))
          /\ (Rest(k) <= share * r(k) => target(k) <= share)
          /\ target(k) \in Nat
      BY <1>10, <1>11, <3>1
    <3>3. CASE k = count
      <4>1. e = len /\ r(k) = 1
        BY <1>1, <3>3
      <4> HIDE DEF e, s, r, Rest
      <4>2. len - s # r(k) /\ share * r(k) = share
        BY <1>3, <1>9, <2>1, <2>5, <4>1
      <4>3. P[len] - P[s] <= share
        BY <3>2, <4>2
      <4>4. largest >= 1
        <5>1. one(e) >= 1 /\ one(e) \in Nat
          BY <1>8, <2>3
        <5> HIDE DEF one
        <5>2. QED
          BY <1>8, <2>3, <5>1
      <4>5. P[e] - P[s] <= share
        BY <4>1, <4>3
      <4>6. P[e] - P[s] \in Int /\ share \in Int /\ largest \in Int
        BY <1>8, <1>9, <2>3
      <4>7. QED
        BY ONLY <4>4, <4>5, <4>6
    <3>4. CASE k # count
      <4>1. e = f[k + 1]
        BY <3>4
      <4>2. e \in (s + 1) .. (len - (r(k) - 1))
            /\ (e - 1 \in (s + 1) .. (len - (r(k) - 1)) => ~ (P[e - 1] - P[s] >= target(k)))
        BY <1>12, <3>4
      <4> HIDE DEF e, s, r, Rest
      <4>3. e - 1 \in (s + 1) .. (len - (r(k) - 1))
        <5>1. /\ len \in Nat /\ s \in Nat /\ r(k) \in Nat /\ e # s + 1
              /\ e \in (s + 1) .. (len - (r(k) - 1))
          BY <1>3, <2>1, <2>5, <3>2, <4>2
        <5>2. QED
          BY ONLY <5>1
      <4>4. len - s # r(k)
        BY <1>3, <2>1, <3>2, <4>2, <4>3
      <4>5. target(k) <= share /\ ~ (P[e - 1] - P[s] >= target(k))
        BY <3>2, <4>2, <4>3, <4>4
      <4>6. QED
        <5> DEFINE x == P[e - 1]
                   y == P[e]
                   z == P[s]
                   t == target(k)
        <5>1. /\ x \in Nat /\ y \in Nat /\ z \in Nat /\ t \in Nat /\ share \in Nat /\ largest \in Nat
              /\ y - x <= largest /\ t <= share /\ ~ (x - z >= t)
          BY <1>8, <1>9, <2>3, <3>2, <4>5
        <5> HIDE DEF x, y, z, t
        <5>2. y - z < share + largest
          BY ONLY <5>1
        <5>3. QED
          BY <5>2 DEF y, z
    <3>5. QED
      BY <3>3, <3>4
  <2>6. QED
    BY <2>2, <2>4, <2>5
<1>16. Len(ranges) = count
  <2>1. ranges = [k \in 1 .. count |-> [start |-> f[k], end |-> IF k = count THEN len ELSE f[k + 1]]]
    BY <1>2 DEF ShardsFrom, len
  <2>2. QED
    BY <1>1, <2>1
<1>17. ASSUME NEW x \in ToSet(ranges) PROVE Weight(sizes, x.start, x.end) < share + largest
  <2>1. ranges = [k \in 1 .. count |-> [start |-> f[k], end |-> IF k = count THEN len ELSE f[k + 1]]]
    BY <1>2 DEF ShardsFrom, len
  <2>2. PICK k \in 1 .. count : x = [start |-> f[k], end |-> IF k = count THEN len ELSE f[k + 1]]
    BY <2>1 DEF ToSet
  <2>3. x.start = f[k] /\ x.end = IF k = count THEN len ELSE f[k + 1]
    BY <2>2
  <2>4. QED
    BY <1>15, <2>3
<1>18. QED
  BY <1>16, <1>17 DEF ranges, share, largest, len

(* Chunks that carry the given keys.                                       *)
Keyed(chunks, indices) ==
  /\ DOMAIN chunks = DOMAIN indices
  /\ \A k \in DOMAIN indices : chunks[k].key = indices[k]

(* Chunks that carry each of the keys 1 .. n once come out of the sort     *)
(* with chunk c at position c.                                             *)
LEMMA InOrderIs ==
  ASSUME NEW n \in Nat, NEW indices \in Seq(Nat), IsInjective(indices),
         ToSet(indices) = 1 .. n,
         NEW chunks, Keyed(chunks, indices)
  PROVE  /\ DOMAIN chunks = 1 .. n
         /\ \E q \in [1 .. n -> 1 .. n] :
              /\ \A c \in 1 .. n : indices[q[c]] = c
              /\ InOrder(chunks) = [c \in 1 .. n |-> chunks[q[c]]]
<1>1. PICK q \in [1 .. n -> 1 .. n] : \A c \in 1 .. n : indices[q[c]] = c
  BY PermutationIs
<1>2. Len(indices) = n
  BY PermutationIs
<1>3. DOMAIN indices = 1 .. n /\ DOMAIN chunks = 1 .. n
      /\ \A k \in 1 .. n : chunks[k].key = indices[k]
  BY <1>2 DEF Keyed
<1>4. [k \in DOMAIN chunks |-> chunks[k].key] = indices
  <2>1. indices = [k \in 1 .. n |-> indices[k]]
    BY <1>3
  <2>2. \A k \in 1 .. n : chunks[k].key = indices[k]
    BY <1>3
  <2>3. [k \in 1 .. n |-> chunks[k].key] = [k \in 1 .. n |-> indices[k]]
    BY <2>2
  <2>4. QED
    BY <1>3, <2>1, <2>3
<1>5. SortingOrder(indices) = q
  <2>1. \A i, j \in 1 .. n : i < j => indices[q[i]] < indices[q[j]]
    BY <1>1
  <2>2. q \in [1 .. Len(indices) -> 1 .. Len(indices)]
    BY <1>2
  <2>3. QED
    BY <1>2, <2>1, <2>2, SortingOrderIs
<1>6. InOrder(chunks) = [c \in 1 .. n |-> chunks[q[c]]]
  BY <1>3, <1>4, <1>5 DEF InOrder
<1>7. QED
  BY <1>1, <1>3, <1>6

(* The documents of a batch one after the other.                           *)
DocumentsUpto(docs, e) == [i \in 1 .. e |-> DocumentIds(docs, i)]

(* The documents of a range go behind the documents before it.             *)
LEMMA DocumentsUptoAdds ==
  ASSUME NEW docs \in Seq(Document), NEW s \in 0 .. Len(docs), NEW e \in s .. Len(docs)
  PROVE  /\ DocumentsUpto(docs, s) \in Seq(Seq(Token))
         /\ EncodeDocuments(docs, [start |-> s, end |-> e]) \in Seq(Seq(Token))
         /\ DocumentsUpto(docs, s) \o EncodeDocuments(docs, [start |-> s, end |-> e])
              = DocumentsUpto(docs, e)
<1> DEFINE Doc == Seq(Token)
           D == [i \in 1 .. Len(docs) |-> DocumentIds(docs, i)]
           m == e - s
           a == [i \in 1 .. s |-> D[i]]
           b == [k \in 1 .. m |-> D[s + k]]
           c == [i \in 1 .. e |-> D[i]]
<1>1. Len(docs) \in Nat /\ s \in Nat /\ e \in Nat /\ m \in Nat /\ s + m = e /\ e <= Len(docs)
  OBVIOUS
<1>2. D \in [1 .. Len(docs) -> Doc]
  BY DocumentIdsType
<1>3. DocumentsUpto(docs, s) = a /\ DocumentsUpto(docs, e) = c
  BY <1>1 DEF DocumentsUpto
<1>4. EncodeDocuments(docs, [start |-> s, end |-> e]) = b
  <2>1. \A k \in 1 .. m : s + k \in 1 .. Len(docs)
    BY <1>1
  <2>2. QED
    BY <2>1 DEF EncodeDocuments
<1> HIDE DEF D, m, Doc
<1>5. a \in Seq(Doc) /\ Len(a) = s /\ b \in Seq(Doc) /\ Len(b) = m
  <2>1. \A i \in 1 .. s : i \in 1 .. Len(docs)
    BY <1>1
  <2>2. \A k \in 1 .. m : s + k \in 1 .. Len(docs)
    BY <1>1
  <2>3. QED
    BY <1>1, <1>2, <2>1, <2>2
<1>6. a \o b = c
  <2>1. a \o b = [i \in 1 .. s + m |-> IF i <= s THEN a[i] ELSE b[i - s]]
    BY <1>1, <1>5
  <2>2. ASSUME NEW i \in 1 .. e PROVE (IF i <= s THEN a[i] ELSE b[i - s]) = D[i]
    <3>1. CASE i <= s
      BY <1>1, <3>1
    <3>2. CASE ~ (i <= s)
      <4>1. i - s \in 1 .. m /\ s + (i - s) = i
        BY <1>1, <3>2
      <4>2. b[i - s] = D[i]
        BY <4>1
      <4>3. QED
        BY <3>2, <4>2
    <3>3. QED
      BY <3>1, <3>2
  <2>3. QED
    BY <1>1, <2>1, <2>2
<1>7. QED
  BY <1>3, <1>4, <1>5, <1>6 DEF Doc

(* The boundaries of an exact cover.                                       *)
IsBoundary(b, ranges, d) ==
  /\ b \in [0 .. Len(ranges) -> 0 .. d]
  /\ b[0] = 0 /\ b[Len(ranges)] = d
  /\ \A k \in 1 .. Len(ranges) :
       b[k - 1] <= b[k] /\ ranges[k] = [start |-> b[k - 1], end |-> b[k]]

(* An exact cover has boundaries.                                          *)
LEMMA CoverBoundaries ==
  ASSUME NEW ranges \in Seq(Span), NEW d \in Nat, IsExactCover(ranges, d)
  PROVE  \E b : IsBoundary(b, ranges, d)
<1> DEFINE n == Len(ranges)
           b == [k \in 0 .. n |-> IF k = 0 THEN 0 ELSE ranges[k].end]
<1>1. n \in Nat /\ DOMAIN ranges = 1 .. n
  OBVIOUS
<1>2. /\ n > 0 /\ ranges[1].start = 0 /\ ranges[n].end = d
      /\ \A k \in 1 .. n : ranges[k].start < ranges[k].end
      /\ \A k \in 1 .. n - 1 : ranges[k].end = ranges[k + 1].start
  BY <1>1 DEF IsExactCover
<1>3. \A k \in 1 .. n : /\ ranges[k].end \in 0 .. d
                        /\ ranges[k].start \in Nat /\ ranges[k].end \in Nat
                        /\ ranges[k] = [start |-> ranges[k].start, end |-> ranges[k].end]
  <2>1. \A k \in 1 .. n : ranges[k].end \in 0 .. d
    BY CoverShape
  <2>2. QED
    BY <2>1, SpanAt
<1> HIDE DEF n
<1>4. \A k \in 0 .. n : b[k] \in 0 .. d
  <2>1. ASSUME NEW k \in 0 .. n PROVE b[k] \in 0 .. d
    <3>1. CASE k = 0
      BY <3>1
    <3>2. CASE k # 0
      <4>1. k \in 1 .. n /\ b[k] = ranges[k].end
        BY <1>1, <3>2
      <4>2. QED
        BY <1>3, <4>1
    <3>3. QED
      BY <3>1, <3>2
  <2>2. QED
    BY <2>1
<1>5. b[0] = 0 /\ b[n] = d
  BY <1>1, <1>2
<1>6. ASSUME NEW k \in 1 .. n
      PROVE  b[k - 1] <= b[k] /\ ranges[k] = [start |-> b[k - 1], end |-> b[k]]
  <2>1. b[k] = ranges[k].end
    BY <1>1
  <2>2. b[k - 1] = ranges[k].start
    <3>1. CASE k = 1
      BY <1>1, <1>2, <3>1
    <3>2. CASE k # 1
      <4>1. k - 1 \in 1 .. n - 1 /\ (k - 1) + 1 = k /\ k - 1 \in 0 .. n /\ k - 1 # 0
        BY <1>1, <3>2
      <4>2. b[k - 1] = ranges[k - 1].end
        BY <4>1
      <4>3. QED
        BY <1>2, <4>1, <4>2
    <3>3. QED
      BY <3>1, <3>2
  <2> HIDE DEF b
  <2>3. QED
    BY <1>2, <1>3, <2>1, <2>2
<1>7. b \in [0 .. n -> 0 .. d]
  BY <1>4
<1> HIDE DEF b
<1>8. IsBoundary(b, ranges, d)
  BY <1>5, <1>6, <1>7 DEF IsBoundary, n
<1>9. QED
  BY <1>8

(* Range-local batches of an exact cover, put in order, become the batch   *)
(* of every document they cover.                                           *)
LEMMA CoverConcatenatesSurface ==
  ASSUME NEW docs \in Seq(Document), NEW ranges \in Seq(Span), NEW d \in 0 .. Len(docs),
         IsExactCover(ranges, d),
         NEW chunks, DOMAIN InOrder(chunks) = 1 .. Len(ranges),
         \A k \in 1 .. Len(ranges) :
           InOrder(chunks)[k].value = EncodeFlatSurfaceRange(docs, ranges[k])
  PROVE  ConcatenateSurfaceChunks(chunks) = BatchUpto(docs, d)
<1> DEFINE n == Len(ranges)
           cs == InOrder(chunks)
<1>1. n \in Nat /\ d \in Nat /\ Len(docs) \in Nat /\ d <= Len(docs)
  OBVIOUS
<1>2. PICK b : IsBoundary(b, ranges, d)
  BY <1>1, CoverBoundaries
<1>3. b \in [0 .. n -> 0 .. Len(docs)]
  <2>1. b \in [0 .. n -> 0 .. d]
    BY <1>2 DEF IsBoundary
  <2>2. 0 .. d \subseteq 0 .. Len(docs)
    BY <1>1
  <2> HIDE DEF n
  <2>3. QED
    BY <2>1, <2>2
<1>4. /\ b[0] = 0 /\ b[n] = d
      /\ \A k \in 1 .. n : b[k - 1] <= b[k] /\ ranges[k] = [start |-> b[k - 1], end |-> b[k]]
  BY <1>2 DEF IsBoundary
<1>5. InOrder(chunks) = cs /\ DOMAIN cs = 1 .. n
      /\ \A k \in 1 .. n : cs[k].value
           = EncodeFlatSurfaceRange(docs, [start |-> b[k - 1], end |-> b[k]])
  BY <1>4
<1> HIDE DEF n, cs
<1>6. \A k \in 1 .. n : b[k - 1] <= b[k]
  BY <1>4
<1>7. ConcatenateSurfaceChunks(chunks) = BatchUpto(docs, b[n])
  <2>1. b[0] = 0
    BY <1>4
  <2>2. QED
    BY ONLY <1>1, <1>3, <2>1, <1>5, <1>6, docs \in Seq(Document), ConcatenateSurfaceIs
<1>8. QED
  BY <1>4, <1>7

(* Per-document encodings of an exact cover, put in order, are those of    *)
(* every document, in order.                                               *)
LEMMA CoverConcatenatesDocuments ==
  ASSUME NEW docs \in Seq(Document), NEW ranges \in Seq(Span), IsExactCover(ranges, Len(docs)),
         NEW chunks, DOMAIN chunks = 1 .. Len(ranges),
         \A k \in 1 .. Len(ranges) :
           InOrder(chunks)[k].value = EncodeDocuments(docs, ranges[k])
  PROVE  ConcatenateDocuments(chunks) = OrderedDocuments(docs)
<1> DEFINE n == Len(ranges)
           Doc == Seq(Token)
           s == [k \in 1 .. n |-> InOrder(chunks)[k].value]
<1>1. n \in Nat /\ Len(docs) \in Nat
  OBVIOUS
<1>2. PICK b : IsBoundary(b, ranges, Len(docs))
  BY <1>1, CoverBoundaries
<1>3. /\ b \in [0 .. n -> 0 .. Len(docs)] /\ b[0] = 0 /\ b[n] = Len(docs)
      /\ \A k \in 1 .. n : b[k - 1] <= b[k] /\ ranges[k] = [start |-> b[k - 1], end |-> b[k]]
  BY <1>2 DEF IsBoundary
<1> DEFINE f == [k \in 0 .. n |-> DocumentsUpto(docs, b[k])]
<1>4. ASSUME NEW k \in 1 .. n
      PROVE  s[k] \in Seq(Doc) /\ f[k] = f[k - 1] \o s[k]
  <2> DEFINE lo == b[k - 1]
             hi == b[k]
  <2> HIDE DEF n
  <2>1. k - 1 \in 0 .. n /\ k \in 0 .. n
    BY <1>1
  <2>2. lo \in 0 .. Len(docs) /\ hi \in 0 .. Len(docs) /\ lo <= hi
    BY <1>3, <2>1
  <2>3. lo \in 0 .. Len(docs) /\ hi \in lo .. Len(docs)
    <3> HIDE DEF lo, hi
    <3> QED BY <1>1, <2>2
  <2>4. s[k] = EncodeDocuments(docs, [start |-> lo, end |-> hi])
    BY <1>3 DEF n
  <2>5. f[k] = DocumentsUpto(docs, hi) /\ f[k - 1] = DocumentsUpto(docs, lo)
    BY <2>1
  <2> HIDE DEF lo, hi, s, f
  <2>6. /\ EncodeDocuments(docs, [start |-> lo, end |-> hi]) \in Seq(Seq(Token))
        /\ DocumentsUpto(docs, lo) \o EncodeDocuments(docs, [start |-> lo, end |-> hi])
             = DocumentsUpto(docs, hi)
    BY ONLY <2>3, docs \in Seq(Document), DocumentsUptoAdds
  <2>7. QED
    BY <2>4, <2>5, <2>6
<1>5. f[0] = <<>>
  <2>1. f[0] = DocumentsUpto(docs, 0)
    BY <1>1, <1>3
  <2>2. DocumentsUpto(docs, 0) = <<>>
    BY DEF DocumentsUpto
  <2>3. QED
    BY <2>1, <2>2
<1>6. f[n] = OrderedDocuments(docs)
  <2>1. f[n] = DocumentsUpto(docs, Len(docs))
    BY <1>1, <1>3
  <2>2. QED
    BY <2>1 DEF OrderedDocuments, DocumentsUpto
<1>7. s \in Seq(Seq(Doc)) /\ Len(s) = n
  <2>1. \A k \in 1 .. n : s[k] \in Seq(Doc)
    BY <1>4
  <2> HIDE DEF n, Doc
  <2>2. QED
    BY <1>1, <2>1
<1>8. ConcatenateDocuments(chunks) = FlattenSeq(s)
  BY DEF ConcatenateDocuments
<1> HIDE DEF s, f, Doc, n
<1>9. FlattenSeq(s) = f[n]
  <2>1. \A k \in 1 .. Len(s) : f[k] = f[k - 1] \o s[k]
    BY <1>4, <1>7
  <2>2. QED
    BY <1>5, <1>7, <2>1, FlattenIs
<1>10. QED
  BY <1>6, <1>8, <1>9

(* One more document of a batch.                                           *)
LEMMA AppendDocumentIs ==
  ASSUME NEW docs \in Seq(Document), NEW k \in 1 .. Len(docs)
  PROVE  AppendDocument(BatchUpto(docs, k - 1), DocumentIds(docs, k)) = BatchUpto(docs, k)
<1> DEFINE F == OffsetsFrom(docs, 0, k)
           g == OffsetsFrom(docs, 0, k - 1)
<1>1. k \in Nat /\ k - 1 \in Nat /\ Len(docs) \in Nat /\ k - 1 \in 0 .. Len(docs)
      /\ k \in 0 .. Len(docs) /\ (k - 1) + 1 = k
  OBVIOUS
<1>2. IdsUpto(docs, k) = IdsUpto(docs, k - 1) \o DocumentIds(docs, k)
  BY IdsUptoAdds
<1>3. /\ Len(IdsUpto(docs, k - 1)) = TokensUpto(docs, k - 1)
      /\ Len(DocumentIds(docs, k)) = docs[k].tokens
  BY <1>1, IdsUptoAdds, DocumentIdsType
<1>4. /\ TokensUpto(docs, k) = TokensUpto(docs, k - 1) + docs[k].tokens
      /\ TokensUpto(docs, 0) = 0
      /\ \A j \in 0 .. Len(docs) : TokensUpto(docs, j) \in Nat
  BY TokensUptoAdds
<1>5. F \in [1 .. k + 1 -> Int] /\ F[k + 1] = TokensUpto(docs, k)
      /\ \A j \in 1 .. k + 1 : F[j] = TokensUpto(docs, 0 + j - 1) - TokensUpto(docs, 0)
  <2>1. \A j \in 1 .. k + 1 : 0 + j - 1 \in 0 .. Len(docs)
    BY <1>1
  <2>2. 0 + (k + 1) - 1 = k /\ k + 1 \in 1 .. k + 1
    BY <1>1
  <2>3. \A j \in 1 .. k + 1 : F[j] = TokensUpto(docs, 0 + j - 1) - TokensUpto(docs, 0)
    BY DEF OffsetsFrom
  <2>4. F[k + 1] = TokensUpto(docs, k) - TokensUpto(docs, 0)
    BY <2>2, <2>3
  <2>5. F \in [1 .. k + 1 -> Int]
    BY <1>4, <2>1 DEF OffsetsFrom
  <2>6. QED
    BY <1>1, <1>4, <2>3, <2>4, <2>5
<1>6. g \in Seq(Int) /\ Len(g) = k
  <2>1. k - 1 \in 0 .. Len(docs) - 0
    BY <1>1
  <2>2. QED
    BY <1>1, <2>1, OffsetsType
<1>7. \A j \in 1 .. k : g[j] = F[j]
  <2>1. \A j \in 1 .. k : g[j] = TokensUpto(docs, 0 + j - 1) - TokensUpto(docs, 0)
    BY <1>1 DEF OffsetsFrom
  <2>2. \A j \in 1 .. k : j \in 1 .. k + 1
    BY <1>1
  <2> HIDE DEF F, g
  <2>3. QED
    BY <1>5, <2>1, <2>2
<1> HIDE DEF F, g
<1>8. Append(g, F[k + 1]) = F
  BY <1>1, <1>5, <1>6, <1>7, AppendIs
<1>9. Len(IdsUpto(docs, k - 1)) + Len(DocumentIds(docs, k)) = F[k + 1]
  BY <1>3, <1>4, <1>5
<1>10. QED
  BY <1>2, <1>8, <1>9 DEF AppendDocument, BatchUpto, F, g

(* Appending every document in turn gives the batch of all of them.        *)
LEMMA AppendingAllIs ==
  ASSUME NEW docs \in Seq(Document)
  PROVE  FoldLeft(AppendDocument, EmptyBatch, OrderedDocuments(docs))
           = BatchUpto(docs, Len(docs))
<1> DEFINE n == Len(docs)
           D == OrderedDocuments(docs)
           Step == [x \in Batch \X (1 .. n) |-> AppendDocument(x[1], D[x[2]])]
           f == [k \in 0 .. n |-> BatchUpto(docs, k)]
<1>1. n \in Nat /\ DOMAIN docs = 1 .. n
  OBVIOUS
<1>2. DOMAIN D = 1 .. n /\ \A k \in 1 .. n : D[k] = DocumentIds(docs, k) /\ D[k] \in Seq(Token)
  BY <1>1, DocumentIdsType DEF OrderedDocuments
<1>3. EmptyBatch \in Batch
  BY DEF EmptyBatch, Batch
<1>4. \A k \in 0 .. n : f[k] \in Batch
  BY BatchUptoType
<1>5. f[0] = EmptyBatch /\ f[n] = BatchUpto(docs, n)
  BY <1>1, NoDocuments
<1>6. ASSUME NEW k \in 1 .. n PROVE f[k] = AppendDocument(f[k - 1], D[k])
  <2>1. k \in 0 .. n /\ k - 1 \in 0 .. n
    BY <1>1
  <2>2. f[k] = BatchUpto(docs, k) /\ f[k - 1] = BatchUpto(docs, k - 1)
    BY <2>1
  <2> HIDE DEF f, D
  <2>3. QED
    BY <1>2, <2>2, AppendDocumentIs
<1> HIDE DEF D
<1>7. Step \in [Batch \X (1 .. n) -> Batch]
  <2>1. ASSUME NEW batch \in Batch, NEW k \in 1 .. n PROVE AppendDocument(batch, D[k]) \in Batch
    <3>1. batch.ids \in Seq(Token) /\ batch.offsets \in Seq(Int) /\ D[k] \in Seq(Token)
      BY <1>2 DEF Batch
    <3>2. batch.ids \o D[k] \in Seq(Token)
      BY <3>1
    <3>3. Append(batch.offsets, Len(batch.ids) + Len(D[k])) \in Seq(Int)
      BY <3>1
    <3>4. QED
      BY <3>2, <3>3 DEF AppendDocument, Batch
  <2>2. QED
    BY <2>1
<1> DEFINE Law(it) == it = [t \in SUBSET (1 .. n) |->
                             IF t = {} THEN EmptyBatch
                             ELSE AppendDocument(it[t \ {Max(t)}], D[Max(t)])]
<1> HIDE DEF n
<1>8. \E it : Law(it)
  <2>1. PICK it \in [SUBSET (1 .. n) -> Batch] :
          /\ it = [t \in SUBSET (1 .. n) |->
                    IF t = {} THEN EmptyBatch ELSE Step[<<it[t \ {Max(t)}], Max(t)>>]]
          /\ \A t \in SUBSET (1 .. n) : t # {} => it[t \ {Max(t)}] \in Batch /\ Max(t) \in 1 .. n
    <3> HIDE DEF Step
    <3> QED BY <1>1, <1>3, <1>7, FoldLaw
  <2>2. \A t \in SUBSET (1 .. n) :
          t # {} => Step[<<it[t \ {Max(t)}], Max(t)>>] = AppendDocument(it[t \ {Max(t)}], D[Max(t)])
    BY <2>1
  <2> HIDE DEF Step
  <2>3. Law(it)
    BY <2>1, <2>2
  <2>4. QED
    BY <2>3
<1> DEFINE it == CHOOSE it : Law(it)
<1>9. Law(it)
  <2> HIDE DEF Law
  <2> QED BY <1>8
<1>10. FoldLeft(AppendDocument, EmptyBatch, D) = it[1 .. n]
  BY <1>2 DEF FoldLeft, MapThenFoldSet
<1> HIDE DEF it
<1>11. /\ it[{}] = EmptyBatch
       /\ \A t \in SUBSET (1 .. n) : t # {} => it[t] = AppendDocument(it[t \ {Max(t)}], D[Max(t)])
  BY <1>9
<1>12. it[1 .. n] = f[n]
  <2>1. ASSUME NEW k \in 1 .. n, Max(1 .. k) = k, (1 .. k) \ {k} = 1 .. k - 1,
               1 .. k \in SUBSET (1 .. n), 1 .. k # {}, it[1 .. k - 1] = f[k - 1]
        PROVE  it[1 .. k] = f[k]
    <3> HIDE DEF f, Law, Step
    <3>1. it[1 .. k] = AppendDocument(it[(1 .. k) \ {Max(1 .. k)}], D[Max(1 .. k)])
      BY <1>11, <2>1
    <3>2. it[1 .. k] = AppendDocument(f[k - 1], D[k])
      BY <2>1, <3>1
    <3>3. QED
      BY <1>6, <3>2
  <2>2. it[{}] = f[0]
    BY <1>5, <1>11
  <2> HIDE DEF f, Law, Step
  <2>3. InStep(it, f, n)
    BY <2>1 DEF InStep
  <2>4. QED
    BY ONLY <2>3, <2>2, <1>1, FoldEnds
<1>13. QED
  BY <1>5, <1>10, <1>12 DEF n, D

(* Per-document encodings of an exact cover become the batch of all.       *)
LEMMA CoverConcatenatesTraining ==
  ASSUME NEW docs \in Seq(Document), NEW ranges \in Seq(Span), IsExactCover(ranges, Len(docs)),
         NEW chunks, DOMAIN chunks = 1 .. Len(ranges),
         \A k \in 1 .. Len(ranges) :
           InOrder(chunks)[k].value = EncodeDocuments(docs, ranges[k])
  PROVE  ConcatenateTrainingChunks(chunks) = OrderedEncoding(docs)
<1>1. ConcatenateTrainingChunks(chunks)
        = FoldLeft(AppendDocument, EmptyBatch, ConcatenateDocuments(chunks))
  BY DEF ConcatenateTrainingChunks, ConcatenateDocuments
<1>2. ConcatenateDocuments(chunks) = OrderedDocuments(docs)
  BY CoverConcatenatesDocuments
<1>3. FoldLeft(AppendDocument, EmptyBatch, OrderedDocuments(docs)) = BatchUpto(docs, Len(docs))
  BY AppendingAllIs
<1>4. SubSeq(docs, 1, Len(docs)) = docs /\ Len(docs) \in 0 .. Len(docs)
  OBVIOUS
<1>5. QED
  BY <1>1, <1>2, <1>3, <1>4, OrderedEncodingIs

(* The whole batch in one range.                                           *)
LEMMA WholeIs ==
  ASSUME NEW docs \in Seq(Document)
  PROVE  LET whole == [start |-> 0, end |-> Len(docs)]
         IN  /\ EncodeFlatSurfaceRange(docs, whole) = OrderedEncoding(docs)
             /\ EncodeDocuments(docs, whole) = OrderedDocuments(docs)
             /\ docs # <<>> =>
                  ConcatenateTrainingChunks(
                    <<[key |-> 0, value |-> EncodeDocuments(docs, whole)]>>) = OrderedEncoding(docs)
<1> DEFINE n == Len(docs)
           whole == [start |-> 0, end |-> n]
           local == EncodeFlatSurfaceRange(docs, whole)
           chunks == <<[key |-> 0, value |-> EncodeDocuments(docs, whole)]>>
<1>1. n \in Nat /\ 0 \in 0 .. n /\ n \in 0 .. n /\ DOMAIN docs = 1 .. n /\ SubSeq(docs, 1, n) = docs
  OBVIOUS
<1>2. OrderedEncoding(docs) = BatchUpto(docs, n)
  BY <1>1, OrderedEncodingIs
<1>3. local = OrderedEncoding(docs)
  <2>1. PICK acc \in [0 .. n - 0 -> Batch] : local = acc[n - 0]
    <3>1. whole \in [start : Nat, end : Nat] /\ whole.start <= whole.end /\ whole.end <= Len(docs)
          /\ whole.start = 0 /\ whole.end = n
      BY <1>1
    <3> HIDE DEF whole
    <3>2. \E acc \in [0 .. whole.end - whole.start -> Batch] :
            EncodeFlatSurfaceRange(docs, whole) = acc[whole.end - whole.start]
      BY <3>1, EncodeRangeFolds
    <3>3. QED
      BY <3>1, <3>2
  <2>2. local \in Batch
    <3> HIDE DEF local, n
    <3>1. n - 0 \in 0 .. n - 0
      BY <1>1
    <3>2. QED
      BY <2>1, <3>1
  <2>3. /\ local.ids \in Seq(Token) /\ IdsUpto(docs, 0) \o local.ids = IdsUpto(docs, n)
        /\ local.offsets = OffsetsFrom(docs, 0, n)
    <3>1. whole \in [start : Nat, end : Nat] /\ whole.start <= whole.end /\ whole.end <= Len(docs)
          /\ whole.start = 0 /\ whole.end = n /\ n - 0 = n
      BY <1>1
    <3> HIDE DEF whole
    <3>2. QED
      BY <3>1, EncodeRangeIs
  <2>4. IdsUpto(docs, 0) = <<>>
    BY IdsUptoAdds
  <2> HIDE DEF local
  <2>5. local.ids = IdsUpto(docs, n)
    <3>1. \A t \in Seq(Token) : <<>> \o t = t
      OBVIOUS
    <3>2. QED
      BY <2>3, <2>4, <3>1
  <2>6. QED
    BY <1>2, <2>2, <2>3, <2>5 DEF Batch, BatchUpto
<1>4. EncodeDocuments(docs, whole) = OrderedDocuments(docs)
  <2>1. n - 0 = n /\ \A k \in 1 .. n : 0 + k = k
    BY <1>1
  <2>2. QED
    BY <1>1, <2>1 DEF EncodeDocuments, OrderedDocuments
<1>5. ASSUME docs # <<>> PROVE ConcatenateTrainingChunks(chunks) = OrderedEncoding(docs)
  <2>1. n # 0
    BY <1>5
  <2> HIDE DEF n
  <2>2. <<whole>> \in Seq(Span) /\ Len(<<whole>>) = 1 /\ <<whole>>[1] = whole
    BY <1>1 DEF Span
  <2>3. IsExactCover(<<whole>>, n)
    BY <1>1, <2>1, <2>2 DEF IsExactCover
  <2>4. DOMAIN chunks = 1 .. 1 /\ chunks[1].value = EncodeDocuments(docs, whole) /\ chunks[1].key = 0
    OBVIOUS
  <2>5. InOrder(chunks)[1] = chunks[1]
    <3> DEFINE keys == [k \in DOMAIN chunks |-> chunks[k].key]
    <3>1. keys = <<0>> /\ keys \in Seq(Nat) /\ Len(keys) = 1
      <4> HIDE DEF chunks
      <4>1. keys = [k \in 1 .. 1 |-> 0]
        BY <2>4
      <4>2. QED
        BY <4>1
    <3>2. SortingOrder(keys) \in [1 .. 1 -> 1 .. 1]
      BY <3>1, SortingOrderSorts DEF IsSorting
    <3>3. SortingOrder(keys)[1] = 1
      BY <3>2
    <3> HIDE DEF chunks
    <3>4. QED
      BY <2>4, <3>3 DEF InOrder
  <2> HIDE DEF chunks, whole
  <2>6. \A k \in 1 .. Len(<<whole>>) : InOrder(chunks)[k].value = EncodeDocuments(docs, <<whole>>[k])
    BY <2>2, <2>4, <2>5
  <2>7. DOMAIN chunks = 1 .. Len(<<whole>>)
    BY <2>2, <2>4
  <2>8. QED
    BY <2>2, <2>3, <2>6, <2>7, CoverConcatenatesTraining DEF n
<1>6. QED
  BY <1>3, <1>4, <1>5

-----------------------------------------------------------------------------
(* Where the calling thread is in its scope bounds what the workers may be *)
(* doing, and the verdict is that of a worker: "ok" of all of them, an     *)
(* error of the one joined last, a panic of one that terminated by it.     *)
ScopeShape ==
  /\ scope \in {"none", "closed"} => \A w \in Worker : status[w] # "running"
  /\ \A w \in Worker : w > spawned => status[w] = "none"
  /\ \A w \in Worker : w <= spawned => status[w] # "none"
  /\ scope = "spawning" => spawned < workerCount /\ joined = 0
  /\ scope \in {"joining", "draining", "closed"} => spawned = workerCount
  /\ scope = "joining" => joined < workerCount
  /\ scope \in {"spawning", "joining", "none"} <=> verdict = "pending"
  /\ scope # "none" => workerCount > 0
  /\ \A w \in 1 .. joined : w < joined \/ scope = "joining" => status[w] = "ok"
  /\ verdict = "ok" => joined = workerCount /\ workerCount > 0
                       /\ \A w \in 1 .. workerCount : status[w] = "ok"
  /\ verdict \in {"err", "panicked"} => joined \in Worker /\ status[joined] = verdict
  /\ verdict = "unwind" => \E w \in Worker : status[w] = "panicked"

(* No scope, and a scope just opened, have the shape.                      *)
LEMMA NoScopeShape == NoScope => ScopeTypeOK /\ ScopeShape
BY WorkersAssumption DEF NoScope, ScopeTypeOK, ScopeShape, Worker

(* Leaving a scope leaves none open.                                       *)
LEMMA ForgetScopeShape == ForgetScope => NoScope'
BY DEF ForgetScope, SetScope, NoScope, Worker

(* A scope opens with its threads spawned and none joined.                 *)
LEMMA OpenScopeShape ==
  ASSUME NEW workers \in 1 .. Workers, OpenScope(workers)
  PROVE  ScopeTypeOK' /\ ScopeShape' /\ scope' = "spawning"
BY WorkersAssumption DEF OpenScope, SetScope, ScopeTypeOK, ScopeShape, Worker

(* A step of the calling thread inside the scope: no worker's status       *)
(* changes but that of a worker it spawns.                                 *)
LEMMA ScopeStepShape ==
  ASSUME ScopeTypeOK, ScopeShape, ScopeStep
  PROVE  /\ ScopeTypeOK' /\ ScopeShape'
         /\ scope \notin {"none", "closed"} /\ workerCount > 0 /\ UNCHANGED workerCount
         /\ \A w \in Worker : status'[w] # status[w] => status[w] = "none" /\ status'[w] = "running"
<1> USE WorkersAssumption
<1>1. scope \notin {"none", "closed"} /\ workerCount > 0
  BY DEF ScopeShape, ScopeStep, Spawn, Join, CloseScope
<1>2. /\ workerCount \in Nat /\ workerCount <= Workers /\ Workers \in Nat
      /\ spawned \in Nat /\ spawned <= workerCount
      /\ joined \in Nat /\ joined <= spawned
      /\ status \in [Worker -> {"none", "running"} \union Terminated]
      /\ verdict \in {"pending", "ok", "err", "panicked", "unwind"}
  BY DEF ScopeTypeOK
<1>3. ASSUME Spawn
      PROVE  /\ ScopeTypeOK' /\ ScopeShape' /\ UNCHANGED workerCount
             /\ \A w \in Worker : status'[w] # status[w]
                  => status[w] = "none" /\ status'[w] = "running"
  <2>1. /\ spawned + 1 \in Worker /\ spawned < workerCount /\ joined = 0
        /\ verdict = "pending" /\ scope = "spawning"
    BY <1>2, <1>3 DEF Spawn, ScopeShape, Worker
  <2>2. \A w \in Worker : status'[w] = IF w = spawned + 1 THEN "running" ELSE status[w]
    BY <1>2, <1>3, <2>1 DEF Spawn
  <2>3. status[spawned + 1] = "none"
    BY <1>2, <2>1 DEF ScopeShape
  <2>4. ScopeTypeOK'
    BY <1>2, <1>3, <2>1 DEF Spawn, ScopeTypeOK
  <2>5. ScopeShape'
    BY <1>1, <1>2, <1>3, <2>1, <2>2 DEF Spawn, ScopeShape, Worker
  <2>6. QED
    BY <1>3, <2>2, <2>3, <2>4, <2>5 DEF Spawn
<1>4. ASSUME Join
      PROVE  ScopeTypeOK' /\ ScopeShape' /\ UNCHANGED <<workerCount, status>>
  <2>1. /\ joined + 1 \in Worker /\ joined < workerCount /\ spawned = workerCount
        /\ verdict = "pending" /\ scope = "joining"
    BY <1>2, <1>4 DEF Join, ScopeShape, Worker
  <2>2. \A w \in 1 .. joined : status[w] = "ok"
    BY <2>1 DEF ScopeShape
  <2>3. UNCHANGED <<workerCount, status, spawned>> /\ joined' = joined + 1
    BY <1>4 DEF Join
  <2>4. CASE status[joined + 1] = "ok" /\ joined + 1 = workerCount
    BY <1>1, <1>2, <1>4, <2>1, <2>2, <2>3, <2>4 DEF Join, ScopeShape, ScopeTypeOK, Worker
  <2>5. CASE status[joined + 1] = "ok" /\ joined + 1 # workerCount
    BY <1>1, <1>2, <1>4, <2>1, <2>2, <2>3, <2>5 DEF Join, ScopeShape, ScopeTypeOK, Worker
  <2>6. CASE status[joined + 1] # "ok"
    <3>1. scope' = "draining" /\ verdict' = status[joined + 1] /\ verdict' \in {"err", "panicked"}
      BY <1>4, <2>6 DEF Join, Terminated
    <3>2. ScopeTypeOK'
      BY <1>2, <2>1, <2>3, <3>1 DEF ScopeTypeOK
    <3>3. ScopeShape'
      BY <1>1, <1>2, <2>1, <2>2, <2>3, <3>1 DEF ScopeShape, Worker
    <3>4. QED
      BY <2>3, <3>2, <3>3
  <2>7. QED
    BY <2>4, <2>5, <2>6, <2>3
<1>5. ASSUME CloseScope
      PROVE  ScopeTypeOK' /\ ScopeShape' /\ UNCHANGED <<workerCount, status>>
  <2>1. /\ spawned = workerCount /\ scope = "draining" /\ scope' = "closed"
        /\ UNCHANGED <<workerCount, status, spawned, joined>>
        /\ verdict # "pending"
    BY <1>5 DEF CloseScope, ScopeShape
  <2>2. \A w \in Worker : status[w] # "running"
    <3>1. \A w \in 1 .. spawned : status[w] \in Terminated
      BY <1>5 DEF CloseScope
    <3>2. \A w \in Worker : w > spawned => status[w] = "none"
      BY DEF ScopeShape
    <3>3. QED
      BY <1>2, <3>1, <3>2 DEF Worker, Terminated
  <2>3. verdict' = verdict \/ (verdict' = "unwind" /\ \E w \in Worker : status[w] = "panicked")
    <3>1. (joined + 1) .. workerCount \subseteq Worker
      BY <1>2 DEF Worker
    <3>2. QED
      BY <1>5, <3>1 DEF CloseScope
  <2>4. ScopeTypeOK'
    BY <1>2, <2>1, <2>3 DEF ScopeTypeOK
  <2>5. ScopeShape'
    BY <1>1, <1>2, <2>1, <2>2, <2>3 DEF ScopeShape
  <2>6. QED
    BY <2>1, <2>4, <2>5
<1>6. QED
  BY <1>1, <1>3, <1>4, <1>5 DEF ScopeStep

(* A running worker was spawned and is not joined; the scope is open.      *)
LEMMA WorkerRuns ==
  ASSUME ScopeTypeOK, ScopeShape, NEW w \in Worker, status[w] = "running"
  PROVE  /\ w <= spawned /\ w \in Nat
         /\ verdict # "ok"
         /\ \A v \in 1 .. joined : v < joined \/ scope = "joining" => v # w
         /\ scope \notin {"none", "closed"}
         /\ verdict \in {"err", "panicked"} => joined # w
<1>1. scope \notin {"none", "closed"}
  BY DEF ScopeShape
<1>2. w \in Nat /\ workerCount \in Nat /\ spawned \in Nat /\ spawned <= workerCount
  BY WorkersAssumption DEF ScopeTypeOK, Worker
<1>3. ~ (w > spawned)
  BY DEF ScopeShape
<1>4. verdict = "ok" => workerCount = spawned
  <2>1. scope \in {"spawning", "joining", "draining"}
    BY <1>1 DEF ScopeTypeOK
  <2>2. QED
    BY <2>1 DEF ScopeShape
<1>5. verdict # "ok"
  BY <1>2, <1>3, <1>4, WorkersAssumption DEF ScopeShape, Worker
<1>6. QED
  BY <1>1, <1>2, <1>3, <1>5 DEF ScopeShape

(* Ending a running worker keeps the shape of the scope.                   *)
LEMMA FinishShape ==
  ASSUME ScopeTypeOK, ScopeShape, NEW w \in Worker, status[w] = "running",
         NEW how \in Terminated, Finish(w, how)
  PROVE  /\ ScopeTypeOK' /\ ScopeShape'
         /\ \A v \in Worker : status'[v] = IF v = w THEN how ELSE status[v]
         /\ UNCHANGED <<workerCount, spawned, joined, scope, verdict>>
<1>1. /\ status' \in [Worker -> {"none", "running"} \union Terminated]
      /\ \A v \in Worker : status'[v] = IF v = w THEN how ELSE status[v]
      /\ UNCHANGED <<workerCount, spawned, joined, scope, verdict>>
  BY DEF Finish, ScopeTypeOK
<1>2. ScopeTypeOK'
  BY <1>1 DEF ScopeTypeOK
<1>3. joined \in Nat /\ spawned \in Nat /\ joined <= spawned /\ spawned <= Workers
      /\ workerCount \in Nat
  BY WorkersAssumption DEF ScopeTypeOK
<1>4. /\ w <= spawned /\ w \in Nat /\ verdict # "ok"
      /\ \A v \in 1 .. joined : v < joined \/ scope = "joining" => v # w
      /\ scope \notin {"none", "closed"}
      /\ verdict \in {"err", "panicked"} => joined # w
  BY WorkerRuns
<1>5. \A v \in Worker : v > spawned => status'[v] = "none"
  BY <1>1, <1>3, <1>4 DEF ScopeShape, Worker
<1>6. \A v \in 1 .. joined : v < joined \/ scope = "joining" => status'[v] = "ok"
  <2>1. \A v \in 1 .. joined : v \in Worker
    BY <1>3, WorkersAssumption DEF Worker
  <2>2. QED
    BY <1>1, <1>4, <2>1 DEF ScopeShape
<1>7. \A v \in Worker : v <= spawned => status'[v] # "none"
  BY <1>1 DEF ScopeShape, Terminated
<1>8. verdict \in {"err", "panicked"} => joined \in Worker /\ status'[joined] = verdict
  BY <1>1, <1>4 DEF ScopeShape
<1>9. verdict = "unwind" => \E v \in Worker : status'[v] = "panicked"
  <2>1. ASSUME NEW v \in Worker, status[v] = "panicked" PROVE status'[v] = "panicked"
    BY <1>1, <2>1
  <2>2. QED
    BY <2>1 DEF ScopeShape
<1>10. ScopeShape'
  BY <1>1, <1>4, <1>5, <1>6, <1>7, <1>8, <1>9 DEF ScopeShape
<1>11. QED
  BY <1>1, <1>2, <1>10
=============================================================================
