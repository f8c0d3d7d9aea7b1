--------------------------- MODULE CodeModeProofs ---------------------------
(***************************************************************************)
(* Proofs, for every document, limit and vocabulary, that what a worker    *)
(* retains in Code mode is what the bytes it is filed under encode to,     *)
(* and that a replay answers as an encoder without history would; and      *)
(* where the flat and the rich segmentation of a document may differ.      *)
(***************************************************************************)
EXTENDS CodeProgramCache, FlatRichParity, TokenizerLemmas

(* Sequences with the same members in the same places are equal.           *)
LEMMA SameMembers ==
  ASSUME NEW S, NEW T, NEW s \in Seq(S), NEW t \in Seq(T), Len(s) = Len(t),
         \A k \in 1 .. Len(s) : s[k] = t[k]
  PROVE  s = t
<1>1. s = [k \in 1 .. Len(s) |-> s[k]]
  OBVIOUS
<1>2. t = [k \in 1 .. Len(t) |-> t[k]]
  OBVIOUS
<1>3. QED
  BY <1>1, <1>2

(* The members of a join, and a sequence that has them is the join.        *)
LEMMA JoinMembers ==
  ASSUME NEW T, NEW x \in Seq(T), NEW y \in Seq(T)
  PROVE  /\ x \o y \in Seq(T) /\ Len(x \o y) = Len(x) + Len(y)
         /\ Len(x) \in Nat /\ Len(y) \in Nat
         /\ \A j \in 1 .. Len(x) : (x \o y)[j] = x[j]
         /\ \A j \in 1 .. Len(y) : (x \o y)[Len(x) + j] = y[j]
         /\ \A j \in 1 .. Len(x) + Len(y) :
              j \in 1 .. Len(x) \/ \E i \in 1 .. Len(y) : j = Len(x) + i
<1>1. /\ x \o y \in Seq(T) /\ Len(x \o y) = Len(x) + Len(y)
      /\ Len(x) \in Nat /\ Len(y) \in Nat
  OBVIOUS
<1>2. \A j \in 1 .. Len(x) : (x \o y)[j] = x[j]
  OBVIOUS
<1>3. \A j \in 1 .. Len(y) : (x \o y)[Len(x) + j] = y[j]
  OBVIOUS
<1>4. ASSUME NEW j \in 1 .. Len(x) + Len(y)
      PROVE  j \in 1 .. Len(x) \/ \E i \in 1 .. Len(y) : j = Len(x) + i
  <2>1. j \notin 1 .. Len(x) => j - Len(x) \in 1 .. Len(y) /\ j = Len(x) + (j - Len(x))
    BY <1>1
  <2>2. QED
    BY <2>1
<1>5. QED
  BY <1>1, <1>2, <1>3, <1>4

Joins(x, y, z) ==
  /\ Len(z) = Len(x) + Len(y)
  /\ \A j \in 1 .. Len(x) : z[j] = x[j]
  /\ \A j \in 1 .. Len(y) : z[Len(x) + j] = y[j]

(* A sequence with the members of a join is the join.                      *)
LEMMA JoinIs ==
  ASSUME NEW T, NEW x \in Seq(T), NEW y \in Seq(T), NEW z \in Seq(T), Joins(x, y, z)
  PROVE  z = x \o y
<1> USE DEF Joins
<1> DEFINE c == x \o y
<1>1. /\ c \in Seq(T) /\ Len(c) = Len(x) + Len(y)
      /\ \A j \in 1 .. Len(x) : c[j] = x[j]
      /\ \A j \in 1 .. Len(y) : c[Len(x) + j] = y[j]
      /\ \A j \in 1 .. Len(x) + Len(y) :
           j \in 1 .. Len(x) \/ \E i \in 1 .. Len(y) : j = Len(x) + i
  BY JoinMembers
<1> HIDE DEF c
<1>2. ASSUME NEW j \in 1 .. Len(z) PROVE z[j] = c[j]
  <2>1. CASE j \in 1 .. Len(x)
    BY <1>1, <2>1
  <2>2. CASE \E i \in 1 .. Len(y) : j = Len(x) + i
    BY <1>1, <2>2
  <2>3. QED
    BY <1>1, <2>1, <2>2
<1>3. z = c
  BY <1>1, <1>2, SameMembers
<1>4. QED
  BY <1>3 DEF c

(* The members of a set of positions, each once and in ascending order.    *)
Enumerates(s, B) ==
  /\ s \in Seq(Nat)
  /\ \A j, k \in 1 .. Len(s) : j < k => s[j] < s[k]
  /\ \A k \in 1 .. Len(s) : s[k] \in B
  /\ \A i \in B : \E k \in 1 .. Len(s) : s[k] = i

(* One more member, above all others.                                      *)
LEMMA EnumerateOneMore ==
  ASSUME NEW n \in Nat, NEW B \in SUBSET (1 .. n), NEW s, Enumerates(s, B)
  PROVE  Enumerates(Append(s, n + 1), B \union {n + 1})
<1>1. /\ s \in Seq(Nat) /\ Len(s) \in Nat
      /\ \A j, k \in 1 .. Len(s) : j < k => s[j] < s[k]
      /\ \A k \in 1 .. Len(s) : s[k] \in B
      /\ \A i \in B : \E k \in 1 .. Len(s) : s[k] = i
  BY DEF Enumerates
<1> DEFINE m == Len(s)
           t == Append(s, n + 1)
<1>2. /\ t \in Seq(Nat) /\ Len(t) = m + 1 /\ t[m + 1] = n + 1
      /\ \A k \in 1 .. m : t[k] = s[k]
  BY <1>1
<1>3. \A k \in 1 .. m + 1 : k \in 1 .. m \/ k = m + 1
  BY <1>1
<1>4. m \in Nat /\ m + 1 \in 1 .. m + 1 /\ \A k \in 1 .. m : k \in 1 .. m + 1
  BY <1>1
<1> HIDE DEF t, m
<1>5. \A k \in 1 .. m + 1 : t[k] \in B \union {n + 1}
  BY <1>1, <1>2, <1>3 DEF m
<1>6. \A i \in B \union {n + 1} : \E k \in 1 .. m + 1 : t[k] = i
  <2> SUFFICES ASSUME NEW i \in B \union {n + 1} PROVE \E k \in 1 .. m + 1 : t[k] = i
    OBVIOUS
  <2>1. CASE i \in B
    BY <1>1, <1>2, <1>4, <2>1 DEF m
  <2>2. CASE i = n + 1
    BY <1>2, <1>4, <2>2
  <2>3. QED
    BY <2>1, <2>2
<1>7. \A j, k \in 1 .. m + 1 : j < k => t[j] < t[k]
  <2> SUFFICES ASSUME NEW j \in 1 .. m + 1, NEW k \in 1 .. m + 1, j < k PROVE t[j] < t[k]
    OBVIOUS
  <2>1. j \in 1 .. m
    BY <1>4
  <2>2. t[j] = s[j] /\ s[j] \in 1 .. n
    BY <1>1, <1>2, <2>1 DEF m
  <2>3. CASE k = m + 1
    BY <1>2, <2>2, <2>3
  <2>4. CASE k \in 1 .. m
    BY <1>1, <1>2, <2>1, <2>4 DEF m
  <2>5. QED
    BY <1>3, <2>3, <2>4
<1>8. QED
  BY <1>2, <1>5, <1>6, <1>7 DEF Enumerates, t

(* Ascending is that enumeration.                                          *)
LEMMA AscendingIs ==
  ASSUME NEW n \in Nat, NEW B \in SUBSET (1 .. n)
  PROVE  Enumerates(Ascending(B, n), B)
<1> DEFINE Law(f) == f = [i \in 0 .. n |->
                            IF i = 0 THEN <<>> ELSE IF i \in B THEN Append(f[i - 1], i) ELSE f[i - 1]]
           Step == [x \in Seq(Nat) \X (1 .. n) |-> IF x[2] \in B THEN Append(x[1], x[2]) ELSE x[1]]
<1>1. \E f : Law(f)
  <2>1. Step \in [Seq(Nat) \X (1 .. n) -> Seq(Nat)]
    <3>1. ASSUME NEW x \in Seq(Nat) \X (1 .. n)
          PROVE  (IF x[2] \in B THEN Append(x[1], x[2]) ELSE x[1]) \in Seq(Nat)
      <4>1. x[1] \in Seq(Nat) /\ x[2] \in Nat
        OBVIOUS
      <4>2. QED
        BY <4>1
    <3>2. QED
      BY <3>1
  <2>2. <<>> \in Seq(Nat)
    OBVIOUS
  <2>3. PICK h : IsRecursion(h, n, Seq(Nat), <<>>, Step)
    <3> HIDE DEF Step
    <3> QED BY <2>1, <2>2, RecursionExists
  <2>4. /\ h \in [0 .. n -> Seq(Nat)] /\ h[0] = <<>>
        /\ \A k \in 1 .. n : h[k] = Step[<<h[k - 1], k>>]
    BY <2>3 DEF IsRecursion
  <2>5. \A k \in 1 .. n : h[k] = IF k \in B THEN Append(h[k - 1], k) ELSE h[k - 1]
    <3>1. \A k \in 1 .. n : k - 1 \in 0 .. n
      OBVIOUS
    <3>2. \A k \in 1 .. n : h[k - 1] \in Seq(Nat)
      BY <2>4, <3>1
    <3>3. QED
      BY <2>4, <3>2
  <2>6. Law(h)
    <3>1. \A i \in 0 .. n :
            h[i] = IF i = 0 THEN <<>> ELSE IF i \in B THEN Append(h[i - 1], i) ELSE h[i - 1]
      <4>1. h[0] = <<>> /\ \A i \in 0 .. n : i = 0 \/ (i \in 1 .. n /\ i # 0)
        BY <2>4
      <4> HIDE DEF Step
      <4>2. QED
        BY ONLY <4>1, <2>5
    <3>2. h = [i \in 0 .. n |-> h[i]]
      BY <2>4
    <3>3. QED
      BY <3>1, <3>2
  <2> HIDE DEF Law
  <2>7. QED
    BY <2>6
<1> DEFINE f == CHOOSE f : Law(f)
<1>2. Law(f)
  <2> HIDE DEF Law
  <2> QED BY <1>1
<1>3. Ascending(B, n) = f[n]
  BY DEF Ascending
<1> HIDE DEF f, Step
<1>4. \A i \in 0 .. n :
        f[i] = IF i = 0 THEN <<>> ELSE IF i \in B THEN Append(f[i - 1], i) ELSE f[i - 1]
  BY <1>2
<1> HIDE DEF Law
<1> DEFINE Upto(i) == B \intersect (1 .. i)
           S == {i \in Nat : i <= n => Enumerates(f[i], Upto(i))}
<1>5. 0 \in S
  <2>1. f[0] = <<>> /\ Upto(0) = {}
    BY <1>4
  <2>2. Enumerates(<<>>, {})
    BY DEF Enumerates
  <2>3. QED
    BY <2>1, <2>2
<1>6. ASSUME NEW i \in Nat, i \in S PROVE i + 1 \in S
  <2> SUFFICES ASSUME i + 1 <= n PROVE Enumerates(f[i + 1], Upto(i + 1))
    OBVIOUS
  <2>1. Enumerates(f[i], Upto(i)) /\ Upto(i) \in SUBSET (1 .. i)
    BY <1>6
  <2>2. i + 1 \in 0 .. n /\ (i + 1) - 1 = i /\ i + 1 # 0
    OBVIOUS
  <2>3. CASE i + 1 \in B
    <3>1. f[i + 1] = Append(f[i], i + 1)
      BY <1>4, <2>2, <2>3
    <3>2. Upto(i + 1) = Upto(i) \union {i + 1}
      BY <2>3
    <3> HIDE DEF Upto
    <3>3. QED
      BY <2>1, <3>1, <3>2, EnumerateOneMore
  <2>4. CASE i + 1 \notin B
    <3>1. f[i + 1] = f[i]
      BY <1>4, <2>2, <2>4
    <3>2. Upto(i + 1) = Upto(i)
      BY <2>4
    <3> HIDE DEF Upto
    <3>3. QED
      BY <2>1, <3>1, <3>2
  <2>5. QED
    BY <2>3, <2>4
<1>7. n \in S
  <2> HIDE DEF S
  <2> QED BY <1>5, <1>6, NatSetInduction
<1>8. Upto(n) = B
  OBVIOUS
<1>9. QED
  BY <1>3, <1>7, <1>8

(* Two enumerations of a set are the same.                                 *)
LEMMA EnumeratedOnce ==
  ASSUME NEW s, NEW t, NEW B, Enumerates(s, B), Enumerates(t, B)
  PROVE  s = t
<1>1. /\ s \in Seq(Nat) /\ Len(s) \in Nat
      /\ \A j, k \in 1 .. Len(s) : j < k => s[j] < s[k]
      /\ \A k \in 1 .. Len(s) : s[k] \in B /\ s[k] \in Nat
      /\ \A i \in B : \E k \in 1 .. Len(s) : s[k] = i
  BY DEF Enumerates
<1>2. /\ t \in Seq(Nat) /\ Len(t) \in Nat
      /\ \A j, k \in 1 .. Len(t) : j < k => t[j] < t[k]
      /\ \A k \in 1 .. Len(t) : t[k] \in B /\ t[k] \in Nat
      /\ \A i \in B : \E k \in 1 .. Len(t) : t[k] = i
  BY DEF Enumerates
<1> DEFINE Same(k) == k <= Len(s) => k <= Len(t) /\ s[k] = t[k]
           P == {n \in Nat : \A k \in 1 .. n : Same(k)}
           Back(k) == k <= Len(t) => k <= Len(s) /\ t[k] = s[k]
<1>3. 0 \in P
  OBVIOUS
<1>4. ASSUME NEW n \in Nat, n \in P PROVE n + 1 \in P
  <2>1. \A k \in 1 .. n : Same(k)
    BY <1>4
  <2>2. Same(n + 1)
    <3> SUFFICES ASSUME n + 1 <= Len(s) PROVE n + 1 <= Len(t) /\ s[n + 1] = t[n + 1]
      OBVIOUS
    <3>0. n + 1 \in 1 .. Len(s) /\ \A k \in 1 .. n : k \in 1 .. Len(s) /\ k < n + 1
      BY <1>1
    <3>1. \A k \in 1 .. n : k \in 1 .. Len(t) /\ s[k] = t[k] /\ s[k] < s[n + 1]
      BY <1>1, <1>2, <2>1, <3>0
    <3>2. PICK j \in 1 .. Len(t) : t[j] = s[n + 1]
      BY <1>1, <1>2, <3>0
    <3>3. j \notin 1 .. n
      BY <1>1, <3>0, <3>1, <3>2
    <3>4. j >= n + 1 /\ n + 1 \in 1 .. Len(t)
      BY <1>2, <3>3
    <3>5. PICK i \in 1 .. Len(s) : s[i] = t[n + 1]
      BY <1>1, <1>2, <3>4
    <3>6. i \notin 1 .. n
      <4> SUFFICES ASSUME i \in 1 .. n PROVE FALSE
        OBVIOUS
      <4>1. i \in 1 .. Len(t) /\ t[i] = t[n + 1] /\ i < n + 1
        BY <3>1, <3>5
      <4>2. QED
        BY <1>2, <3>4, <4>1
    <3>7. i = n + 1
      <4> SUFFICES ASSUME i # n + 1 PROVE FALSE
        OBVIOUS
      <4>1. i > n + 1
        BY <1>1, <3>6
      <4>2. s[i] > s[n + 1] /\ s[i] \in Nat /\ s[n + 1] \in Nat
        BY <1>1, <3>0, <4>1
      <4>3. t[n + 1] > t[j]
        BY <3>2, <3>5, <4>2
      <4>4. j # n + 1 => t[j] > t[n + 1] /\ t[j] \in Nat /\ t[n + 1] \in Nat
        BY <1>2, <3>4
      <4>5. QED
        BY <1>2, <3>4, <4>3, <4>4
    <3>8. QED
      BY <3>4, <3>5, <3>7
  <2>3. QED
    BY <2>1, <2>2
<1>5. Nat \subseteq P
  <2> HIDE DEF P
  <2> QED BY <1>3, <1>4, NatSetInduction
<1>6. \A k \in 1 .. Len(s) : k <= Len(t) /\ s[k] = t[k]
  <2>1. Len(s) \in P
    <3> HIDE DEF P
    <3> QED BY <1>1, <1>5
  <2>2. \A k \in 1 .. Len(s) : Same(k)
    BY <2>1
  <2>3. QED
    BY <1>1, <2>2
<1>7. Len(s) <= Len(t)
  BY <1>1, <1>2, <1>6
<1>8. Len(t) <= Len(s)
  <2> SUFFICES ASSUME Len(t) > Len(s) PROVE FALSE
    BY <1>1, <1>2
  <2> DEFINE m == Len(t)
  <2>1. m \in 1 .. Len(t) /\ m > Len(s) /\ m \in Nat
    BY <1>1, <1>2
  <2>2. PICK i \in 1 .. Len(s) : s[i] = t[m]
    BY <1>1, <1>2, <2>1
  <2>3. i \in 1 .. Len(t) /\ t[i] = t[m] /\ i < m
    BY <1>1, <1>2, <1>6, <2>1, <2>2
  <2>4. QED
    BY <1>2, <2>1, <2>3
<1>9. QED
  BY <1>1, <1>2, <1>6, <1>7, <1>8, SameMembers

(* Flattening one more part, or two lists of parts.                        *)
LEMMA FlattenTotals ==
  ASSUME NEW T, NEW s \in Seq(Seq(T))
  PROVE  \E f \in [0 .. Len(s) -> Seq(T)] :
           /\ f[0] = <<>>
           /\ \A k \in 1 .. Len(s) : f[k] = f[k - 1] \o s[k]
           /\ FlattenSeq(s) = f[Len(s)]
<1> DEFINE n == Len(s)
           Parts == Seq(T)
           Step == [x \in Parts \X (1 .. n) |-> x[1] \o s[x[2]]]
<1>1. n \in Nat /\ <<>> \in Parts /\ \A i \in 1 .. n : s[i] \in Parts
  OBVIOUS
<1>2. Step \in [Parts \X (1 .. n) -> Parts]
  OBVIOUS
<1>3. PICK f : IsRecursion(f, n, Parts, <<>>, Step)
  <2> HIDE DEF Step, Parts
  <2> QED BY <1>1, <1>2, RecursionExists
<1>4. /\ f \in [0 .. n -> Parts] /\ f[0] = <<>>
      /\ \A k \in 1 .. n : f[k] = Step[<<f[k - 1], k>>]
  BY <1>3 DEF IsRecursion
<1>5. \A k \in 1 .. n : f[k] = f[k - 1] \o s[k]
  <2>1. \A k \in 1 .. n : k - 1 \in 0 .. n
    BY <1>1
  <2>2. \A k \in 1 .. n : f[k - 1] \in Parts
    BY <1>4, <2>1
  <2>3. QED
    BY <1>4, <2>2
<1>6. FlattenSeq(s) = f[n]
  <2> HIDE DEF Step
  <2> QED BY <1>4, <1>5, FlattenIs
<1>7. QED
  BY <1>4, <1>5, <1>6

(* Nothing flattens to nothing.                                            *)
LEMMA FlattenNone ==
  ASSUME NEW T, NEW s \in Seq(Seq(T)), Len(s) = 0
  PROVE  FlattenSeq(s) = <<>>
BY FlattenTotals

(* Flattening distributes over joining.                                    *)
LEMMA FlattenConcat ==
  ASSUME NEW T, NEW s \in Seq(Seq(T)), NEW t \in Seq(Seq(T))
  PROVE  FlattenSeq(s \o t) = FlattenSeq(s) \o FlattenSeq(t)
<1> DEFINE m == Len(s)
           n == Len(t)
<1>1. PICK f \in [0 .. m -> Seq(T)] :
        /\ f[0] = <<>> /\ \A k \in 1 .. m : f[k] = f[k - 1] \o s[k]
        /\ FlattenSeq(s) = f[m]
  BY FlattenTotals
<1>2. PICK g \in [0 .. n -> Seq(T)] :
        /\ g[0] = <<>> /\ \A k \in 1 .. n : g[k] = g[k - 1] \o t[k]
        /\ FlattenSeq(t) = g[n]
  BY FlattenTotals
<1> DEFINE h == [k \in 0 .. m + n |-> IF k <= m THEN f[k] ELSE f[m] \o g[k - m]]
           c == s \o t
<1>3. /\ m \in Nat /\ n \in Nat /\ c \in Seq(Seq(T)) /\ Len(c) = m + n
      /\ \A k \in 1 .. m : c[k] = s[k] /\ s[k] \in Seq(T)
      /\ \A k \in m + 1 .. m + n : c[k] = t[k - m] /\ k - m \in 1 .. n
      /\ \A k \in 1 .. n : t[k] \in Seq(T)
  OBVIOUS
<1>4. /\ \A k \in 0 .. m : h[k] = f[k]
      /\ \A k \in 1 .. n : h[m + k] = f[m] \o g[k]
  BY <1>3
<1>5. \A x, y, z \in Seq(T) : (x \o y) \o z = x \o (y \o z)
  BY ONLY ConcatAssociative, SMTT(20)
<1>6. c \in Seq(Seq(T)) /\ Len(c) = m + n
  BY <1>3
<1>7. \A k \in 1 .. n : c[m + k] = t[k]
  BY <1>3
<1> HIDE DEF h, c, m, n
<1>8. f[m] \in Seq(T) /\ f[m] \o g[0] = f[m]
  <2>1. f[m] \in Seq(T)
    BY <1>1, <1>3
  <2>2. f[m] \o <<>> = f[m]
    BY <2>1
  <2>3. QED
    BY <1>2, <2>1, <2>2
<1>9. \A k \in 0 .. n : h[m + k] = f[m] \o g[k]
  <2>1. m \in 0 .. m /\ m + 0 = m /\ \A k \in 0 .. n : k = 0 \/ k \in 1 .. n
    BY <1>3
  <2>2. h[m + 0] = f[m] \o g[0]
    BY <1>4, <1>8, <2>1
  <2>3. QED
    BY <1>4, <2>1, <2>2
<1>10. ASSUME NEW k \in 1 .. m + n PROVE h[k] = h[k - 1] \o c[k]
  <2>1. CASE k \in 1 .. m
    <3>1. k \in 0 .. m /\ k - 1 \in 0 .. m
      BY <1>3, <2>1
    <3>2. QED
      BY <1>1, <1>3, <1>4, <2>1, <3>1
  <2>2. CASE k \notin 1 .. m
    <3>1. PICK j \in 1 .. n : k = m + j
      <4>1. k - m \in 1 .. n /\ k = m + (k - m)
        BY <1>3, <2>2
      <4>2. QED
        BY <4>1
    <3>2. j \in 0 .. n /\ j - 1 \in 0 .. n /\ k - 1 = m + (j - 1)
      BY <1>3, <3>1
    <3>3. /\ h[k] = f[m] \o g[j] /\ h[k - 1] = f[m] \o g[j - 1]
          /\ c[k] = t[j] /\ g[j] = g[j - 1] \o t[j]
      BY <1>2, <1>7, <1>9, <3>1, <3>2
    <3>4. g[j - 1] \in Seq(T) /\ t[j] \in Seq(T)
      BY <1>2, <1>3, <3>2
    <3>5. (f[m] \o g[j - 1]) \o t[j] = f[m] \o (g[j - 1] \o t[j])
      BY <1>5, <1>8, <3>4
    <3>6. QED
      BY ONLY <3>3, <3>5
  <2>3. QED
    BY <2>1, <2>2
<1>11. h[0] = <<>> /\ h[m + n] = f[m] \o g[n]
  <2>1. 0 \in 0 .. m /\ n \in 0 .. n
    BY <1>3
  <2>2. QED
    BY <1>1, <1>4, <1>9, <2>1
<1>12. FlattenSeq(c) = h[m + n]
  BY <1>6, <1>10, <1>11, FlattenIs
<1>13. QED
  BY <1>1, <1>2, <1>11, <1>12 DEF c

(* A map between sequences that keeps joins.                               *)
KeepsJoins(h, S, T) ==
  /\ h \in [Seq(S) -> Seq(T)]
  /\ h[<<>>] = <<>>
  /\ \A a, b \in Seq(S) : h[a \o b] = h[a] \o h[b]

(* It may be taken part by part.                                           *)
LEMMA JoinByParts ==
  ASSUME NEW S, NEW T, NEW h, KeepsJoins(h, S, T), NEW ss \in Seq(Seq(S))
  PROVE  /\ [c \in 1 .. Len(ss) |-> h[ss[c]]] \in Seq(Seq(T))
         /\ h[FlattenSeq(ss)] = FlattenSeq([c \in 1 .. Len(ss) |-> h[ss[c]]])
<1> DEFINE n == Len(ss)
           tt == [c \in 1 .. n |-> h[ss[c]]]
<1>0. /\ h \in [Seq(S) -> Seq(T)] /\ h[<<>>] = <<>>
      /\ \A a, b \in Seq(S) : h[a \o b] = h[a] \o h[b]
  BY DEF KeepsJoins
<1>1. n \in Nat /\ \A c \in 1 .. n : ss[c] \in Seq(S)
  OBVIOUS
<1>2. tt \in Seq(Seq(T)) /\ Len(tt) = n /\ \A c \in 1 .. n : tt[c] = h[ss[c]]
  BY <1>0, <1>1
<1>3. PICK f \in [0 .. n -> Seq(S)] :
        /\ f[0] = <<>> /\ \A k \in 1 .. n : f[k] = f[k - 1] \o ss[k]
        /\ FlattenSeq(ss) = f[n]
  BY FlattenTotals
<1> DEFINE g == [k \in 0 .. n |-> h[f[k]]]
<1>4. g[0] = <<>> /\ g[n] = h[f[n]]
  BY <1>0, <1>1, <1>3
<1>5. ASSUME NEW k \in 1 .. n PROVE g[k] = g[k - 1] \o tt[k]
  <2>1. k \in 0 .. n /\ k - 1 \in 0 .. n
    BY <1>1
  <2>2. f[k - 1] \in Seq(S) /\ ss[k] \in Seq(S) /\ f[k] = f[k - 1] \o ss[k]
    BY <1>1, <1>3, <2>1
  <2>3. h[f[k - 1] \o ss[k]] = h[f[k - 1]] \o h[ss[k]]
    BY <1>0, <2>2
  <2>4. QED
    BY <1>2, <2>1, <2>2, <2>3
<1>6. FlattenSeq(tt) = g[n]
  <2> HIDE DEF g, tt
  <2>1. /\ tt \in Seq(Seq(T)) /\ g[0] = <<>>
        /\ \A k \in 1 .. Len(tt) : g[k] = g[k - 1] \o tt[k]
    BY <1>0, <1>2, <1>4, <1>5
  <2>2. FlattenSeq(tt) = g[Len(tt)]
    BY ONLY <2>1, FlattenIs
  <2>3. QED
    BY <1>2, <2>2
<1>7. QED
  BY <1>2, <1>3, <1>4, <1>6

(* Item by item, and item by item with a list for each.                    *)
LEMMA MapKeepsJoins ==
  ASSUME NEW S, NEW T, NEW g \in [S -> T]
  PROVE  KeepsJoins([a \in Seq(S) |-> [j \in 1 .. Len(a) |-> g[a[j]]]], S, T)
<1> DEFINE h == [a \in Seq(S) |-> [j \in 1 .. Len(a) |-> g[a[j]]]]
<1>1. ASSUME NEW a \in Seq(S)
      PROVE  h[a] \in Seq(T) /\ Len(h[a]) = Len(a) /\ \A j \in 1 .. Len(a) : h[a][j] = g[a[j]]
  <2>1. Len(a) \in Nat /\ \A j \in 1 .. Len(a) : a[j] \in S
    OBVIOUS
  <2>2. h[a] = [j \in 1 .. Len(a) |-> g[a[j]]]
    OBVIOUS
  <2> HIDE DEF h
  <2>3. QED
    BY <2>1, <2>2
<1>2. <<>> \in Seq(S)
  OBVIOUS
<1>3. h[<<>>] = <<>>
  BY <1>1, <1>2
<1>4. ASSUME NEW a \in Seq(S), NEW b \in Seq(S) PROVE h[a \o b] = h[a] \o h[b]
  <2>1. /\ a \o b \in Seq(S) /\ Len(a \o b) = Len(a) + Len(b)
        /\ Len(a) \in Nat /\ Len(b) \in Nat
        /\ \A j \in 1 .. Len(a) : (a \o b)[j] = a[j]
        /\ \A j \in 1 .. Len(b) : (a \o b)[Len(a) + j] = b[j]
    BY JoinMembers
  <2>2. /\ h[a] \in Seq(T) /\ h[b] \in Seq(T) /\ h[a \o b] \in Seq(T)
        /\ Len(h[a]) = Len(a) /\ Len(h[b]) = Len(b) /\ Len(h[a \o b]) = Len(a) + Len(b)
    BY <1>1, <2>1
  <2>3. /\ \A j \in 1 .. Len(a) + Len(b) : h[a \o b][j] = g[(a \o b)[j]]
        /\ \A j \in 1 .. Len(a) : h[a][j] = g[a[j]]
        /\ \A j \in 1 .. Len(b) : h[b][j] = g[b[j]]
    BY <1>1, <2>1
  <2> HIDE DEF h
  <2>4. /\ \A j \in 1 .. Len(a) : j \in 1 .. Len(a) + Len(b)
        /\ \A j \in 1 .. Len(b) : Len(a) + j \in 1 .. Len(a) + Len(b)
    BY <2>1
  <2>5. \A j \in 1 .. Len(h[a]) : h[a \o b][j] = h[a][j]
    BY <2>1, <2>2, <2>3, <2>4
  <2>6. \A j \in 1 .. Len(h[b]) : h[a \o b][Len(h[a]) + j] = h[b][j]
    BY <2>1, <2>2, <2>3, <2>4
  <2>7. Len(h[a \o b]) = Len(h[a]) + Len(h[b])
    BY <2>2
  <2>8. Joins(h[a], h[b], h[a \o b])
    BY <2>5, <2>6, <2>7 DEF Joins
  <2>9. h[a] \in Seq(T) /\ h[b] \in Seq(T) /\ h[a \o b] \in Seq(T)
    BY <2>2
  <2>10. \A x, y, z \in Seq(T) : Joins(x, y, z) => z = x \o y
    BY JoinIs
  <2>11. QED
    BY ONLY <2>8, <2>9, <2>10
<1>5. h \in [Seq(S) -> Seq(T)]
  BY <1>1
<1>6. QED
  BY <1>3, <1>4, <1>5 DEF KeepsJoins

(* Mapping and flattening distributes over joining.                        *)
LEMMA FlatMapKeepsJoins ==
  ASSUME NEW S, NEW T, NEW g \in [S -> Seq(T)]
  PROVE  KeepsJoins([a \in Seq(S) |-> FlattenSeq([j \in 1 .. Len(a) |-> g[a[j]]])], S, T)
<1> DEFINE m == [a \in Seq(S) |-> [j \in 1 .. Len(a) |-> g[a[j]]]]
           h == [a \in Seq(S) |-> FlattenSeq([j \in 1 .. Len(a) |-> g[a[j]]])]
<1>1. KeepsJoins(m, S, Seq(T))
  BY MapKeepsJoins
<1>2. /\ m \in [Seq(S) -> Seq(Seq(T))] /\ m[<<>>] = <<>>
      /\ \A a, b \in Seq(S) : m[a \o b] = m[a] \o m[b]
  BY <1>1 DEF KeepsJoins
<1>3. \A a \in Seq(S) : h[a] = FlattenSeq(m[a])
  OBVIOUS
<1>4. h \in [Seq(S) -> Seq(T)]
  <2> SUFFICES ASSUME NEW a \in Seq(S) PROVE FlattenSeq(m[a]) \in Seq(T)
    BY <1>3
  <2>1. m[a] \in Seq(Seq(T))
    BY <1>2
  <2> HIDE DEF m
  <2>2. QED
    BY <2>1, FlattenHolds
<1>5. <<>> \in Seq(S) /\ \A a, b \in Seq(S) : a \o b \in Seq(S)
  OBVIOUS
<1> HIDE DEF h, m
<1>6. h[<<>>] = <<>>
  <2>1. <<>> \in Seq(Seq(T)) /\ Len(<<>>) = 0
    OBVIOUS
  <2>2. FlattenSeq(<<>>) = <<>>
    BY <2>1, FlattenNone
  <2>3. QED
    BY <1>2, <1>3, <1>5, <2>2
<1>7. ASSUME NEW a \in Seq(S), NEW b \in Seq(S) PROVE h[a \o b] = h[a] \o h[b]
  <2>1. m[a] \in Seq(Seq(T)) /\ m[b] \in Seq(Seq(T)) /\ m[a \o b] = m[a] \o m[b]
    BY <1>2
  <2>2. FlattenSeq(m[a] \o m[b]) = FlattenSeq(m[a]) \o FlattenSeq(m[b])
    BY <2>1, FlattenConcat
  <2>3. QED
    BY <1>3, <1>5, <2>1, <2>2
<1>8. KeepsJoins(h, S, T)
  BY <1>4, <1>6, <1>7 DEF KeepsJoins
<1>9. QED
  BY <1>8 DEF h

(* Where the parts of a whole of length n end, when they begin at the      *)
(* positions of B: the first part begins the whole.                        *)
Cuts(x, m, B, n) ==
  /\ m \in Nat
  /\ x \in [0 .. m -> 0 .. n]
  /\ x[0] = 0
  /\ x[m] = n
  /\ \A j, k \in 0 .. m : j < k => x[j] < x[k]
  /\ \A k \in 1 .. m : x[k - 1] + 1 \in B
  /\ \A i \in B : \E k \in 1 .. m : x[k - 1] + 1 = i

PartsAt(x, m) == [k \in 1 .. m |-> [start |-> x[k - 1], end |-> x[k]]]

Begins(B, n) == B \in SUBSET (1 .. n) /\ (n # 0 => 1 \in B)

(* Cutting where a set says has a result.                                  *)
LEMMA CutsExist ==
  ASSUME NEW n \in Nat, NEW B, Begins(B, n)
  PROVE  \E m : \E x : Cuts(x, m, B, n)
<1> DEFINE s == Ascending(B, n)
           m == Len(s)
           x == [k \in 0 .. m |-> IF k = m THEN n ELSE s[k + 1] - 1]
<1>1. B \in SUBSET (1 .. n) /\ (n # 0 => 1 \in B)
  BY DEF Begins
<1>2. Enumerates(s, B)
  BY <1>1, AscendingIs
<1>3. /\ s \in Seq(Nat) /\ m \in Nat
      /\ \A j, k \in 1 .. m : j < k => s[j] < s[k]
      /\ \A k \in 1 .. m : s[k] \in B /\ s[k] \in 1 .. n
      /\ \A i \in B : \E k \in 1 .. m : s[k] = i
  BY <1>1, <1>2 DEF Enumerates
<1> HIDE DEF s
<1>4. \A k \in 0 .. m : k = m \/ k + 1 \in 1 .. m
  BY <1>3
<1>5. \A k \in 0 .. m : x[k] = IF k = m THEN n ELSE s[k + 1] - 1
  OBVIOUS
<1>6. x \in [0 .. m -> 0 .. n]
  <2>1. \A k \in 1 .. m : s[k] - 1 \in 0 .. n
    BY <1>3
  <2>2. n \in 0 .. n
    OBVIOUS
  <2>3. \A k \in 0 .. m : (IF k = m THEN n ELSE s[k + 1] - 1) \in 0 .. n
    BY <1>4, <2>1, <2>2
  <2>4. QED
    BY <2>3
<1>7. m # 0 => s[1] = 1
  <2> SUFFICES ASSUME m # 0 PROVE s[1] = 1
    OBVIOUS
  <2>1. 1 \in 1 .. m /\ \A k \in 1 .. m : k = 1 \/ 1 < k
    BY <1>3
  <2>2. s[1] \in 1 .. n
    BY <1>3, <2>1
  <2>3. 1 \in B
    BY <1>1, <2>2
  <2>4. PICK k \in 1 .. m : s[k] = 1
    BY <1>3, <2>3
  <2>5. k # 1 => s[1] < s[k]
    BY <1>3, <2>1
  <2>6. QED
    BY <2>2, <2>4, <2>5
<1>8. m = 0 => n = 0
  <2>1. m = 0 => 1 .. m = {}
    OBVIOUS
  <2>2. QED
    BY <1>1, <1>3, <2>1
<1> HIDE DEF m
<1>9. x[0] = 0 /\ x[m] = n
  <2>1. 0 \in 0 .. m /\ m \in 0 .. m /\ 0 + 1 = 1
    BY <1>3
  <2>2. QED
    BY <1>5, <1>7, <1>8, <2>1
<1>10. ASSUME NEW j \in 0 .. m, NEW k \in 0 .. m, j < k PROVE x[j] < x[k]
  <2>1. j + 1 \in 1 .. m /\ j # m /\ x[j] = s[j + 1] - 1
    BY <1>3, <1>5, <1>10
  <2>2. CASE k = m
    BY <1>3, <1>5, <2>1, <2>2
  <2>3. CASE k # m
    <3>1. k + 1 \in 1 .. m /\ j + 1 < k + 1 /\ x[k] = s[k + 1] - 1
      BY <1>3, <1>4, <1>5, <1>10, <2>3
    <3>2. s[j + 1] < s[k + 1] /\ s[j + 1] \in Nat /\ s[k + 1] \in Nat
      BY <1>3, <2>1, <3>1
    <3> HIDE DEF x
    <3>3. QED
      BY <2>1, <3>1, <3>2
  <2>4. QED
    BY <2>2, <2>3
<1>11. \A k \in 1 .. m : x[k - 1] + 1 = s[k]
  <2>1. \A k \in 1 .. m : k - 1 \in 0 .. m /\ k - 1 # m /\ (k - 1) + 1 = k /\ s[k] \in Nat
    BY <1>3
  <2>2. \A k \in 1 .. m : x[k - 1] = s[k] - 1
    BY <1>5, <2>1
  <2>3. QED
    BY <2>1, <2>2
<1> HIDE DEF x
<1>12. Cuts(x, m, B, n)
  BY <1>3, <1>6, <1>9, <1>10, <1>11 DEF Cuts
<1>13. QED
  BY <1>12

(* Splitting a whole at B makes those parts.                               *)
LEMMA SplitAt ==
  ASSUME NEW n \in Nat, NEW B \in SUBSET (1 .. n), NEW m, NEW x, Cuts(x, m, B, n)
  PROVE  Split(B, n) = PartsAt(x, m)
<1>1. /\ m \in Nat /\ x \in [0 .. m -> 0 .. n] /\ x[0] = 0 /\ x[m] = n
      /\ \A j, k \in 0 .. m : j < k => x[j] < x[k]
      /\ \A k \in 1 .. m : x[k - 1] + 1 \in B
      /\ \A i \in B : \E k \in 1 .. m : x[k - 1] + 1 = i
  BY DEF Cuts
<1> DEFINE s == [k \in 1 .. m |-> x[k - 1] + 1]
<1>2. /\ s \in Seq(Nat) /\ Len(s) = m /\ DOMAIN s = 1 .. m
      /\ \A k \in 1 .. m : s[k] = x[k - 1] + 1 /\ k - 1 \in 0 .. m
  <2>1. \A k \in 1 .. m : k - 1 \in 0 .. m
    BY <1>1
  <2>2. \A k \in 1 .. m : x[k - 1] + 1 \in Nat
    BY <1>1, <2>1
  <2>3. QED
    BY <1>1, <2>1, <2>2
<1> HIDE DEF s
<1>3. ASSUME NEW j \in 1 .. m, NEW k \in 1 .. m, j < k PROVE s[j] < s[k]
  <2>1. j - 1 \in 0 .. m /\ k - 1 \in 0 .. m /\ j - 1 < k - 1
    BY <1>1, <1>3
  <2>2. x[j - 1] < x[k - 1] /\ x[j - 1] \in Nat /\ x[k - 1] \in Nat
    BY <1>1, <2>1
  <2>3. QED
    BY <1>2, <2>2
<1>4. Enumerates(s, B)
  <2>1. s \in Seq(Nat) /\ \A j, k \in 1 .. Len(s) : j < k => s[j] < s[k]
    BY <1>2, <1>3
  <2>2. \A k \in 1 .. Len(s) : s[k] \in B
    BY <1>1, <1>2
  <2>3. \A i \in B : \E k \in 1 .. Len(s) : s[k] = i
    BY <1>1, <1>2
  <2>4. QED
    BY <2>1, <2>2, <2>3 DEF Enumerates
<1>5. Ascending(B, n) = s
  <2>1. Enumerates(Ascending(B, n), B)
    BY AscendingIs
  <2>2. QED
    BY <1>4, <2>1, EnumeratedOnce
<1>6. SpansFrom(s, n) = PartsAt(x, m)
  <2>1. ASSUME NEW k \in 1 .. m
        PROVE  [start |-> s[k] - 1, end |-> IF k = Len(s) THEN n ELSE s[k + 1] - 1]
                 = [start |-> x[k - 1], end |-> x[k]]
    <3>1. s[k] - 1 = x[k - 1]
      <4>1. k - 1 \in 0 .. m /\ s[k] = x[k - 1] + 1
        BY <1>2
      <4>2. x[k - 1] \in Nat
        BY <1>1, <4>1
      <4>3. QED
        BY <4>1, <4>2
    <3>2. k # m => s[k + 1] - 1 = x[k]
      <4> SUFFICES ASSUME k # m PROVE s[k + 1] - 1 = x[k]
        OBVIOUS
      <4>1. k + 1 \in 1 .. m /\ (k + 1) - 1 = k /\ k \in 0 .. m
        BY <1>1
      <4>2. s[k + 1] = x[k] + 1 /\ x[k] \in Nat
        <5>1. s[k + 1] = x[(k + 1) - 1] + 1
          BY <1>2, <4>1
        <5>2. x[k] \in Nat
          BY <1>1, <4>1
        <5>3. QED
          BY <4>1, <5>1, <5>2
      <4>3. QED
        BY <4>2
    <3>3. QED
      BY <1>1, <1>2, <3>1, <3>2
  <2>2. QED
    BY <1>2, <2>1 DEF SpansFrom, PartsAt
<1>7. QED
  BY <1>5, <1>6 DEF Split

(* The cuts of a whole made of two wholes.                                 *)
JoinedCuts(x, m, y, k, a) ==
  [i \in 0 .. m + k |-> IF i <= m THEN x[i] ELSE a + y[i - m]]

(* Cuts of two wholes are cuts of the two joined.                          *)
LEMMA CutsJoin ==
  ASSUME NEW a \in Nat, NEW b \in Nat, NEW A \in SUBSET (1 .. a), NEW B \in SUBSET (1 .. b),
         NEW m, NEW x, Cuts(x, m, A, a), NEW k, NEW y, Cuts(y, k, B, b)
  PROVE  Cuts(JoinedCuts(x, m, y, k, a), m + k, A \union {a + i : i \in B}, a + b)
<1>1. /\ m \in Nat /\ x \in [0 .. m -> 0 .. a] /\ x[0] = 0 /\ x[m] = a
      /\ \A i, j \in 0 .. m : i < j => x[i] < x[j]
      /\ \A i \in 1 .. m : x[i - 1] + 1 \in A
      /\ \A i \in A : \E j \in 1 .. m : x[j - 1] + 1 = i
  BY DEF Cuts
<1>2. /\ k \in Nat /\ y \in [0 .. k -> 0 .. b] /\ y[0] = 0 /\ y[k] = b
      /\ \A i, j \in 0 .. k : i < j => y[i] < y[j]
      /\ \A i \in 1 .. k : y[i - 1] + 1 \in B
      /\ \A i \in B : \E j \in 1 .. k : y[j - 1] + 1 = i
  BY DEF Cuts
<1> DEFINE z == JoinedCuts(x, m, y, k, a)
           C == A \union {a + i : i \in B}
<1>3. \A i \in 0 .. m : z[i] = x[i]
  BY <1>1, <1>2 DEF JoinedCuts
<1>4. \A j \in 0 .. k : z[m + j] = a + y[j]
  <2>1. z[m + 0] = a + y[0]
    BY <1>1, <1>2, <1>3
  <2>2. \A j \in 1 .. k : z[m + j] = a + y[j]
    BY <1>1, <1>2 DEF JoinedCuts
  <2>3. \A j \in 0 .. k : j = 0 \/ j \in 1 .. k
    BY <1>2
  <2>4. QED
    BY <2>1, <2>2, <2>3
<1>5. \A i \in 0 .. m + k : i \in 0 .. m \/ (i > m /\ i - m \in 1 .. k /\ i = m + (i - m))
  BY <1>1, <1>2
<1>6. z = [i \in 0 .. m + k |-> z[i]]
  BY DEF JoinedCuts
<1> HIDE DEF z
<1>7. /\ \A i \in 0 .. m : z[i] \in 0 .. a
      /\ \A j \in 0 .. k : z[m + j] \in a .. a + b
      /\ \A j \in 1 .. k : z[m + j] \in a + 1 .. a + b
  <2>1. \A i \in 0 .. m : z[i] \in 0 .. a
    BY <1>1, <1>3
  <2>2. \A j \in 0 .. k : z[m + j] \in a .. a + b
    <3>1. \A j \in 0 .. k : y[j] \in 0 .. b
      BY <1>2
    <3>2. QED
      BY <1>4, <3>1
  <2>3. ASSUME NEW j \in 1 .. k PROVE z[m + j] \in a + 1 .. a + b
    <3>1. 0 \in 0 .. k /\ j \in 0 .. k /\ 0 < j
      BY <1>2
    <3>2. y[j] \in 1 .. b
      BY <1>2, <3>1
    <3>3. QED
      BY <1>4, <3>1, <3>2
  <2>4. QED
    BY <2>1, <2>2, <2>3
<1>8. z \in [0 .. m + k -> 0 .. a + b]
  <2>1. ASSUME NEW i \in 0 .. m + k PROVE z[i] \in 0 .. a + b
    <3>1. CASE i \in 0 .. m
      BY <1>7, <3>1
    <3>2. CASE i - m \in 1 .. k /\ i = m + (i - m)
      <4>1. z[i] \in a + 1 .. a + b
        BY <1>7, <3>2
      <4>2. QED
        BY <4>1
    <3>3. QED
      BY <1>5, <3>1, <3>2
  <2>2. QED
    BY <1>6, <2>1
<1>9. z[0] = 0 /\ z[m + k] = a + b
  <2>1. 0 \in 0 .. m /\ k \in 0 .. k
    BY <1>1, <1>2
  <2>2. QED
    BY <1>1, <1>2, <1>3, <1>4, <2>1
<1>10. ASSUME NEW i \in 0 .. m + k, NEW j \in 0 .. m + k, i < j PROVE z[i] < z[j]
  <2>1. CASE j \in 0 .. m
    <3>1. i \in 0 .. m
      BY <1>1, <1>10, <2>1
    <3>2. QED
      BY <1>1, <1>3, <1>10, <2>1, <3>1
  <2>2. CASE i \in 0 .. m /\ j \notin 0 .. m
    <3>1. z[i] \in 0 .. a
      BY <1>7, <2>2
    <3>2. z[j] \in a + 1 .. a + b
      BY <1>5, <1>7, <2>2
    <3>3. QED
      BY <3>1, <3>2
  <2>3. CASE i \notin 0 .. m /\ j \notin 0 .. m
    <3>1. /\ i - m \in 0 .. k /\ i = m + (i - m) /\ j - m \in 0 .. k /\ j = m + (j - m)
          /\ i - m < j - m
      BY <1>1, <1>2, <1>5, <1>10, <2>3
    <3>2. /\ z[i] = a + y[i - m] /\ z[j] = a + y[j - m]
          /\ y[i - m] < y[j - m] /\ y[i - m] \in Nat /\ y[j - m] \in Nat
      <4>1. z[m + (i - m)] = a + y[i - m] /\ z[m + (j - m)] = a + y[j - m]
        BY <1>4, <3>1
      <4>2. y[i - m] \in Nat /\ y[j - m] \in Nat
        BY <1>2, <3>1
      <4>3. y[i - m] < y[j - m]
        BY <1>2, <3>1
      <4>4. QED
        BY <3>1, <4>1, <4>2, <4>3
    <3>3. QED
      BY <3>2
  <2>4. QED
    BY <1>1, <1>10, <2>1, <2>2, <2>3
<1>11. ASSUME NEW i \in 1 .. m + k PROVE z[i - 1] + 1 \in C
  <2>1. CASE i \in 1 .. m
    <3>1. i - 1 \in 0 .. m
      BY <1>1, <2>1
    <3>2. QED
      BY <1>1, <1>3, <2>1, <3>1
  <2>2. CASE i \notin 1 .. m
    <3>1. i - m \in 1 .. k /\ (i - m) - 1 \in 0 .. k /\ i - 1 = m + ((i - m) - 1)
      BY <1>1, <1>2, <2>2
    <3>2. z[i - 1] = a + y[(i - m) - 1] /\ y[(i - m) - 1] + 1 \in B /\ y[(i - m) - 1] \in Nat
      <4> DEFINE j == (i - m) - 1
      <4>1. (i - m) - 1 + 1 = i - m /\ j \in 0 .. k /\ i - 1 = m + j /\ j + 1 \in 1 .. k /\ (j + 1) - 1 = j
        BY <1>1, <1>2, <3>1
      <4> HIDE DEF j
      <4>2. z[m + j] = a + y[j]
        BY <1>4, <4>1
      <4>3. y[(j + 1) - 1] + 1 \in B
        BY <1>2, <4>1
      <4>4. y[j] \in Nat
        BY <1>2, <4>1
      <4>5. z[i - 1] = a + y[j] /\ y[j] + 1 \in B /\ y[j] \in Nat
        BY <4>1, <4>2, <4>3, <4>4
      <4>6. QED
        BY <4>5 DEF j
    <3>3. z[i - 1] + 1 = a + (y[(i - m) - 1] + 1)
      BY <3>2
    <3>4. QED
      BY <3>2, <3>3
  <2>3. QED
    BY <2>1, <2>2
<1>12. ASSUME NEW i \in C PROVE \E j \in 1 .. m + k : z[j - 1] + 1 = i
  <2>1. CASE i \in A
    <3>1. PICK j \in 1 .. m : x[j - 1] + 1 = i
      BY <1>1, <2>1
    <3>2. j \in 1 .. m + k /\ j - 1 \in 0 .. m
      BY <1>1, <1>2
    <3>3. QED
      BY <1>3, <3>1, <3>2
  <2>2. CASE \E h \in B : i = a + h
    <3>1. PICK h \in B : i = a + h
      BY <2>2
    <3>2. PICK j \in 1 .. k : y[j - 1] + 1 = h
      BY <1>2
    <3>3. m + j \in 1 .. m + k /\ (m + j) - 1 = m + (j - 1) /\ j - 1 \in 0 .. k
      BY <1>1, <1>2
    <3>4. z[(m + j) - 1] = a + y[j - 1] /\ y[j - 1] \in Nat
      BY <1>2, <1>4, <3>3
    <3>5. z[(m + j) - 1] + 1 = i
      BY <3>1, <3>2, <3>4
    <3>6. QED
      BY <3>3, <3>5
  <2>3. QED
    BY <2>1, <2>2
<1>13. m + k \in Nat
  BY <1>1, <1>2
<1> HIDE DEF C
<1>14. Cuts(z, m + k, C, a + b)
  BY <1>8, <1>9, <1>10, <1>11, <1>12, <1>13 DEF Cuts
<1>15. QED
  BY <1>14 DEF z, C

(* Where a place within a part lies: the parts leave no gap.               *)
LEMMA PartOf ==
  ASSUME NEW n \in Nat, NEW B, NEW m, NEW x, Cuts(x, m, B, n), NEW i \in 1 .. n
  PROVE  \E k \in 1 .. m : i \in x[k - 1] + 1 .. x[k]
<1>1. /\ m \in Nat /\ x \in [0 .. m -> 0 .. n] /\ x[0] = 0 /\ x[m] = n
  BY DEF Cuts
<1> DEFINE Over == {k \in Nat : k <= m /\ i <= x[k]}
           k == Min(Over)
<1>2. m \in Over
  BY <1>1
<1>3. k \in Over /\ \A j \in Over : k <= j
  <2>1. Over \in SUBSET Nat /\ Over # {}
    BY <1>2
  <2> HIDE DEF Over
  <2>2. QED
    BY <2>1, MinOfNaturals
<1> HIDE DEF k
<1>4. k # 0
  BY <1>1, <1>3
<1>5. k \in 1 .. m /\ k - 1 \in Nat /\ k - 1 \in 0 .. m /\ k \in 0 .. m
  BY <1>1, <1>3, <1>4
<1>6. ~ (i <= x[k - 1])
  BY <1>1, <1>3, <1>5
<1>7. x[k] \in Nat /\ x[k - 1] \in Nat /\ i <= x[k]
  BY <1>1, <1>3, <1>5
<1>8. i \in x[k - 1] + 1 .. x[k]
  BY <1>6, <1>7
<1>9. QED
  BY <1>5, <1>8

(* A member of a part, and the part itself, of a sequence.                 *)
LEMMA PartMembers ==
  ASSUME NEW T, NEW d \in Seq(T), NEW a \in 0 .. Len(d), NEW b \in a .. Len(d)
  PROVE  /\ SubSeq(d, a + 1, b) \in Seq(T)
         /\ Len(SubSeq(d, a + 1, b)) = b - a
         /\ Len(d) \in Nat /\ b - a \in Nat /\ a \in Nat /\ b \in Nat
         /\ \A j \in 1 .. b - a : SubSeq(d, a + 1, b)[j] = d[a + j] /\ a + j \in 1 .. Len(d)
<1>1. Len(d) \in Nat /\ b - a \in Nat /\ a \in Nat /\ b \in Nat
  OBVIOUS
<1>2. \A j \in a + 1 .. b : d[j] \in T
  <2>1. \A j \in a + 1 .. b : j \in 1 .. Len(d)
    BY <1>1
  <2>2. QED
    BY <2>1
<1>3. /\ SubSeq(d, a + 1, b) \in Seq(T)
      /\ Len(SubSeq(d, a + 1, b)) = b - a
  BY <1>1, <1>2
<1>4. \A j \in 1 .. b - a : SubSeq(d, a + 1, b)[j] = d[a + j] /\ a + j \in 1 .. Len(d)
  BY <1>1
<1>5. QED
  BY <1>1, <1>3, <1>4

(* Neighbouring parts of a sequence join to one part.                      *)
LEMMA PartsJoin ==
  ASSUME NEW T, NEW d \in Seq(T), NEW a \in 0 .. Len(d), NEW b \in a .. Len(d),
         NEW c \in b .. Len(d)
  PROVE  SubSeq(d, a + 1, c) = SubSeq(d, a + 1, b) \o SubSeq(d, b + 1, c)
<1> DEFINE x == SubSeq(d, a + 1, b)
           y == SubSeq(d, b + 1, c)
           z == SubSeq(d, a + 1, c)
<1>1. b \in 0 .. Len(d) /\ c \in a .. Len(d)
  OBVIOUS
<1>2. /\ x \in Seq(T) /\ Len(x) = b - a
      /\ \A j \in 1 .. b - a : x[j] = d[a + j]
  BY PartMembers
<1>3. /\ y \in Seq(T) /\ Len(y) = c - b
      /\ \A j \in 1 .. c - b : y[j] = d[b + j]
  BY <1>1, PartMembers
<1>4. /\ z \in Seq(T) /\ Len(z) = c - a
      /\ \A j \in 1 .. c - a : z[j] = d[a + j]
  BY <1>1, PartMembers
<1> HIDE DEF x, y, z
<1>5. a \in Nat /\ b \in Nat /\ c \in Nat /\ a <= b /\ b <= c
  OBVIOUS
<1>6. \A j \in 1 .. c - b : (b - a) + j \in 1 .. c - a /\ a + ((b - a) + j) = b + j
  BY <1>5
<1>7. \A j \in 1 .. Len(y) : z[Len(x) + j] = y[j]
  BY <1>2, <1>3, <1>4, <1>6
<1>8. \A j \in 1 .. Len(x) : z[j] = x[j]
  BY <1>2, <1>4, <1>5
<1>9. Joins(x, y, z)
  BY <1>2, <1>3, <1>4, <1>5, <1>7, <1>8 DEF Joins
<1>10. z = x \o y
  BY ONLY <1>2, <1>3, <1>4, <1>9, JoinIs
<1>11. QED
  BY <1>10 DEF x, y, z

(* A sequence is a part of itself.                                         *)
LEMMA WholePart ==
  ASSUME NEW T, NEW d \in Seq(T)
  PROVE  SubSeq(d, 1, Len(d)) = d
<1> DEFINE z == SubSeq(d, 0 + 1, Len(d))
<1>1. 0 \in 0 .. Len(d) /\ Len(d) \in 0 .. Len(d) /\ Len(d) \in Nat /\ Len(d) - 0 = Len(d)
  OBVIOUS
<1>2. z \in Seq(T) /\ Len(z) = Len(d) - 0 /\ \A j \in 1 .. Len(d) - 0 : z[j] = d[0 + j]
  BY <1>1, PartMembers
<1> HIDE DEF z
<1>3. \A j \in 1 .. Len(z) : z[j] = d[j]
  BY <1>1, <1>2
<1>4. z = d
  BY <1>1, <1>2, <1>3, SameMembers
<1>5. QED
  BY <1>4 DEF z

(* One member of a sequence as a part of it.                               *)
LEMMA OnePart ==
  ASSUME NEW T, NEW d \in Seq(T), NEW p \in 1 .. Len(d)
  PROVE  SubSeq(d, p, p) = <<d[p]>>
<1> DEFINE a == p - 1
           z == SubSeq(d, a + 1, p)
<1>1. a \in 0 .. Len(d) /\ p \in a .. Len(d) /\ a + 1 = p /\ p - a = 1 /\ d[p] \in T
  OBVIOUS
<1> HIDE DEF a
<1>2. z \in Seq(T) /\ Len(z) = p - a /\ \A j \in 1 .. p - a : z[j] = d[a + j]
  BY <1>1, PartMembers
<1> HIDE DEF z
<1>3. 1 \in 1 .. p - a
  BY <1>1
<1>4. z[1] = d[a + 1]
  BY <1>2, <1>3
<1>5. Len(z) = 1 /\ z[1] = d[p]
  BY <1>1, <1>2, <1>4
<1> DEFINE w == <<d[p]>>
<1>6. w \in Seq(T) /\ Len(w) = 1 /\ w[1] = d[p]
  BY <1>1
<1> HIDE DEF w
<1>7. \A k \in 1 .. Len(z) : z[k] = w[k]
  <2>1. \A k \in 1 .. Len(z) : k = 1
    BY <1>5
  <2>2. QED
    BY <2>1, <1>5, <1>6
<1>8. z = w
  BY <1>2, <1>5, <1>6, <1>7, SameMembers
<1>9. QED
  BY <1>1, <1>8 DEF z, w

(* A part that ends where it begins is empty.                              *)
LEMMA EmptyPart ==
  ASSUME NEW T, NEW d \in Seq(T), NEW a \in 0 .. Len(d)
  PROVE  SubSeq(d, a + 1, a) = <<>>
<1>1. a \in a .. Len(d) /\ a - a = 0
  OBVIOUS
<1>2. SubSeq(d, a + 1, a) \in Seq(T) /\ Len(SubSeq(d, a + 1, a)) = 0
  BY <1>1, PartMembers
<1>3. QED
  BY <1>2

(* A part of a part is a part.                                             *)
LEMMA PartOfPart ==
  ASSUME NEW T, NEW d \in Seq(T), NEW a \in 0 .. Len(d), NEW b \in a .. Len(d),
         NEW i \in 0 .. b - a, NEW j \in i .. b - a
  PROVE  SubSeq(SubSeq(d, a + 1, b), i + 1, j) = SubSeq(d, (a + i) + 1, a + j)
<1> DEFINE e == SubSeq(d, a + 1, b)
           x == SubSeq(e, i + 1, j)
           y == SubSeq(d, (a + i) + 1, a + j)
<1>1. /\ e \in Seq(T) /\ Len(e) = b - a /\ b - a \in Nat /\ a \in Nat
      /\ \A k \in 1 .. b - a : e[k] = d[a + k]
  BY PartMembers
<1>2. a + i \in 0 .. Len(d) /\ a + j \in a + i .. Len(d) /\ (a + j) - (a + i) = j - i
  BY <1>1
<1>3. /\ y \in Seq(T) /\ Len(y) = j - i
      /\ \A k \in 1 .. j - i : y[k] = d[(a + i) + k]
  <2>1. /\ y \in Seq(T) /\ Len(y) = (a + j) - (a + i)
        /\ \A k \in 1 .. (a + j) - (a + i) : y[k] = d[(a + i) + k]
    BY <1>2, PartMembers
  <2> HIDE DEF y
  <2>2. QED
    BY <1>2, <2>1
<1> HIDE DEF e
<1>4. i \in 0 .. Len(e) /\ j \in i .. Len(e)
  BY <1>1
<1>5. /\ x \in Seq(T) /\ Len(x) = j - i
      /\ \A k \in 1 .. j - i : x[k] = e[i + k]
  BY <1>1, <1>4, PartMembers
<1> HIDE DEF x, y
<1>6. ASSUME NEW k \in 1 .. j - i PROVE x[k] = y[k]
  <2>1. i + k \in 1 .. b - a /\ a + (i + k) = (a + i) + k
    BY <1>1
  <2>2. QED
    BY <1>1, <1>3, <1>5, <2>1
<1>7. Len(x) = Len(y) /\ \A k \in 1 .. Len(x) : x[k] = y[k]
  BY <1>3, <1>5, <1>6
<1>8. x = y
  BY <1>3, <1>5, <1>7, SameMembers
<1>9. QED
  BY <1>8 DEF x, y, e

(* Parts laid end to end make up what they cover.                          *)
Tiles(s, d, x, m) ==
  /\ m \in Nat
  /\ x \in [0 .. m -> 0 .. Len(d)]
  /\ \A k \in 1 .. m : x[k - 1] <= x[k]
  /\ Len(s) = m
  /\ \A k \in 1 .. m : s[k] = SubSeq(d, x[k - 1] + 1, x[k])

(* Parts that tile a stretch of a sequence flatten to that stretch.        *)
LEMMA TilesCover ==
  ASSUME NEW T, NEW d \in Seq(T), NEW s \in Seq(Seq(T)), NEW x, NEW m, Tiles(s, d, x, m)
  PROVE  FlattenSeq(s) = SubSeq(d, x[0] + 1, x[m]) /\ x[0] <= x[m]
<1>1. /\ m \in Nat /\ x \in [0 .. m -> 0 .. Len(d)] /\ \A k \in 1 .. m : x[k - 1] <= x[k]
      /\ Len(s) = m /\ \A k \in 1 .. m : s[k] = SubSeq(d, x[k - 1] + 1, x[k])
      /\ Len(d) \in Nat
  <2>1. Len(d) \in Nat
    OBVIOUS
  <2>2. QED
    BY <2>1, Zenon DEF Tiles
<1> DEFINE a == x[0]
           S == {k \in Nat : k <= m => a <= x[k]}
           f == [k \in 0 .. m |-> SubSeq(d, a + 1, x[k])]
<1>2. a \in 0 .. Len(d) /\ \A k \in 0 .. m : x[k] \in 0 .. Len(d)
  BY <1>1
<1>3. \A k \in 0 .. m : a <= x[k]
  <2>1. 0 \in S
    BY <1>2
  <2>2. ASSUME NEW k \in Nat, k \in S PROVE k + 1 \in S
    <3>1. k + 1 <= m => k + 1 \in 1 .. m /\ (k + 1) - 1 = k /\ k \in 0 .. m /\ k + 1 \in 0 .. m
      BY <1>1
    <3>2. k + 1 <= m => a <= x[k] /\ x[k] <= x[k + 1]
      BY <1>1, <2>2, <3>1
    <3>3. QED
      BY <1>2, <3>1, <3>2
  <2>3. Nat \subseteq S
    <3> HIDE DEF S
    <3> QED BY <2>1, <2>2, NatSetInduction
  <2>4. QED
    BY <1>1, <2>3
<1>4. f[0] = <<>>
  <2>1. SubSeq(d, a + 1, a) = <<>>
    BY <1>2, EmptyPart
  <2>2. QED
    BY <1>1, <2>1
<1>5. ASSUME NEW k \in 1 .. m PROVE f[k] = f[k - 1] \o s[k]
  <2>1. k - 1 \in 0 .. m /\ k \in 0 .. m
    BY <1>1
  <2>2. x[k - 1] \in a .. Len(d) /\ x[k] \in x[k - 1] .. Len(d)
    BY <1>1, <1>2, <1>3, <2>1
  <2>3. SubSeq(d, a + 1, x[k]) = SubSeq(d, a + 1, x[k - 1]) \o SubSeq(d, x[k - 1] + 1, x[k])
    BY <1>2, <2>2, PartsJoin
  <2>4. QED
    BY <1>1, <2>1, <2>3
<1>6. FlattenSeq(s) = f[m]
  <2> HIDE DEF f
  <2> QED BY <1>1, <1>4, <1>5, FlattenIs
<1>7. QED
  <2>1. m \in 0 .. m
    BY <1>1
  <2>2. f[m] = SubSeq(d, x[0] + 1, x[m])
    BY <2>1
  <2>3. x[0] <= x[m]
    BY <1>3, <2>1
  <2>4. QED
    BY <1>1, <1>6, <2>2, <2>3

(* The place in its chunk of the unit a byte belongs to.                   *)
PlaceAfter(d, i, before) ==
  IF i \notin UnitStarts(d) THEN before
  ELSE IF i = 1 \/ d[i - 1] \in {Newline, Invalid} \/ before = MaxChunkUnits THEN 1
  ELSE before + 1

IsPlace(d, r) ==
  /\ r \in [0 .. Len(d) -> Nat]
  /\ \A i \in 1 .. Len(d) : r[i] = PlaceAfter(d, i, r[i - 1])

Place(d) == CHOOSE r : IsPlace(d, r)

ChunkStarts(d) == {i \in UnitStarts(d) : Place(d)[i] = 1}

(* The place of a character follows from the one before it.                *)
LEMMA PlaceIs ==
  ASSUME NEW d \in Seq(Char)
  PROVE  IsPlace(d, Place(d))
<1> DEFINE n == Len(d)
           Step == [x \in Nat \X (1 .. n) |-> PlaceAfter(d, x[2], x[1])]
<1>1. n \in Nat /\ 0 \in Nat
  OBVIOUS
<1>2. Step \in [Nat \X (1 .. n) -> Nat]
  <2>1. \A x \in Nat \X (1 .. n) : PlaceAfter(d, x[2], x[1]) \in Nat
    BY DEF PlaceAfter
  <2>2. QED
    BY <2>1
<1>3. PICK r : IsRecursion(r, n, Nat, 0, Step)
  <2> HIDE DEF Step, n
  <2> QED BY <1>1, <1>2, RecursionExists
<1>4. r \in [0 .. n -> Nat] /\ \A i \in 1 .. n : r[i] = Step[<<r[i - 1], i>>]
  BY <1>3 DEF IsRecursion
<1>5. \A i \in 1 .. n : r[i] = PlaceAfter(d, i, r[i - 1])
  <2>1. \A i \in 1 .. n : i - 1 \in 0 .. n
    BY <1>1
  <2>2. \A i \in 1 .. n : r[i - 1] \in Nat
    BY <1>4, <2>1
  <2>3. \A v \in Nat : \A i \in 1 .. n : Step[<<v, i>>] = PlaceAfter(d, i, v)
    OBVIOUS
  <2> HIDE DEF Step
  <2>4. QED
    BY <1>4, <2>2, <2>3
<1>6. IsPlace(d, r)
  BY <1>4, <1>5 DEF IsPlace
<1>7. QED
  BY <1>6 DEF Place

(* The first byte begins a unit and a chunk.                               *)
LEMMA StartsBegin ==
  ASSUME NEW d \in Seq(Char)
  PROVE  /\ Begins(UnitStarts(d), Len(d))
         /\ Begins(ChunkStarts(d), Len(d))
         /\ Begins(LineStarts(d), Len(d))
         /\ Len(d) # 0 => Place(d)[1] = 1
<1>1. Len(d) \in Nat
  OBVIOUS
<1>2. Begins(UnitStarts(d), Len(d)) /\ Begins(LineStarts(d), Len(d))
  BY <1>1 DEF Begins, UnitStarts, LineStarts
<1>3. Len(d) # 0 => Place(d)[1] = 1
  <2> SUFFICES ASSUME Len(d) # 0 PROVE Place(d)[1] = 1
    OBVIOUS
  <2>1. 1 \in 1 .. Len(d) /\ 1 \in UnitStarts(d)
    BY <1>1 DEF UnitStarts
  <2>2. Place(d)[1] = PlaceAfter(d, 1, Place(d)[1 - 1])
    BY <2>1, PlaceIs DEF IsPlace
  <2>3. QED
    BY <2>1, <2>2 DEF PlaceAfter
<1>4. Begins(ChunkStarts(d), Len(d))
  BY <1>2, <1>3 DEF Begins, ChunkStarts
<1>5. QED
  BY <1>2, <1>3, <1>4

(* A window that begins with a chunk is cut as the document is.            *)
CutAlike(e, d, a) ==
  \A j \in 1 .. Len(e) :
    /\ j \in UnitStarts(e) <=> a + j \in UnitStarts(d)
    /\ Place(e)[j] = Place(d)[a + j]

(* A part that begins with a chunk is cut as the document is.              *)
LEMMA WindowAlike ==
  ASSUME NEW d \in Seq(Char), NEW a \in 0 .. Len(d), NEW b \in a .. Len(d),
         a # b => a + 1 \in ChunkStarts(d)
  PROVE  CutAlike(SubSeq(d, a + 1, b), d, a)
<1> DEFINE e == SubSeq(d, a + 1, b)
           n == b - a
           Alike(j) == /\ j \in UnitStarts(e) <=> a + j \in UnitStarts(d)
                       /\ Place(e)[j] = Place(d)[a + j]
           S == {j \in Nat : j + 1 <= n => Alike(j + 1)}
<1>1. /\ e \in Seq(Char) /\ Len(e) = n /\ Len(d) \in Nat /\ n \in Nat /\ a \in Nat
      /\ \A j \in 1 .. n : e[j] = d[a + j] /\ a + j \in 1 .. Len(d)
  BY PartMembers
<1> HIDE DEF e
<1>2. \A i \in 1 .. Len(d) : Place(d)[i] = PlaceAfter(d, i, Place(d)[i - 1])
  BY PlaceIs DEF IsPlace
<1>3. \A j \in 1 .. n : Place(e)[j] = PlaceAfter(e, j, Place(e)[j - 1])
  BY <1>1, PlaceIs DEF IsPlace
<1>4. /\ \A j \in 1 .. n : j \in UnitStarts(e) <=> (j = 1 \/ e[j] # e[j - 1] \/ e[j] = Underscore)
      /\ \A i \in 1 .. Len(d) : i \in UnitStarts(d) <=> (i = 1 \/ d[i] # d[i - 1] \/ d[i] = Underscore)
  BY <1>1 DEF UnitStarts
<1>5. n # 0 => Alike(1)
  <2> SUFFICES ASSUME n # 0 PROVE Alike(1)
    OBVIOUS
  <2>1. 1 \in 1 .. n /\ a # b
    BY <1>1
  <2>2. 1 \in UnitStarts(e) /\ a + 1 \in UnitStarts(d) /\ Place(d)[a + 1] = 1
    BY <1>4, <2>1 DEF ChunkStarts
  <2>3. Place(e)[1] = 1
    BY <1>1, <2>1, StartsBegin
  <2>4. QED
    BY <2>2, <2>3
<1>6. 0 \in S
  BY <1>1, <1>5
<1>7. ASSUME NEW j \in Nat, j \in S PROVE j + 1 \in S
  <2> DEFINE k == j + 1
  <2> SUFFICES ASSUME k + 1 <= n PROVE Alike(k + 1)
    OBVIOUS
  <2>1. /\ k \in 1 .. n /\ k + 1 \in 1 .. n /\ (k + 1) - 1 = k /\ k + 1 # 1
        /\ (a + (k + 1)) - 1 = a + k /\ a + (k + 1) # 1
    BY <1>1
  <2>2. Alike(k)
    BY <1>7, <2>1
  <2>3. /\ e[k + 1] = d[a + (k + 1)] /\ e[k] = d[a + k] /\ a + (k + 1) \in 1 .. Len(d)
    BY <1>1, <2>1
  <2> HIDE DEF k
  <2>4. k + 1 \in UnitStarts(e) <=> a + (k + 1) \in UnitStarts(d)
    BY <1>4, <2>1, <2>3
  <2>5. PlaceAfter(e, k + 1, Place(e)[k]) = PlaceAfter(d, a + (k + 1), Place(d)[a + k])
    BY <2>1, <2>2, <2>3, <2>4 DEF PlaceAfter
  <2>6. /\ Place(e)[k + 1] = PlaceAfter(e, k + 1, Place(e)[k])
        /\ Place(d)[a + (k + 1)] = PlaceAfter(d, a + (k + 1), Place(d)[a + k])
    BY <1>2, <1>3, <2>1, <2>3
  <2>7. QED
    BY <2>4, <2>5, <2>6
<1>8. Nat \subseteq S
  <2> HIDE DEF S
  <2> QED BY <1>6, <1>7, NatSetInduction
<1>9. \A j \in 1 .. n : Alike(j)
  <2>1. \A j \in 1 .. n : j - 1 \in Nat /\ (j - 1) + 1 = j /\ j <= n
    BY <1>1
  <2>2. \A j \in 1 .. n : j - 1 \in S
    BY <1>8, <2>1
  <2>3. QED
    BY <2>1, <2>2
<1>10. CutAlike(e, d, a)
  BY <1>1, <1>9 DEF CutAlike
<1>11. QED
  BY <1>10 DEF e

(* No part begins within another.                                          *)
LEMMA NoneWithin ==
  ASSUME NEW n \in Nat, NEW B, NEW m, NEW x, Cuts(x, m, B, n),
         NEW k \in 1 .. m, NEW i \in x[k - 1] + 2 .. x[k]
  PROVE  i \notin B
<1>1. /\ m \in Nat /\ x \in [0 .. m -> 0 .. n]
      /\ \A j, h \in 0 .. m : j < h => x[j] < x[h]
      /\ \A h \in B : \E j \in 1 .. m : x[j - 1] + 1 = h
  BY DEF Cuts
<1> SUFFICES ASSUME i \in B PROVE FALSE
  OBVIOUS
<1>2. PICK j \in 1 .. m : x[j - 1] + 1 = i
  BY <1>1
<1>3. j - 1 \in 0 .. m /\ k - 1 \in 0 .. m /\ k \in 0 .. m /\ j \in Nat /\ k \in Nat
  BY <1>1
<1>4. x[j - 1] \in Nat /\ x[k - 1] \in Nat /\ x[k] \in Nat
  <2>1. x \in [0 .. m -> 0 .. n] /\ \A v \in 0 .. n : v \in Nat
    BY ONLY <1>1, n \in Nat
  <2>2. \A r \in 0 .. m : x[r] \in Nat
    BY ONLY <2>1
  <2>3. QED
    BY <1>3, <2>2
<1>5. x[k - 1] < x[j - 1] /\ x[j - 1] < x[k]
  BY <1>2, <1>4
<1>6. j - 1 < k
  <2> SUFFICES ASSUME ~ (j - 1 < k) PROVE FALSE
    OBVIOUS
  <2>1. k = j - 1 \/ k < j - 1
    BY <1>3
  <2>2. QED
    <3>1. CASE k = j - 1
      BY <1>4, <1>5, <3>1
    <3>2. CASE k < j - 1
      <4>1. x[k] < x[j - 1]
        BY <1>1, <1>3, <3>2
      <4>2. QED
        BY <1>4, <1>5, <4>1
    <3>3. QED
      BY <2>1, <3>1, <3>2
<1>7. k - 1 < j - 1
  <2> SUFFICES ASSUME ~ (k - 1 < j - 1) PROVE FALSE
    OBVIOUS
  <2>1. k - 1 = j - 1 \/ j - 1 < k - 1
    BY <1>3
  <2>2. QED
    <3>1. CASE k - 1 = j - 1
      BY <1>4, <1>5, <3>1
    <3>2. CASE j - 1 < k - 1
      <4>1. x[j - 1] < x[k - 1]
        BY <1>1, <1>3, <3>2
      <4>2. QED
        BY <1>4, <1>5, <4>1
    <3>3. QED
      BY <2>1, <3>1, <3>2
<1>8. QED
  BY <1>3, <1>6, <1>7

(* A unit repeats one character, and lies in one place of its chunk.       *)
LEMMA UnitUniform ==
  ASSUME NEW d \in Seq(Char), NEW m, NEW x, Cuts(x, m, UnitStarts(d), Len(d)),
         NEW k \in 1 .. m
  PROVE  \A i \in x[k - 1] + 1 .. x[k] :
           /\ d[i] = d[x[k - 1] + 1]
           /\ Place(d)[i] = Place(d)[x[k - 1] + 1]
<1> DEFINE a == x[k - 1]
           b == x[k]
           Same(i) == d[i] = d[a + 1] /\ Place(d)[i] = Place(d)[a + 1]
           S == {j \in Nat : a + 1 + j <= b => Same(a + 1 + j)}
<1>1. /\ Len(d) \in Nat /\ m \in Nat /\ k - 1 \in 0 .. m /\ k \in 0 .. m
      /\ x \in [0 .. m -> 0 .. Len(d)]
  BY DEF Cuts
<1>2. a \in 0 .. Len(d) /\ b \in 0 .. Len(d)
  BY <1>1
<1>3. \A i \in a + 2 .. b : i \notin UnitStarts(d)
  BY <1>1, NoneWithin
<1> HIDE DEF a, b
<1>4. ASSUME NEW i \in a + 2 .. b PROVE d[i] = d[i - 1] /\ Place(d)[i] = Place(d)[i - 1]
  <2>1. i \in 1 .. Len(d) /\ i \notin UnitStarts(d)
    BY <1>2, <1>3
  <2>2. d[i] = d[i - 1]
    BY <2>1 DEF UnitStarts
  <2>3. Place(d)[i] = PlaceAfter(d, i, Place(d)[i - 1])
    BY <2>1, PlaceIs DEF IsPlace
  <2>4. QED
    BY <2>1, <2>2, <2>3 DEF PlaceAfter
<1>5. 0 \in S
  BY <1>2
<1>6. ASSUME NEW j \in Nat, j \in S PROVE j + 1 \in S
  <2>1. a + 1 + (j + 1) <= b => /\ a + 1 + (j + 1) \in a + 2 .. b
                                /\ (a + 1 + (j + 1)) - 1 = a + 1 + j /\ a + 1 + j <= b
    BY <1>2
  <2>2. QED
    BY <1>4, <1>6, <2>1
<1>7. Nat \subseteq S
  <2> HIDE DEF S
  <2> QED BY <1>5, <1>6, NatSetInduction
<1>8. ASSUME NEW i \in a + 1 .. b PROVE Same(i)
  <2>1. i - (a + 1) \in Nat /\ a + 1 + (i - (a + 1)) = i /\ i <= b
    BY <1>2
  <2>2. i - (a + 1) \in S
    BY <1>7, <2>1
  <2>3. QED
    BY <2>1, <2>2
<1>9. QED
  BY <1>8 DEF a, b

(* The place of a unit is that of its first byte.                          *)
LEMMA RanksAre ==
  ASSUME NEW d \in Seq(Char), NEW m, NEW x, Cuts(x, m, UnitStarts(d), Len(d))
  PROVE  Ranks(d, PartsAt(x, m)) = [k \in 1 .. m |-> Place(d)[x[k - 1] + 1]]
<1> DEFINE units == PartsAt(x, m)
           Next1(k, f) == IF k = 1 \/ Closes(d, units[k - 1]) \/ f[k - 1] = MaxChunkUnits
                          THEN 1 ELSE f[k - 1] + 1
           Law(f) == f = [k \in DOMAIN units |->
                            IF k = 1 \/ Closes(d, units[k - 1]) \/ f[k - 1] = MaxChunkUnits
                            THEN 1 ELSE f[k - 1] + 1]
           r == [k \in 1 .. m |-> Place(d)[x[k - 1] + 1]]
<1>1. /\ Len(d) \in Nat /\ m \in Nat /\ x \in [0 .. m -> 0 .. Len(d)]
      /\ x[0] = 0 /\ \A j, k \in 0 .. m : j < k => x[j] < x[k]
      /\ \A k \in 1 .. m : x[k - 1] + 1 \in UnitStarts(d)
  BY DEF Cuts
<1>2. /\ DOMAIN units = 1 .. m
      /\ \A k \in 1 .. m : units[k] = [start |-> x[k - 1], end |-> x[k]]
  BY <1>1 DEF PartsAt
<1> HIDE DEF units
<1>3. \A k \in 1 .. m : r[k] = Place(d)[x[k - 1] + 1]
  OBVIOUS
<1>4. ASSUME NEW k \in 1 .. m PROVE r[k] = Next1(k, r)
  <2> DEFINE i == x[k - 1] + 1
  <2>1. k - 1 \in 0 .. m /\ k \in 0 .. m /\ x[k - 1] \in Nat
    BY <1>1
  <2>2. i \in UnitStarts(d) /\ i \in 1 .. Len(d)
    BY <1>1 DEF UnitStarts
  <2>3. Place(d)[i] = PlaceAfter(d, i, Place(d)[i - 1])
    BY <2>2, PlaceIs DEF IsPlace
  <2>4. CASE k = 1
    <3>1. i = 1 /\ r[k] = Place(d)[i]
      BY <1>1, <2>4
    <3>2. Place(d)[i] = 1
      BY <2>2, <2>3, <3>1 DEF PlaceAfter
    <3>3. QED
      BY <2>4, <3>1, <3>2
  <2>5. CASE k # 1
    <3>1. /\ k - 1 \in 1 .. m /\ (k - 1) - 1 \in 0 .. m /\ (k - 1) - 1 < k - 1
      BY <1>1, <2>5
    <3>2. x[(k - 1) - 1] < x[k - 1] /\ x[(k - 1) - 1] \in Nat
      BY <1>1, <2>1, <3>1
    <3>3. i - 1 \in x[(k - 1) - 1] + 1 .. x[k - 1] /\ i # 1
      BY <2>1, <3>2
    <3>4. /\ d[i - 1] = d[x[(k - 1) - 1] + 1]
          /\ Place(d)[i - 1] = Place(d)[x[(k - 1) - 1] + 1]
      BY <3>1, <3>3, UnitUniform
    <3>5. r[k - 1] = Place(d)[i - 1]
      BY <1>3, <3>1, <3>4
    <3>6. Closes(d, units[k - 1]) <=> d[i - 1] \in {Newline, Invalid}
      BY <1>2, <3>1, <3>4 DEF Closes
    <3>7. r[k] = Place(d)[i]
      BY <1>3
    <3> HIDE DEF i, r
    <3>8. QED
      BY <2>2, <2>3, <2>5, <3>3, <3>5, <3>6, <3>7 DEF PlaceAfter
  <2>6. QED
    BY <2>4, <2>5
<1>5. Law(r)
  <2>1. r = [k \in 1 .. m |-> r[k]]
    OBVIOUS
  <2> HIDE DEF r
  <2>2. QED
    BY <1>2, <1>4, <2>1
<1> DEFINE rank == CHOOSE f : Law(f)
<1>6. Law(rank)
  <2> HIDE DEF Law
  <2> QED BY <1>5
<1>7. Ranks(d, units) = rank
  BY DEF Ranks
<1> HIDE DEF rank, r
<1>8. \A k \in 1 .. m : rank[k] = Next1(k, rank)
  BY <1>2, <1>6
<1>9. rank = [k \in 1 .. m |-> rank[k]]
  BY <1>2, <1>6
<1> DEFINE S == {k \in Nat : k \in 1 .. m => rank[k] = r[k]}
<1>10. 0 \in S
  OBVIOUS
<1>11. ASSUME NEW k \in Nat, k \in S PROVE k + 1 \in S
  <2> SUFFICES ASSUME k + 1 \in 1 .. m PROVE rank[k + 1] = r[k + 1]
    OBVIOUS
  <2>1. (k + 1) - 1 = k /\ (k = 0 \/ k \in 1 .. m)
    BY <1>1
  <2>2. CASE k = 0
    BY <1>4, <1>8, <2>2
  <2>3. CASE k \in 1 .. m
    <3>1. rank[k] = r[k]
      BY <1>11, <2>3
    <3>2. Next1(k + 1, rank) = Next1(k + 1, r)
      BY <2>1, <3>1
    <3> HIDE DEF Next1
    <3>3. QED
      BY <1>4, <1>8, <3>2
  <2>4. QED
    BY <2>1, <2>2, <2>3
<1>12. Nat \subseteq S
  <2> HIDE DEF S
  <2> QED BY <1>10, <1>11, NatSetInduction
<1>13. \A k \in 1 .. m : rank[k] = r[k]
  BY <1>1, <1>12
<1>14. rank = [k \in 1 .. m |-> Place(d)[x[k - 1] + 1]]
  BY <1>3, <1>9, <1>13
<1>15. QED
  BY <1>7, <1>14 DEF units

(* A document of m units at x, in g chunks of units at y.                  *)
ChunkedAt(d, x, m, y, g) ==
  /\ Cuts(x, m, UnitStarts(d), Len(d))
  /\ Cuts(y, g, {k \in 1 .. m : Place(d)[x[k - 1] + 1] = 1}, m)

(* Every document is cut into units, and they into chunks.                 *)
LEMMA ChunkedExists ==
  ASSUME NEW d \in Seq(Char)
  PROVE  \E x, m, y, g : ChunkedAt(d, x, m, y, g)
<1>0. Len(d) \in Nat
  OBVIOUS
<1>1. PICK m, x : Cuts(x, m, UnitStarts(d), Len(d))
  BY <1>0, StartsBegin, CutsExist
<1> DEFINE G == {k \in 1 .. m : Place(d)[x[k - 1] + 1] = 1}
<1>2. m \in Nat /\ x \in [0 .. m -> 0 .. Len(d)] /\ x[0] = 0 /\ x[m] = Len(d)
      /\ \A j, k \in 0 .. m : j < k => x[j] < x[k]
  BY <1>1 DEF Cuts
<1>3. m # 0 => Len(d) # 0
  BY <1>0, <1>2
<1>4. m # 0 => Place(d)[x[1 - 1] + 1] = 1
  BY <1>2, <1>3, StartsBegin
<1>5. Begins(G, m)
  BY <1>2, <1>4 DEF Begins
<1>6. PICK g, y : Cuts(y, g, G, m)
  BY <1>2, <1>5, CutsExist
<1>7. ChunkedAt(d, x, m, y, g)
  BY <1>1, <1>6 DEF ChunkedAt
<1>8. QED
  BY <1>7

(* Units and chunks, as those cuts make them.                              *)
LEMMA ChunksAre ==
  ASSUME NEW d \in Seq(Char), NEW x, NEW m, NEW y, NEW g, ChunkedAt(d, x, m, y, g)
  PROVE  /\ Units(d) = PartsAt(x, m)
         /\ Chunks(d) = [c \in 1 .. g |-> SubSeq(PartsAt(x, m), y[c - 1] + 1, y[c])]
<1>0. Len(d) \in Nat
  OBVIOUS
<1>1. Cuts(x, m, UnitStarts(d), Len(d))
  BY DEF ChunkedAt
<1> DEFINE G == {k \in 1 .. m : Place(d)[x[k - 1] + 1] = 1}
           units == PartsAt(x, m)
           rank == Ranks(d, units)
           groups == Split({k \in DOMAIN units : rank[k] = 1}, Len(units))
<1>2. Cuts(y, g, G, m)
  BY DEF ChunkedAt
<1>3. m \in Nat /\ g \in Nat
  BY <1>1, <1>2 DEF Cuts
<1>4. UnitStarts(d) \in SUBSET (1 .. Len(d))
  BY DEF UnitStarts
<1>5. Units(d) = units
  <2>1. Split(UnitStarts(d), Len(d)) = PartsAt(x, m)
    BY <1>0, <1>1, <1>4, SplitAt
  <2>2. QED
    BY <2>1 DEF Units
<1>6. DOMAIN units = 1 .. m /\ Len(units) = m
  BY <1>3 DEF PartsAt
<1>7. \A k \in 1 .. m : rank[k] = Place(d)[x[k - 1] + 1]
  <2>1. rank = [k \in 1 .. m |-> Place(d)[x[k - 1] + 1]]
    BY <1>1, RanksAre
  <2> HIDE DEF rank
  <2>2. QED
    BY <2>1
<1> HIDE DEF units, rank
<1>8. {k \in DOMAIN units : rank[k] = 1} = G
  BY <1>6, <1>7
<1>9. groups = PartsAt(y, g)
  <2>1. G \in SUBSET (1 .. m)
    OBVIOUS
  <2> HIDE DEF G
  <2>2. Split(G, m) = PartsAt(y, g)
    BY <1>2, <1>3, <2>1, SplitAt
  <2>3. QED
    BY <1>6, <1>8, <2>2
<1>10. Chunks(d) = [c \in DOMAIN groups |-> Bytes(units, groups[c])]
  BY <1>5 DEF Chunks, rank
<1> HIDE DEF groups
<1>11. Chunks(d) = [c \in 1 .. g |-> SubSeq(units, y[c - 1] + 1, y[c])]
  BY <1>9, <1>10 DEF PartsAt, Bytes
<1>12. QED
  BY <1>5, <1>11 DEF units

(* Where each chunk ends.                                                  *)
ChunkEnds(x, y, g) == [c \in 0 .. g |-> x[y[c]]]

(* Where a chunk begins and ends in the document.                          *)
LEMMA ChunkCuts ==
  ASSUME NEW d \in Seq(Char), NEW x, NEW m, NEW y, NEW g, ChunkedAt(d, x, m, y, g)
  PROVE  Cuts(ChunkEnds(x, y, g), g, ChunkStarts(d), Len(d))
<1> DEFINE n == Len(d)
           G == {k \in 1 .. m : Place(d)[x[k - 1] + 1] = 1}
           z == ChunkEnds(x, y, g)
<1>0. n \in Nat
  OBVIOUS
<1>1. /\ m \in Nat /\ x \in [0 .. m -> 0 .. n] /\ x[0] = 0 /\ x[m] = n
      /\ \A j, k \in 0 .. m : j < k => x[j] < x[k]
      /\ \A k \in 1 .. m : x[k - 1] + 1 \in UnitStarts(d)
      /\ \A i \in UnitStarts(d) : \E k \in 1 .. m : x[k - 1] + 1 = i
  BY DEF ChunkedAt, Cuts
<1>2. /\ g \in Nat /\ y \in [0 .. g -> 0 .. m] /\ y[0] = 0 /\ y[g] = m
      /\ \A j, k \in 0 .. g : j < k => y[j] < y[k]
      /\ \A k \in 1 .. g : y[k - 1] + 1 \in G
      /\ \A i \in G : \E k \in 1 .. g : y[k - 1] + 1 = i
  BY DEF ChunkedAt, Cuts
<1> HIDE DEF n
<1>3. \A c \in 0 .. g : y[c] \in 0 .. m /\ z[c] = x[y[c]] /\ z[c] \in 0 .. n
  BY <1>1, <1>2 DEF ChunkEnds
<1>4. z \in [0 .. g -> 0 .. n]
  BY <1>3 DEF ChunkEnds
<1> HIDE DEF z
<1>5. z[0] = 0 /\ z[g] = n
  BY <1>1, <1>2, <1>3
<1>6. \A j, k \in 0 .. g : j < k => z[j] < z[k]
  BY <1>1, <1>2, <1>3
<1>7. ASSUME NEW c \in 1 .. g PROVE z[c - 1] + 1 \in ChunkStarts(d)
  <2>1. c - 1 \in 0 .. g
    BY <1>2
  <2>2. y[c - 1] + 1 \in G /\ y[c - 1] \in Nat
    BY <1>2, <1>3, <2>1
  <2>3. (y[c - 1] + 1) - 1 = y[c - 1]
    BY <2>2
  <2>4. Place(d)[x[y[c - 1]] + 1] = 1 /\ x[y[c - 1]] + 1 \in UnitStarts(d)
    BY <1>1, <2>2, <2>3
  <2>5. QED
    BY <1>3, <2>1, <2>4 DEF ChunkStarts
<1>8. ASSUME NEW i \in ChunkStarts(d) PROVE \E c \in 1 .. g : z[c - 1] + 1 = i
  <2>1. i \in UnitStarts(d) /\ Place(d)[i] = 1
    BY DEF ChunkStarts
  <2>2. PICK k \in 1 .. m : x[k - 1] + 1 = i
    BY <1>1, <2>1
  <2>3. k \in G
    BY <2>1, <2>2
  <2>4. PICK c \in 1 .. g : y[c - 1] + 1 = k
    BY <1>2, <2>3
  <2>5. c - 1 \in 0 .. g /\ y[c - 1] = k - 1
    BY <1>2, <1>3, <2>4
  <2>6. QED
    BY <1>3, <2>2, <2>5
<1>9. Cuts(z, g, ChunkStarts(d), n)
  BY <1>2, <1>4, <1>5, <1>6, <1>7, <1>8 DEF Cuts
<1>10. QED
  BY <1>9 DEF z, n

Moved(span, a) == [start |-> a + span.start, end |-> a + span.end]

MovedAll(spans, a) == [k \in 1 .. Len(spans) |-> Moved(spans[k], a)]

(* The bytes of the chunk that ends at z[c].                               *)
Piece(d, z, c) == SubSeq(d, z[c - 1] + 1, z[c])

(* A chunk spans its first unit to its last.                               *)
LEMMA ChunkWhole ==
  ASSUME NEW d \in Seq(Char), NEW x, NEW m, NEW y, NEW g, ChunkedAt(d, x, m, y, g),
         NEW c \in 1 .. g
  PROVE  Whole(Chunks(d)[c]) =
           [start |-> ChunkEnds(x, y, g)[c - 1], end |-> ChunkEnds(x, y, g)[c]]
<1>1. m \in Nat /\ x \in [0 .. m -> 0 .. Len(d)] /\ Len(d) \in Nat
  BY DEF ChunkedAt, Cuts
<1>2. /\ g \in Nat /\ y \in [0 .. g -> 0 .. m]
      /\ \A j, k \in 0 .. g : j < k => y[j] < y[k]
  BY DEF ChunkedAt, Cuts
<1> DEFINE units == PartsAt(x, m)
           part == SubSeq(units, y[c - 1] + 1, y[c])
           a == y[c - 1]
           b == y[c]
<1>3. c - 1 \in 0 .. g /\ c \in 0 .. g /\ c - 1 < c
  BY <1>2
<1>4. a \in 0 .. m /\ b \in 0 .. m /\ a < b
  BY <1>2, <1>3
<1>5. /\ units \in Seq([start : Nat, end : Nat]) /\ Len(units) = m
      /\ \A k \in 1 .. m : units[k] = [start |-> x[k - 1], end |-> x[k]]
  <2>1. \A k \in 1 .. m : k - 1 \in 0 .. m /\ k \in 0 .. m
    BY <1>1
  <2>2. \A k \in 1 .. m : x[k - 1] \in Nat /\ x[k] \in Nat
    BY <1>1, <2>1
  <2>3. QED
    BY <1>1, <2>2 DEF PartsAt
<1> HIDE DEF units
<1>6. a \in 0 .. Len(units) /\ b \in a .. Len(units)
  BY <1>4, <1>5
<1> HIDE DEF a, b
<1>7. /\ Len(SubSeq(units, a + 1, b)) = b - a /\ b - a \in Nat /\ a \in Nat /\ b \in Nat
      /\ \A j \in 1 .. b - a : SubSeq(units, a + 1, b)[j] = units[a + j]
  BY <1>5, <1>6, PartMembers
<1>8. 1 \in 1 .. b - a /\ b - a \in 1 .. b - a /\ a + (b - a) = b /\ (a + 1) - 1 = a
      /\ a + 1 \in 1 .. m /\ b \in 1 .. m
  BY <1>1, <1>4, <1>7
<1>9. part = SubSeq(units, a + 1, b)
  BY DEF a, b
<1> HIDE DEF part
<1>10. part[1] = units[a + 1] /\ part[Len(part)] = units[b]
  BY <1>7, <1>8, <1>9
<1>11. part[1].start = x[a] /\ part[Len(part)].end = x[b]
  <2>1. units[a + 1] = [start |-> x[(a + 1) - 1], end |-> x[a + 1]]
    BY <1>5, <1>8
  <2>2. units[b] = [start |-> x[b - 1], end |-> x[b]]
    BY <1>5, <1>8
  <2>3. QED
    BY <1>8, <1>10, <2>1, <2>2
<1>12. Chunks(d)[c] = part
  <2>1. Chunks(d) = [h \in 1 .. g |-> SubSeq(PartsAt(x, m), y[h - 1] + 1, y[h])]
    BY ChunksAre
  <2>2. QED
    BY <2>1 DEF part, units
<1>13. QED
  BY <1>3, <1>11, <1>12 DEF Whole, ChunkEnds, a, b

(* By itself a chunk is cut into the same units, and is one chunk.         *)
LEMMA ChunkAlone ==
  ASSUME NEW d \in Seq(Char), NEW x, NEW m, NEW y, NEW g, ChunkedAt(d, x, m, y, g),
         NEW c \in 1 .. g
  PROVE  LET z == ChunkEnds(x, y, g)
             e == Piece(d, z, c)
         IN  /\ Chunks(d)[c] = MovedAll(Units(e), z[c - 1])
             /\ Chunks(e) = <<Units(e)>>
<1> DEFINE z == ChunkEnds(x, y, g)
           a == z[c - 1]
           b == z[c]
           e == SubSeq(d, a + 1, b)
           h == y[c - 1]
           l == y[c] - y[c - 1]
           w == [j \in 0 .. l |-> x[h + j] - a]
<1>1. /\ m \in Nat /\ x \in [0 .. m -> 0 .. Len(d)] /\ Len(d) \in Nat
      /\ \A j, k \in 0 .. m : j < k => x[j] < x[k]
      /\ \A k \in 1 .. m : x[k - 1] + 1 \in UnitStarts(d)
      /\ \A i \in UnitStarts(d) : \E k \in 1 .. m : x[k - 1] + 1 = i
  BY DEF ChunkedAt, Cuts
<1>2. /\ g \in Nat /\ y \in [0 .. g -> 0 .. m]
      /\ \A j, k \in 0 .. g : j < k => y[j] < y[k]
  BY DEF ChunkedAt, Cuts
<1>3. Cuts(z, g, ChunkStarts(d), Len(d))
  BY ChunkCuts
<1>4. c - 1 \in 0 .. g /\ c \in 0 .. g /\ c - 1 < c
  BY <1>2
<1>5. /\ h \in 0 .. m /\ h + l \in 0 .. m /\ l \in Nat /\ l > 0 /\ h + l = y[c]
      /\ h \in Nat
  <2>1. y[c - 1] \in 0 .. m /\ y[c] \in 0 .. m /\ y[c - 1] < y[c]
    BY <1>2, <1>4
  <2>2. QED
    BY <1>1, <2>1
<1>6. a = x[h] /\ b = x[h + l] /\ a < b /\ a \in 0 .. Len(d) /\ b \in a .. Len(d)
      /\ a + 1 \in ChunkStarts(d)
  <2>1. a = x[h] /\ b = x[h + l]
    BY <1>4, <1>5 DEF ChunkEnds
  <2>2. a + 1 \in ChunkStarts(d)
    <3> HIDE DEF z
    <3> QED BY <1>3 DEF Cuts
  <2>3. a < b /\ a \in 0 .. Len(d) /\ b \in 0 .. Len(d)
    BY <1>1, <1>5, <2>1
  <2>4. QED
    BY <1>1, <2>1, <2>2, <2>3
<1>7. \A k \in 1 .. m : k - 1 \in 0 .. m /\ k \in 0 .. m
  BY <1>1
<1>8. \A i \in a + 2 .. b : i \notin ChunkStarts(d)
  <2> HIDE DEF z
  <2> QED BY <1>1, <1>3, NoneWithin
<1>9. Chunks(d)[c] = SubSeq(PartsAt(x, m), h + 1, h + l)
  <2>1. Chunks(d) = [i \in 1 .. g |-> SubSeq(PartsAt(x, m), y[i - 1] + 1, y[i])]
    BY ChunksAre
  <2>2. QED
    BY <1>5, <2>1
<1> HIDE DEF z, a, b, h, l
<1>10. /\ e \in Seq(Char) /\ Len(e) = b - a /\ b - a \in Nat /\ a \in Nat /\ b \in Nat
       /\ \A j \in 1 .. b - a : e[j] = d[a + j] /\ a + j \in 1 .. Len(d)
  <2>1. a \in 0 .. Len(d) /\ b \in a .. Len(d)
    BY <1>6
  <2>2. QED
    BY <2>1, PartMembers
<1>11. CutAlike(e, d, a)
  BY <1>6, WindowAlike
<1> HIDE DEF e
<1>12. \A j \in 0 .. l : /\ w[j] = x[h + j] - a /\ h + j \in 0 .. m /\ x[h + j] \in a .. b
                         /\ x[h + j] \in Nat
  <2>1. \A j \in 0 .. l : h + j \in 0 .. m
    BY <1>1, <1>5
  <2>2. ASSUME NEW j \in 0 .. l PROVE x[h + j] \in a .. b /\ x[h + j] \in Nat
    <3>1. x[h + j] \in Nat
      BY <1>1, <2>1
    <3>2. x[h] <= x[h + j]
      <4>1. j = 0 \/ h < h + j
        BY <1>5
      <4>2. QED
        <5>1. h \in 0 .. m /\ h + j \in 0 .. m /\ x[h] \in Nat /\ h + 0 = h
          BY <1>1, <1>5, <2>1
        <5>2. h < h + j => x[h] < x[h + j]
          BY <1>1, <5>1
        <5>3. QED
          BY <3>1, <4>1, <5>1, <5>2
    <3>3. x[h + j] <= x[h + l]
      <4>1. j = l \/ h + j < h + l
        BY <1>5
      <4>2. QED
        <5>1. CASE j = l
          BY <3>1, <5>1
        <5>2. CASE h + j < h + l
          <6>1. x[h + j] < x[h + l] /\ x[h + l] \in Nat
            BY <1>1, <1>5, <2>1, <5>2
          <6>2. QED
            BY <3>1, <6>1
        <5>3. QED
          BY <4>1, <5>1, <5>2
    <3>4. QED
      BY <1>6, <1>10, <3>1, <3>2, <3>3
  <2>3. QED
    BY <2>1, <2>2
<1>13. w = [j \in 0 .. l |-> w[j]]
  OBVIOUS
<1> HIDE DEF w
<1>14. Cuts(w, l, UnitStarts(e), Len(e))
  <2>1. w \in [0 .. l -> 0 .. Len(e)]
    <3>1. \A j \in 0 .. l : w[j] \in 0 .. Len(e)
      BY <1>10, <1>12
    <3>2. QED
      BY <1>13, <3>1
  <2>2. w[0] = 0 /\ w[l] = Len(e)
    <3>1. 0 \in 0 .. l /\ l \in 0 .. l /\ h + 0 = h
      BY <1>5
    <3>2. QED
      <4>1. w[0] = x[h + 0] - a /\ w[l] = x[h + l] - a
        BY <1>12, <3>1
      <4>2. x[h + 0] = a /\ x[h + l] = b
        BY <1>6, <3>1
      <4>3. QED
        BY <1>10, <4>1, <4>2
  <2>3. ASSUME NEW j \in 0 .. l, NEW k \in 0 .. l, j < k PROVE w[j] < w[k]
    <3>1. h + j < h + k
      BY <1>5, <2>3
    <3>2. x[h + j] < x[h + k]
      BY <1>1, <1>12, <3>1
    <3>3. QED
      BY <1>10, <1>12, <3>2
  <2>4. ASSUME NEW k \in 1 .. l PROVE w[k - 1] + 1 \in UnitStarts(e)
    <3>1. k - 1 \in 0 .. l /\ k \in 0 .. l /\ h + k \in 1 .. m /\ (h + k) - 1 = h + (k - 1)
      BY <1>1, <1>5
    <3>2. x[h + (k - 1)] + 1 \in UnitStarts(d)
      BY <1>1, <3>1
    <3>3. w[k - 1] < w[k]
      BY <1>5, <2>3, <3>1
    <3>4. w[k - 1] + 1 \in 1 .. Len(e) /\ a + (w[k - 1] + 1) = x[h + (k - 1)] + 1
      <4> DEFINE X == x[h + (k - 1)]
                 u == w[k - 1]
                 t == w[k]
      <4>1. u = X - a /\ X \in Nat /\ X \in a .. b
        BY <1>12, <3>1
      <4>2. u \in 0 .. Len(e) /\ t \in 0 .. Len(e) /\ u < t
        BY <2>1, <3>1, <3>3
      <4> HIDE DEF X, u, t
      <4>3. a \in Nat /\ b \in Nat /\ Len(e) = b - a
        BY <1>10
      <4>4. Len(e) \in Nat /\ u \in Nat /\ t \in Nat
        BY <4>2, <4>3
      <4>5. u + 1 \in 1 .. Len(e)
        BY <4>2, <4>4
      <4>6. a + (u + 1) = X + 1
        BY <4>1, <4>3, <4>4
      <4>7. QED
        BY <4>5, <4>6 DEF X, u
    <3>5. QED
      BY <1>11, <3>2, <3>4 DEF CutAlike
  <2>5. ASSUME NEW i \in UnitStarts(e) PROVE \E k \in 1 .. l : w[k - 1] + 1 = i
    <3>1. i \in 1 .. Len(e)
      BY DEF UnitStarts
    <3>2. a + i \in UnitStarts(d)
      BY <1>11, <3>1 DEF CutAlike
    <3>3. PICK k \in 1 .. m : x[k - 1] + 1 = a + i
      BY <1>1, <3>2
    <3>4. x[k - 1] \in Nat /\ k - 1 \in 0 .. m /\ x[k - 1] >= x[h] /\ x[k - 1] < x[h + l]
      <4>1. k - 1 \in 0 .. m
        BY <1>7
      <4>2. x[k - 1] \in Nat
        BY <1>1, <4>1
      <4>3. x[k - 1] >= a /\ x[k - 1] < b
        BY <1>10, <3>1, <3>3, <4>2
      <4>4. QED
        BY <1>6, <4>1, <4>2, <4>3
    <3>5. k - 1 >= h
      <4> SUFFICES ASSUME k - 1 < h PROVE FALSE
        BY <1>5, <3>4
      <4>1. x[k - 1] < x[h] /\ x[h] \in Nat
        BY <1>1, <1>5, <3>4
      <4>2. QED
        BY <3>4, <4>1
    <3>6. k - 1 < h + l
      <4> SUFFICES ASSUME ~ (k - 1 < h + l) PROVE FALSE
        OBVIOUS
      <4>1. k - 1 = h + l \/ h + l < k - 1
        BY <1>5, <3>4
      <4>2. x[h + l] <= x[k - 1] /\ x[h + l] \in Nat
        <5>1. x[h + l] \in Nat
          BY <1>1, <1>5
        <5>2. CASE k - 1 = h + l
          BY <5>1, <5>2
        <5>3. CASE h + l < k - 1
          <6>1. x[h + l] < x[k - 1]
            BY <1>1, <1>5, <3>4, <5>3
          <6>2. QED
            BY <3>4, <5>1, <6>1
        <5>4. QED
          BY <4>1, <5>2, <5>3
      <4>3. QED
        BY <3>4, <4>2
    <3>7. k - h \in 1 .. l /\ (k - h) - 1 \in 0 .. l /\ h + ((k - h) - 1) = k - 1
      BY <1>5, <3>4, <3>5, <3>6
    <3>8. w[(k - h) - 1] + 1 = i
      <4>1. w[(k - h) - 1] = x[h + ((k - h) - 1)] - a
        BY <1>12, <3>7
      <4>2. w[(k - h) - 1] = x[k - 1] - a
        BY <3>7, <4>1
      <4> DEFINE u == w[(k - h) - 1]
                 v == x[k - 1]
      <4>3. a \in Nat /\ i \in Nat
        BY <1>10, <3>1
      <4>4. v \in Nat /\ v + 1 = a + i
        BY <3>3, <3>4
      <4> HIDE DEF u, v
      <4>5. u + 1 = i
        BY <4>2, <4>3, <4>4 DEF u, v
      <4>6. QED
        BY <4>5 DEF u
    <3>9. QED
      BY <3>7, <3>8
  <2>6. QED
    BY <1>5, <2>1, <2>2, <2>3, <2>4, <2>5 DEF Cuts
<1> DEFINE o == [j \in 0 .. 1 |-> IF j = 0 THEN 0 ELSE l]
           G == {k \in 1 .. l : Place(e)[w[k - 1] + 1] = 1}
<1>15. G = {1}
  <2>0. w \in [0 .. l -> 0 .. Len(e)] /\ w[0] = 0 /\ \A j, k \in 0 .. l : j < k => w[j] < w[k]
    BY <1>14 DEF Cuts
  <2>1. 1 \in G
    <3>1. Len(e) # 0
      BY <1>6, <1>10
    <3>2. Place(e)[1] = 1
      BY <1>10, <3>1, StartsBegin
    <3>3. 1 \in 1 .. l /\ w[1 - 1] + 1 = 1
      BY <1>5, <2>0
    <3>4. QED
      BY <3>2, <3>3
  <2>2. ASSUME NEW k \in 1 .. l, k # 1 PROVE k \notin G
    <3>1. k - 1 \in 0 .. l /\ k \in 0 .. l /\ 0 < k - 1 /\ k - 1 < k /\ 0 \in 0 .. l
      BY <1>5, <2>2
    <3>2. w[k - 1] \in 1 .. Len(e) /\ w[k - 1] < w[k] /\ w[k] \in 0 .. Len(e)
      <4>1. w[0] < w[k - 1] /\ w[k - 1] < w[k]
        BY <2>0, <3>1
      <4>2. w[k - 1] \in 0 .. Len(e) /\ w[k] \in 0 .. Len(e) /\ w[0] = 0
        BY <2>0, <3>1
      <4>3. QED
        BY <1>10, <4>1, <4>2
    <3> DEFINE i == w[k - 1] + 1
    <3>3. i \in 1 .. Len(e) /\ a + i \in a + 2 .. b
      <4>1. Len(e) = b - a /\ a \in Nat /\ b \in Nat
        BY <1>10
      <4>2. QED
        <5> DEFINE u == w[k - 1]
                   t == w[k]
        <5>1. u \in 1 .. Len(e) /\ u < t /\ t \in 0 .. Len(e)
          BY <3>2
        <5> HIDE DEF u, t
        <5>2. u + 1 \in 1 .. Len(e) /\ a + (u + 1) \in a + 2 .. b
          BY <4>1, <5>1
        <5>3. QED
          BY <5>2 DEF u
    <3>4. i \in UnitStarts(e)
      BY <1>14 DEF Cuts
    <3> HIDE DEF i
    <3>5. a + i \in UnitStarts(d) /\ a + i \notin ChunkStarts(d)
      BY <1>8, <1>11, <3>3, <3>4 DEF CutAlike
    <3>6. Place(e)[i] # 1
      BY <1>11, <3>3, <3>5 DEF CutAlike, ChunkStarts
    <3>7. QED
      BY <3>6 DEF i
  <2>3. QED
    BY <2>1, <2>2
<1>16. Cuts(o, 1, {1}, l)
  BY <1>5 DEF Cuts
<1>17. ChunkedAt(e, w, l, o, 1)
  BY <1>14, <1>15, <1>16 DEF ChunkedAt
<1>18. Units(e) = PartsAt(w, l) /\ Chunks(e) = [i \in 1 .. 1 |-> SubSeq(PartsAt(w, l), o[i - 1] + 1, o[i])]
  <2> HIDE DEF o
  <2> DEFINE one == 1
  <2>1. e \in Seq(Char) /\ ChunkedAt(e, w, l, o, one)
    BY <1>10, <1>17
  <2> HIDE DEF one, w, e, l
  <2>2. Units(e) = PartsAt(w, l) /\ Chunks(e) = [i \in 1 .. one |-> SubSeq(PartsAt(w, l), o[i - 1] + 1, o[i])]
    BY ONLY <2>1, ChunksAre
  <2>3. QED
    BY <2>2 DEF one
<1>19. /\ PartsAt(w, l) \in Seq([start : Nat, end : Nat]) /\ Len(PartsAt(w, l)) = l
       /\ \A k \in 1 .. l : PartsAt(w, l)[k] = [start |-> w[k - 1], end |-> w[k]]
  <2>1. w \in [0 .. l -> 0 .. Len(e)]
    BY <1>14 DEF Cuts
  <2>2. \A k \in 1 .. l : k - 1 \in 0 .. l /\ k \in 0 .. l
    BY <1>5
  <2>3. \A k \in 1 .. l : w[k - 1] \in Nat /\ w[k] \in Nat
    BY <2>1, <2>2
  <2>4. QED
    BY <1>5, <2>3 DEF PartsAt
<1>20. Chunks(e) = <<Units(e)>>
  <2>1. SubSeq(PartsAt(w, l), 1, l) = PartsAt(w, l)
    BY <1>19, WholePart
  <2>2. o[1 - 1] + 1 = 1 /\ o[1] = l
    OBVIOUS
  <2> HIDE DEF o
  <2>3. Chunks(e) = [i \in 1 .. 1 |-> Units(e)]
    BY <1>18, <2>1, <2>2
  <2>4. QED
    BY <2>3
<1>21. Chunks(d)[c] = MovedAll(Units(e), a)
  <2> DEFINE units == PartsAt(x, m)
             part == SubSeq(units, h + 1, h + l)
  <2>1. /\ units \in Seq([start : Nat, end : Nat]) /\ Len(units) = m
        /\ \A k \in 1 .. m : units[k] = [start |-> x[k - 1], end |-> x[k]]
    BY <1>1, <1>7 DEF PartsAt
  <2> HIDE DEF units
  <2>2. h \in 0 .. Len(units) /\ h + l \in h .. Len(units) /\ (h + l) - h = l
    BY <1>5, <2>1
  <2>3. /\ part \in Seq([start : Nat, end : Nat]) /\ Len(part) = l
        /\ \A j \in 1 .. l : part[j] = units[h + j]
    <3>1. /\ part \in Seq([start : Nat, end : Nat]) /\ Len(part) = (h + l) - h
          /\ \A j \in 1 .. (h + l) - h : part[j] = units[h + j]
      <4>1. units \in Seq([start : Nat, end : Nat]) /\ h \in 0 .. Len(units) /\ h + l \in h .. Len(units)
        BY <2>1, <2>2
      <4> DEFINE U == [start : Nat, end : Nat]
                 b2 == h + l
      <4>2. units \in Seq(U) /\ h \in 0 .. Len(units) /\ b2 \in h .. Len(units)
        BY <4>1
      <4> HIDE DEF U, b2
      <4>3. /\ SubSeq(units, h + 1, b2) \in Seq(U) /\ Len(SubSeq(units, h + 1, b2)) = b2 - h
            /\ \A j \in 1 .. b2 - h : SubSeq(units, h + 1, b2)[j] = units[h + j]
        BY ONLY <4>2, PartMembers
      <4>4. QED
        BY <4>3 DEF U, b2
    <3> HIDE DEF part
    <3>2. QED
      BY <2>2, <3>1
  <2> HIDE DEF part
  <2>4. ASSUME NEW j \in 1 .. l PROVE part[j] = Moved(Units(e)[j], a)
    <3>1. h + j \in 1 .. m /\ (h + j) - 1 = h + (j - 1) /\ j - 1 \in 0 .. l /\ j \in 0 .. l
      BY <1>1, <1>5
    <3>2. part[j] = [start |-> x[h + (j - 1)], end |-> x[h + j]]
      BY <2>1, <2>3, <3>1
    <3>3. a + w[j - 1] = x[h + (j - 1)] /\ a + w[j] = x[h + j]
      <4>1. \A r \in 0 .. l : w[r] = x[h + r] - a /\ x[h + r] \in Nat /\ a \in Nat
        BY <1>10, <1>12
      <4>2. \A r \in 0 .. l : a + w[r] = x[h + r]
        BY <4>1
      <4>3. QED
        BY <3>1, <4>2
    <3>4. Units(e)[j] = [start |-> w[j - 1], end |-> w[j]]
      BY <1>18, <1>19
    <3>5. QED
      BY <3>2, <3>3, <3>4 DEF Moved
  <2>5. part = [j \in 1 .. l |-> part[j]]
    BY <2>3
  <2>6. Len(Units(e)) = l
    BY <1>18, <1>19
  <2>7. part = MovedAll(Units(e), a)
    BY <2>4, <2>5, <2>6 DEF MovedAll
  <2>8. QED
    BY <1>9, <2>7 DEF part, units
<1>22. e = Piece(d, z, c)
  BY DEF e, Piece, a, b
<1>23. QED
  BY <1>20, <1>21, <1>22 DEF a, z

(* Spans of a document of length n, and the spans of units.                *)
Spans(n) == {s \in [start : 0 .. n, end : 0 .. n] : s.start <= s.end}

Wide(n) == {s \in Spans(n) : s.start < s.end}

(* What a span consists of.                                                *)
LEMMA SpanIs ==
  ASSUME NEW n \in Nat, NEW s \in Spans(n)
  PROVE  /\ s.start \in 0 .. n /\ s.end \in s.start .. n /\ s.end \in 0 .. n
         /\ s = [start |-> s.start, end |-> s.end]
         /\ Size(s) \in Nat
         /\ \A a, b \in 0 .. n : a <= b => [start |-> a, end |-> b] \in Spans(n)
BY DEF Spans, Size

(* No unit is empty.                                                       *)
LEMMA UnitsAreWide ==
  ASSUME NEW d \in Seq(Char)
  PROVE  Units(d) \in Seq(Wide(Len(d)))
<1>1. PICK x, m, y, g : ChunkedAt(d, x, m, y, g)
  BY ChunkedExists
<1>2. Units(d) = PartsAt(x, m)
  BY <1>1, ChunksAre
<1>3. /\ m \in Nat /\ x \in [0 .. m -> 0 .. Len(d)] /\ Len(d) \in Nat
      /\ \A j, k \in 0 .. m : j < k => x[j] < x[k]
  BY <1>1 DEF ChunkedAt, Cuts
<1>4. ASSUME NEW k \in 1 .. m PROVE [start |-> x[k - 1], end |-> x[k]] \in Wide(Len(d))
  <2>1. k - 1 \in 0 .. m /\ k \in 0 .. m /\ k - 1 < k
    BY <1>3
  <2>2. x[k - 1] \in 0 .. Len(d) /\ x[k] \in 0 .. Len(d) /\ x[k - 1] < x[k]
    BY <1>3, <2>1
  <2>3. QED
    BY <2>2 DEF Wide, Spans
<1>5. QED
  BY <1>2, <1>3, <1>4 DEF PartsAt

(* Rounding a quotient up.                                                 *)
LEMMA Ceiling ==
  ASSUME NEW s \in Nat, NEW M \in Nat \ {0}
  PROVE  LET q == (s + M - 1) \div M
         IN  q \in Nat /\ s <= q * M /\ (q # 0 => (q - 1) * M < s)
<1> DEFINE t == s + M - 1
           q == t \div M
<1>1. t \in Nat
  OBVIOUS
<1> HIDE DEF t
<1>2. q \in Nat /\ q * M <= t /\ t < (q + 1) * M
  BY <1>1
<1> HIDE DEF q
<1>3. (q + 1) * M = q * M + M /\ (q - 1) * M = q * M - M /\ q * M \in Nat
  BY <1>2
<1>4. s <= q * M /\ (q - 1) * M < s
  <2>1. t = s + M - 1
    BY DEF t
  <2> DEFINE p == q * M
  <2>2. p \in Nat /\ p <= t /\ t < p + M
    BY <1>2, <1>3
  <2> HIDE DEF p
  <2>3. s <= p /\ p - M < s
    BY <2>1, <2>2
  <2>4. QED
    BY <1>3, <2>3 DEF p
<1>5. QED
  BY <1>2, <1>4 DEF q, t

(* Where the chunks of a long unit end.                                    *)
SliceEnds(unit, q) == [k \in 0 .. q |-> Min({unit.start + k * MaxChars, unit.end})]

SlicesAt(unit, n, q) ==
  LET x == SliceEnds(unit, q)
  IN  /\ ChunkSpan(unit) = [k \in 1 .. q |-> [start |-> x[k - 1], end |-> x[k]]]
      /\ x \in [0 .. q -> 0 .. n]
      /\ x[0] = unit.start /\ x[q] = unit.end
      /\ \A k \in 1 .. q : x[k - 1] < x[k] /\ x[k] <= x[k - 1] + MaxChars
      /\ Size(unit) # 0 => q # 0
      /\ Size(unit) # 0 /\ Size(unit) <= MaxChars => q = 1

(* A unit is cut into slices of at most MaxChars bytes, none of them empty.*)
LEMMA SlicesExist ==
  ASSUME NEW n \in Nat, NEW unit \in Spans(n)
  PROVE  \E q \in Nat : SlicesAt(unit, n, q)
<1> DEFINE s == Size(unit)
           M == MaxChars
           q == (s + M - 1) \div M
           a == unit.start
           b == unit.end
           x == SliceEnds(unit, q)
<1>1. s \in Nat /\ M \in Nat \ {0} /\ a \in 0 .. n /\ b \in a .. n /\ s = b - a
  BY SpanIs, SegmentConstants DEF Size
<1>2. q \in Nat /\ s <= q * M /\ (q # 0 => (q - 1) * M < s)
  <2> HIDE DEF s, M
  <2> QED BY <1>1, Ceiling
<1>3. ChunkSpan(unit) = [k \in 1 .. q |-> [start |-> a + (k - 1) * M, end |-> Min({a + k * M, b})]]
  BY DEF ChunkSpan
<1>4. \A k \in 0 .. q : x[k] = Min({a + k * M, b})
  BY DEF SliceEnds
<1>5. x = [k \in 0 .. q |-> x[k]]
  BY DEF SliceEnds
<1> HIDE DEF a, b, s, M, q, x
<1>6. ASSUME NEW k \in 0 .. q
      PROVE  /\ k * M \in Nat
             /\ x[k] = IF a + k * M <= b THEN a + k * M ELSE b
  <2>1. k \in Nat /\ k * M \in Nat
    BY <1>1, <1>2
  <2> DEFINE c == a + k * M
  <2>2. c \in Nat /\ b \in Nat
    BY <1>1, <2>1
  <2> HIDE DEF c
  <2>3. Min({c, b}) \in {c, b} /\ Min({c, b}) <= c /\ Min({c, b}) <= b
    BY <2>2, MinOfTwo
  <2>4. Min({c, b}) = IF c <= b THEN c ELSE b
    BY <2>2, <2>3
  <2>5. QED
    BY <1>4, <2>1, <2>4 DEF c
<1>7. \A k \in 1 .. q : /\ k - 1 \in 0 .. q /\ k \in 0 .. q
                        /\ (k - 1) * M <= k * M
                        /\ (k - 1) * M <= (q - 1) * M
  <2> SUFFICES ASSUME NEW k \in 1 .. q
               PROVE  k - 1 \in 0 .. q /\ k \in 0 .. q /\ (k - 1) * M <= k * M
                      /\ (k - 1) * M <= (q - 1) * M
    OBVIOUS
  <2>1. k - 1 \in Nat /\ k \in Nat /\ q - 1 \in Nat /\ k - 1 <= q - 1 /\ k - 1 <= k /\ M \in Nat
    BY <1>1, <1>2
  <2>2. (k - 1) * M <= k * M
    BY <2>1, ProductMonotone
  <2>3. (k - 1) * M <= (q - 1) * M
    BY <2>1, ProductMonotone
  <2>4. QED
    BY <1>2, <2>2, <2>3
<1>8. ASSUME NEW k \in 1 .. q PROVE x[k - 1] = a + (k - 1) * M
  <2>1. k - 1 \in 0 .. q /\ (k - 1) * M <= (q - 1) * M /\ (q - 1) * M < s /\ q # 0
    BY <1>2, <1>7
  <2>2. (k - 1) * M \in Nat /\ x[k - 1] = IF a + (k - 1) * M <= b THEN a + (k - 1) * M ELSE b
    BY <1>6, <2>1
  <2> DEFINE c == (k - 1) * M
             l == (q - 1) * M
  <2>3. l \in Nat
    BY <1>1, <1>2, <2>1
  <2> HIDE DEF c, l
  <2>4. c \in Nat /\ c <= l /\ l < s /\ x[k - 1] = IF a + c <= b THEN a + c ELSE b
    BY <2>1, <2>2 DEF c, l
  <2>5. x[k - 1] = a + c
    BY <1>1, <2>3, <2>4
  <2>6. QED
    BY <2>5 DEF c
<1>9. ChunkSpan(unit) = [k \in 1 .. q |-> [start |-> x[k - 1], end |-> x[k]]]
  BY <1>3, <1>4, <1>7, <1>8
<1>10. x \in [0 .. q -> 0 .. n]
  <2>1. \A k \in 0 .. q : x[k] \in 0 .. n
    BY <1>1, <1>6
  <2>2. QED
    BY <1>5, <2>1
<1>11. x[0] = a /\ x[q] = b
  <2>1. 0 \in 0 .. q /\ q \in 0 .. q /\ 0 * M = 0 /\ q * M \in Nat
    BY <1>1, <1>2
  <2>2. x[0] = IF a + 0 <= b THEN a + 0 ELSE b
    BY <1>6, <2>1
  <2>3. x[q] = IF a + q * M <= b THEN a + q * M ELSE b
    BY <1>6, <2>1
  <2>4. QED
    BY <1>1, <1>2, <2>1, <2>2, <2>3
<1>12. ASSUME NEW k \in 1 .. q PROVE x[k - 1] < x[k] /\ x[k] <= x[k - 1] + M
  <2>1. k \in 0 .. q /\ k - 1 \in 0 .. q /\ (k - 1) * M <= (q - 1) * M /\ (q - 1) * M < s /\ q # 0
    BY <1>2, <1>7
  <2> DEFINE i == (k - 1) * M
             j == k * M
             l == (q - 1) * M
  <2>2. i \in Nat /\ j \in Nat /\ j = i + M /\ l \in Nat /\ i <= l /\ l < s
    BY <1>1, <1>2, <1>6, <2>1
  <2>3. /\ x[k - 1] = a + i
        /\ x[k] = IF a + j <= b THEN a + j ELSE b
    BY <1>6, <1>8, <2>1
  <2> HIDE DEF i, j, l
  <2>4. QED
    BY <1>1, <2>2, <2>3
<1>13. s # 0 => q # 0
  BY <1>1, <1>2
<1>14. ASSUME s # 0, s <= M PROVE q = 1
  <2>1. q # 0 /\ (q - 1) * M < s
    BY <1>2, <1>13, <1>14
  <2>2. CASE q - 1 >= 1
    <3>1. 1 * M <= (q - 1) * M /\ (q - 1) * M \in Nat /\ 1 * M = M
      <4>1. 1 \in Nat /\ q - 1 \in Nat /\ M \in Nat /\ 1 <= q - 1
        BY <1>1, <1>2, <2>2
      <4>2. QED
        BY <4>1, ProductMonotone
    <3> DEFINE l == (q - 1) * M
    <3>2. l \in Nat /\ M <= l /\ l < s
      BY <2>1, <3>1
    <3> HIDE DEF l
    <3>3. QED
      BY <1>1, <1>14, <3>2
  <2>3. CASE ~ (q - 1 >= 1)
    BY <1>2, <2>1, <2>3
  <2>4. QED
    BY <2>2, <2>3
<1>15. SlicesAt(unit, n, q)
  BY <1>9, <1>10, <1>11, <1>12, <1>13, <1>14 DEF SlicesAt, x, a, b, s, M
<1>16. QED
  BY <1>2, <1>15

(* The slices of a unit follow each other without gap.                     *)
LEMMA Slices ==
  ASSUME NEW n \in Nat, NEW unit \in Spans(n)
  PROVE  \E q \in Nat :
           LET x == SliceEnds(unit, q)
           IN  /\ ChunkSpan(unit) = [k \in 1 .. q |-> [start |-> x[k - 1], end |-> x[k]]]
               /\ x \in [0 .. q -> 0 .. n]
               /\ x[0] = unit.start /\ x[q] = unit.end
               /\ \A k \in 1 .. q : x[k - 1] <= x[k]
<1>1. PICK q \in Nat : SlicesAt(unit, n, q)
  BY SlicesExist
<1> DEFINE x == SliceEnds(unit, q)
<1>2. /\ ChunkSpan(unit) = [k \in 1 .. q |-> [start |-> x[k - 1], end |-> x[k]]]
      /\ x \in [0 .. q -> 0 .. n]
      /\ x[0] = unit.start /\ x[q] = unit.end
      /\ \A k \in 1 .. q : x[k - 1] < x[k]
  BY <1>1 DEF SlicesAt
<1> HIDE DEF x
<1>3. \A k \in 1 .. q : k - 1 \in 0 .. q /\ k \in 0 .. q
  BY <1>1
<1>4. \A k \in 1 .. q : x[k - 1] <= x[k]
  BY <1>2, <1>3
<1>5. QED
  BY <1>2, <1>4 DEF x

(* The segments of the k-th unit.                                          *)
Part(doc, units, k) ==
  IF Bridges(doc, units, k)
  THEN <<[start |-> units[k].start, end |-> units[k + 1].end]>>
  ELSE IF Bridges(doc, units, k - 1) THEN <<>>
  ELSE ChunkSpan(units[k])

(* Units in reading order do not overlap.                                  *)
InOrder(units) == \A k \in 1 .. Len(units) - 1 : units[k].end = units[k + 1].start

(* Slices are spans of the document.                                       *)
LEMMA ChunkSpanType ==
  ASSUME NEW n \in Nat, NEW unit \in Spans(n)
  PROVE  ChunkSpan(unit) \in Seq(Spans(n))
<1>1. PICK q \in Nat :
        LET x == SliceEnds(unit, q)
        IN  /\ ChunkSpan(unit) = [k \in 1 .. q |-> [start |-> x[k - 1], end |-> x[k]]]
            /\ x \in [0 .. q -> 0 .. n]
            /\ x[0] = unit.start /\ x[q] = unit.end
            /\ \A k \in 1 .. q : x[k - 1] <= x[k]
  BY Slices
<1> DEFINE x == SliceEnds(unit, q)
<1>2. /\ ChunkSpan(unit) = [k \in 1 .. q |-> [start |-> x[k - 1], end |-> x[k]]]
      /\ x \in [0 .. q -> 0 .. n] /\ \A k \in 1 .. q : x[k - 1] <= x[k]
  BY <1>1
<1> HIDE DEF x
<1>3. ASSUME NEW k \in 1 .. q PROVE [start |-> x[k - 1], end |-> x[k]] \in Spans(n)
  <2>1. k - 1 \in 0 .. q /\ k \in 0 .. q
    OBVIOUS
  <2>2. x[k - 1] \in 0 .. n /\ x[k] \in 0 .. n /\ x[k - 1] <= x[k]
    BY <1>2, <2>1
  <2>3. QED
    BY <2>2 DEF Spans
<1>4. QED
  BY <1>2, <1>3

(* So are the segments of one unit.                                        *)
LEMMA PartType ==
  ASSUME NEW n \in Nat, NEW doc, NEW units \in Seq(Wide(n)), InOrder(units),
         NEW k \in 1 .. Len(units)
  PROVE  Part(doc, units, k) \in Seq(Spans(n))
<1>0. Len(units) \in Nat /\ \A j \in 1 .. Len(units) : units[j] \in Wide(n)
  OBVIOUS
<1>1. units[k] \in Spans(n)
  BY <1>0 DEF Wide
<1>2. CASE Bridges(doc, units, k)
  <2>1. k \in 1 .. Len(units) - 1
    BY <1>2 DEF Bridges
  <2>2. k + 1 \in 1 .. Len(units)
    BY <1>0, <2>1
  <2>3. units[k + 1] \in Spans(n) /\ units[k].end = units[k + 1].start
    BY <1>0, <2>1, <2>2 DEF Wide, InOrder
  <2>4. /\ units[k].start \in 0 .. n /\ units[k + 1].end \in 0 .. n
        /\ units[k].start <= units[k + 1].end
    BY <1>1, <2>3 DEF Spans
  <2>5. [start |-> units[k].start, end |-> units[k + 1].end] \in Spans(n)
    BY <2>4 DEF Spans
  <2>6. QED
    BY <1>2, <2>5 DEF Part
<1>3. CASE ~ Bridges(doc, units, k)
  <2>1. ChunkSpan(units[k]) \in Seq(Spans(n))
    BY <1>1, ChunkSpanType
  <2>2. QED
    BY <1>3, <2>1 DEF Part
<1>4. QED
  BY <1>2, <1>3

(* The segments of units are those of each unit in turn.                   *)
LEMMA SegmentsAre ==
  ASSUME NEW n \in Nat, NEW doc, NEW units \in Seq(Wide(n)), InOrder(units)
  PROVE  /\ [k \in 1 .. Len(units) |-> Part(doc, units, k)] \in Seq(Seq(Spans(n)))
         /\ Segments(doc, units) = FlattenSeq([k \in 1 .. Len(units) |-> Part(doc, units, k)])
         /\ Segments(doc, units) \in Seq(Spans(n))
<1> DEFINE parts == [k \in 1 .. Len(units) |-> Part(doc, units, k)]
<1>1. DOMAIN units = 1 .. Len(units) /\ Len(units) \in Nat
  OBVIOUS
<1>2. parts \in Seq(Seq(Spans(n)))
  <2>1. \A k \in 1 .. Len(units) : Part(doc, units, k) \in Seq(Spans(n))
    BY PartType
  <2>2. QED
    BY <1>1, <2>1
<1>3. Segments(doc, units) = FlattenSeq(parts)
  BY <1>1 DEF Segments, Part
<1> HIDE DEF parts
<1>4. FlattenSeq(parts) \in Seq(Spans(n))
  BY <1>2, FlattenHolds
<1>5. QED
  BY <1>2, <1>3, <1>4 DEF parts

(* The bytes of a span do not depend on where the window began.            *)
LEMMA BytesMoved ==
  ASSUME NEW d \in Seq(Char), NEW a \in 0 .. Len(d), NEW b \in a .. Len(d),
         NEW s \in Spans(b - a)
  PROVE  /\ Bytes(d, Moved(s, a)) = Bytes(SubSeq(d, a + 1, b), s)
         /\ Size(Moved(s, a)) = Size(s)
<1>1. s.start \in 0 .. b - a /\ s.end \in s.start .. b - a /\ a \in Nat /\ b - a \in Nat
  BY SpanIs
<1>2. SubSeq(SubSeq(d, a + 1, b), s.start + 1, s.end) = SubSeq(d, (a + s.start) + 1, a + s.end)
  <2> DEFINE i == s.start
             j == s.end
  <2>1. i \in 0 .. b - a /\ j \in i .. b - a
    BY <1>1
  <2> HIDE DEF i, j
  <2>2. SubSeq(SubSeq(d, a + 1, b), i + 1, j) = SubSeq(d, (a + i) + 1, a + j)
    BY <2>1, PartOfPart
  <2>3. QED
    BY <2>2 DEF i, j
<1>3. QED
  <2>1. Moved(s, a).start = a + s.start /\ Moved(s, a).end = a + s.end
    BY DEF Moved
  <2>2. Bytes(d, Moved(s, a)) = SubSeq(d, (a + s.start) + 1, a + s.end)
    BY <2>1 DEF Bytes
  <2>3. Bytes(SubSeq(d, a + 1, b), s) = SubSeq(SubSeq(d, a + 1, b), s.start + 1, s.end)
    BY DEF Bytes
  <2>4. s.start \in Nat /\ s.end \in Nat
    BY <1>1
  <2>5. (a + s.end) - (a + s.start) = s.end - s.start
    BY <1>1, <2>4
  <2>6. Size(Moved(s, a)) = Size(s)
    BY <2>1, <2>5 DEF Size
  <2>7. QED
    BY <1>2, <2>2, <2>3, <2>6

(* Slices do not depend on where the window began.                         *)
LEMMA ChunkSpanMoved ==
  ASSUME NEW n \in Nat, NEW unit \in Spans(n), NEW a \in Nat
  PROVE  ChunkSpan(Moved(unit, a)) = MovedAll(ChunkSpan(unit), a)
<1> DEFINE q == (Size(unit) + MaxChars - 1) \div MaxChars
           s == unit.start
           t == unit.end
<1>1. s \in Nat /\ t \in Nat /\ Size(unit) \in Nat /\ MaxChars \in Nat \ {0}
  BY SpanIs, SegmentConstants
<1>2. q \in Nat
  <2> DEFINE z == Size(unit) + MaxChars - 1
  <2>1. z \in Nat
    BY <1>1
  <2> HIDE DEF z
  <2>2. z \div MaxChars \in Nat
    BY <1>1, <2>1
  <2>3. QED
    BY <2>2 DEF z
<1>3. Moved(unit, a).start = a + s /\ Moved(unit, a).end = a + t /\ Size(Moved(unit, a)) = Size(unit)
  BY <1>1 DEF Moved, Size
<1> HIDE DEF s, t
<1>4. ChunkSpan(unit) = [k \in 1 .. q |-> [start |-> s + (k - 1) * MaxChars,
                                           end |-> Min({s + k * MaxChars, t})]]
  BY DEF ChunkSpan, s, t
<1>5. ChunkSpan(Moved(unit, a)) = [k \in 1 .. q |-> [start |-> (a + s) + (k - 1) * MaxChars,
                                           end |-> Min({(a + s) + k * MaxChars, a + t})]]
  BY <1>3 DEF ChunkSpan
<1> HIDE DEF q
<1>6. ASSUME NEW k \in 1 .. q
      PROVE  /\ (a + s) + (k - 1) * MaxChars = a + (s + (k - 1) * MaxChars)
             /\ Min({(a + s) + k * MaxChars, a + t}) = a + Min({s + k * MaxChars, t})
  <2> DEFINE i == (k - 1) * MaxChars
             j == k * MaxChars
  <2>1. i \in Nat /\ j \in Nat
    BY <1>1, <1>2
  <2> HIDE DEF i, j
  <2>2. (a + s) + i = a + (s + i)
    BY <1>1, <2>1
  <2> DEFINE u == s + j
             v == (a + s) + j
  <2>3. u \in Nat /\ v \in Nat /\ v = a + u /\ a + t \in Nat
    BY <1>1, <2>1
  <2> HIDE DEF u, v
  <2>4. Min({u, t}) \in {u, t} /\ Min({u, t}) <= u /\ Min({u, t}) <= t
    BY <1>1, <2>3, MinOfTwo
  <2>5. Min({v, a + t}) \in {v, a + t} /\ Min({v, a + t}) <= v /\ Min({v, a + t}) <= a + t
    BY <1>1, <2>3, MinOfTwo
  <2>6. Min({v, a + t}) = a + Min({u, t})
    BY <1>1, <2>3, <2>4, <2>5
  <2>7. QED
    BY <2>2, <2>6 DEF i, j, u, v
<1>7. Len(ChunkSpan(unit)) = q /\ \A k \in 1 .. q :
        ChunkSpan(unit)[k] = [start |-> s + (k - 1) * MaxChars, end |-> Min({s + k * MaxChars, t})]
  BY <1>2, <1>4
<1>8. \A k \in 1 .. q : Moved(ChunkSpan(unit)[k], a)
        = [start |-> (a + s) + (k - 1) * MaxChars, end |-> Min({(a + s) + k * MaxChars, a + t})]
  <2> SUFFICES ASSUME NEW k \in 1 .. q
               PROVE  Moved(ChunkSpan(unit)[k], a) =
                        [start |-> (a + s) + (k - 1) * MaxChars,
                         end |-> Min({(a + s) + k * MaxChars, a + t})]
    OBVIOUS
  <2> DEFINE i == s + (k - 1) * MaxChars
             j == Min({s + k * MaxChars, t})
  <2>1. ChunkSpan(unit)[k] = [start |-> i, end |-> j]
    BY <1>7
  <2>2. (a + s) + (k - 1) * MaxChars = a + i /\ Min({(a + s) + k * MaxChars, a + t}) = a + j
    BY <1>6
  <2> HIDE DEF i, j
  <2>3. Moved([start |-> i, end |-> j], a) = [start |-> a + i, end |-> a + j]
    BY DEF Moved
  <2>4. QED
    BY <2>1, <2>2, <2>3
<1>9. QED
  BY <1>5, <1>7, <1>8 DEF MovedAll

(* Cutting a window's units into segments, there or in the document.       *)
LEMMA SegmentsMoved ==
  ASSUME NEW d \in Seq(Char), NEW a \in 0 .. Len(d), NEW b \in a .. Len(d),
         NEW units \in Seq(Wide(b - a)), InOrder(units)
  PROVE  Segments(d, MovedAll(units, a)) = MovedAll(Segments(SubSeq(d, a + 1, b), units), a)
<1> DEFINE n == b - a
           e == SubSeq(d, a + 1, b)
           there == MovedAll(units, a)
           m == Len(units)
<1>1. /\ n \in Nat /\ m \in Nat /\ a \in Nat /\ DOMAIN units = 1 .. m
      /\ \A k \in 1 .. m : units[k] \in Wide(n) /\ units[k] \in Spans(n)
  BY DEF Wide
<1>2. /\ DOMAIN there = 1 .. m /\ Len(there) = m
      /\ \A k \in 1 .. m : there[k] = Moved(units[k], a)
  BY <1>1 DEF MovedAll
<1>3. /\ e \in Seq(Char) /\ Len(e) = n
      /\ \A j \in 1 .. n : e[j] = d[a + j]
  BY PartMembers
<1>4. \A s \in Spans(n) : Bytes(d, Moved(s, a)) = Bytes(e, s) /\ Size(Moved(s, a)) = Size(s)
  BY BytesMoved
<1> HIDE DEF e, there, n, m
<1>5. ASSUME NEW k \in Int PROVE Bridges(d, there, k) <=> Bridges(e, units, k)
  <2> SUFFICES ASSUME k \in 1 .. m - 1 PROVE Bridges(d, there, k) <=> Bridges(e, units, k)
    BY <1>1, <1>2 DEF Bridges, m
  <2>1. k \in 1 .. m /\ k + 1 \in 1 .. m
    BY <1>1
  <2>2. Bytes(d, there[k]) = Bytes(e, units[k])
    BY <1>1, <1>2, <1>4, <2>1
  <2>3. RequiresSplit(there[k + 1]) <=> RequiresSplit(units[k + 1])
    BY <1>1, <1>2, <1>4, <2>1 DEF RequiresSplit
  <2>4. d[there[k + 1].start + 1] = e[units[k + 1].start + 1]
    <3>1. units[k + 1].start \in 0 .. n /\ units[k + 1].end \in 0 .. n
          /\ units[k + 1].start < units[k + 1].end
      BY <1>1, <2>1 DEF Wide, Spans
    <3>2. there[k + 1].start = a + units[k + 1].start
      BY <1>2, <2>1 DEF Moved
    <3>3. units[k + 1].start + 1 \in 1 .. n
          /\ a + (units[k + 1].start + 1) = (a + units[k + 1].start) + 1
      <4> DEFINE u == units[k + 1].start
                 t == units[k + 1].end
      <4>1. u \in 0 .. n /\ t \in 0 .. n /\ u < t /\ n \in Nat /\ a \in Nat
        BY <1>1, <3>1
      <4> HIDE DEF u, t
      <4>2. u + 1 \in 1 .. n /\ a + (u + 1) = (a + u) + 1
        BY <4>1
      <4>3. QED
        BY <4>2 DEF u
    <3>4. QED
      BY <1>3, <3>2, <3>3
  <2>5. Len(there) = m /\ Len(units) = m
    BY <1>2 DEF m
  <2>6. QED
    BY <2>2, <2>3, <2>4, <2>5 DEF Bridges
<1>6. ASSUME NEW k \in 1 .. m PROVE Part(d, there, k) = MovedAll(Part(e, units, k), a)
  <2>0. k \in Int /\ k - 1 \in Int
    BY <1>1
  <2>1. CASE Bridges(e, units, k)
    <3>1. k + 1 \in 1 .. m
      BY <1>1, <2>1 DEF Bridges, m
    <3>2. there[k] = Moved(units[k], a) /\ there[k + 1] = Moved(units[k + 1], a)
      BY <1>2, <3>1
    <3>3. Part(e, units, k) = <<[start |-> units[k].start, end |-> units[k + 1].end]>>
      BY <2>1 DEF Part
    <3>4. Part(d, there, k) = <<[start |-> a + units[k].start, end |-> a + units[k + 1].end]>>
      BY <1>5, <2>0, <2>1, <3>2 DEF Part, Moved
    <3>5. QED
      BY <3>3, <3>4 DEF MovedAll, Moved
  <2>2. CASE ~ Bridges(e, units, k) /\ Bridges(e, units, k - 1)
    <3>1. Part(e, units, k) = <<>> /\ Part(d, there, k) = <<>>
      BY <1>5, <2>0, <2>2 DEF Part
    <3>2. QED
      BY <3>1 DEF MovedAll
  <2>3. CASE ~ Bridges(e, units, k) /\ ~ Bridges(e, units, k - 1)
    <3>1. Part(e, units, k) = ChunkSpan(units[k]) /\ Part(d, there, k) = ChunkSpan(there[k])
      BY <1>5, <2>0, <2>3 DEF Part
    <3>2. ChunkSpan(Moved(units[k], a)) = MovedAll(ChunkSpan(units[k]), a)
      BY <1>1, ChunkSpanMoved
    <3>3. QED
      BY <1>2, <3>1, <3>2
  <2>4. QED
    BY <2>1, <2>2, <2>3
<1> DEFINE move == [s \in Spans(n) |-> Moved(s, a)]
           M == [start : Nat, end : Nat]
           moves == [ss \in Seq(Spans(n)) |-> [j \in 1 .. Len(ss) |-> move[ss[j]]]]
           parts == [k \in 1 .. m |-> Part(e, units, k)]
<1>7. move \in [Spans(n) -> M]
  <2>1. \A s \in Spans(n) : Moved(s, a) \in M
    BY <1>1, SpanIs DEF Moved, Spans
  <2>2. QED
    BY <2>1
<1>8. KeepsJoins(moves, Spans(n), M)
  <2> HIDE DEF move, M
  <2> QED BY <1>7, MapKeepsJoins
<1>9. ASSUME NEW ss \in Seq(Spans(n)) PROVE moves[ss] = MovedAll(ss, a)
  <2>1. \A j \in 1 .. Len(ss) : ss[j] \in Spans(n)
    OBVIOUS
  <2>2. QED
    BY <2>1 DEF MovedAll
<1>10. /\ parts \in Seq(Seq(Spans(n))) /\ Segments(e, units) = FlattenSeq(parts)
       /\ Segments(e, units) \in Seq(Spans(n))
  BY <1>1, SegmentsAre DEF n, m
<1>11. Segments(d, there) = FlattenSeq([k \in 1 .. m |-> Part(d, there, k)])
  BY <1>2 DEF Segments, Part
<1>12. Len(parts) = m /\ \A k \in 1 .. m : parts[k] = Part(e, units, k) /\ parts[k] \in Seq(Spans(n))
  BY <1>1, <1>10
<1> HIDE DEF moves, parts, move, M
<1>13. moves[FlattenSeq(parts)] = FlattenSeq([k \in 1 .. Len(parts) |-> moves[parts[k]]])
  BY <1>8, <1>10, JoinByParts
<1>14. \A k \in 1 .. m : moves[parts[k]] = Part(d, there, k)
  BY <1>6, <1>9, <1>12
<1>15. [k \in 1 .. Len(parts) |-> moves[parts[k]]] = [k \in 1 .. m |-> Part(d, there, k)]
  BY <1>12, <1>14
<1>16. Segments(d, there) = MovedAll(Segments(e, units), a)
  BY <1>9, <1>10, <1>11, <1>13, <1>15
<1>17. QED
  BY <1>16 DEF there, e

(* What one token spells, and the tokens of a vocabulary: each has the     *)
(* length of what it spells.                                               *)
Spelling(vocabulary, token) ==
  IF token.id < ByteBase THEN <<>>
  ELSE IF token.id < EntryBase THEN <<token.id - ByteBase>>
  ELSE vocabulary.entries[token.id - EntryBase + 1]

Tokens(vocabulary) ==
  {t \in [id : 1 .. EntryBase + Len(vocabulary.entries) - 1, length : Nat] :
     t.length = Len(Spelling(vocabulary, t))}

Decoder(vocabulary) == [a \in Seq(Tokens(vocabulary)) |-> DecodeIds(vocabulary, a)]

(* Entries are sequences of characters, none of them empty.                *)
LEMMA EntriesAre ==
  ASSUME NEW v, IsVocabulary(v)
  PROVE  /\ Len(v.entries) \in Nat /\ DOMAIN v.entries = 1 .. Len(v.entries)
         /\ v.entries \in Seq(Seq(Char))
         /\ \A r \in 1 .. Len(v.entries) : v.entries[r] \in Seq(Char) /\ Len(v.entries[r]) \in Nat
                                           /\ Len(v.entries[r]) > 0
<1>1. v.entries \in Seq(Seq(Char) \ {<<>>})
  BY DEF IsVocabulary
<1> DEFINE s == v.entries
<1>2. s \in Seq(Seq(Char) \ {<<>>})
  BY <1>1
<1> HIDE DEF s
<1>3. /\ Len(s) \in Nat /\ DOMAIN s = 1 .. Len(s) /\ s \in Seq(Seq(Char))
      /\ \A r \in 1 .. Len(s) : s[r] \in Seq(Char) /\ s[r] # <<>>
  BY <1>2
<1>4. \A c \in Seq(Char) : c # <<>> => Len(c) \in Nat /\ Len(c) > 0
  OBVIOUS
<1>5. QED
  BY <1>3, <1>4 DEF s

(* A token spells as many characters as its length says.                   *)
LEMMA SpellingType ==
  ASSUME NEW v, IsVocabulary(v), NEW t \in Tokens(v)
  PROVE  Spelling(v, t) \in Seq(Char)
<1>1. /\ Len(v.entries) \in Nat
      /\ \A r \in 1 .. Len(v.entries) : v.entries[r] \in Seq(Char)
  BY EntriesAre
<1>2. t.id \in 1 .. EntryBase + Len(v.entries) - 1
  BY DEF Tokens
<1>3. CASE t.id < ByteBase
  BY <1>3 DEF Spelling
<1>4. CASE ~ (t.id < ByteBase) /\ t.id < EntryBase
  <2>1. t.id - ByteBase \in Char
    BY <1>1, <1>2, <1>4 DEF ByteBase, EntryBase, Char
  <2>2. QED
    BY <1>4, <2>1 DEF Spelling
<1>5. CASE ~ (t.id < ByteBase) /\ ~ (t.id < EntryBase)
  <2>1. t.id - EntryBase + 1 \in 1 .. Len(v.entries)
    BY <1>1, <1>2, <1>5 DEF EntryBase, ByteBase
  <2>2. QED
    BY <1>1, <1>5, <2>1 DEF Spelling
<1>6. QED
  BY <1>3, <1>4, <1>5

(* Decoding may be done token by token.                                    *)
LEMMA DecodesJoins ==
  ASSUME NEW v, IsVocabulary(v)
  PROVE  /\ KeepsJoins(Decoder(v), Tokens(v), Char)
         /\ \A a \in Seq(Tokens(v)) :
              DecodeIds(v, a) = FlattenSeq([j \in 1 .. Len(a) |-> Spelling(v, a[j])])
         /\ \A t \in Tokens(v) : DecodeIds(v, <<t>>) = Spelling(v, t)
<1> DEFINE T == Tokens(v)
           g == [t \in T |-> Spelling(v, t)]
           h == [a \in Seq(T) |-> FlattenSeq([j \in 1 .. Len(a) |-> g[a[j]]])]
<1>1. g \in [T -> Seq(Char)]
  <2>1. \A t \in T : Spelling(v, t) \in Seq(Char)
    BY SpellingType
  <2>2. QED
    BY <2>1
<1>2. KeepsJoins(h, T, Char)
  <2> HIDE DEF g
  <2> QED BY <1>1, FlatMapKeepsJoins
<1>3. ASSUME NEW a \in Seq(T)
      PROVE  /\ DecodeIds(v, a) = FlattenSeq([j \in 1 .. Len(a) |-> Spelling(v, a[j])])
             /\ h[a] = DecodeIds(v, a)
  <2>1. DOMAIN a = 1 .. Len(a) /\ \A j \in 1 .. Len(a) : a[j] \in T
    OBVIOUS
  <2>2. DecodeIds(v, a) = FlattenSeq([j \in 1 .. Len(a) |-> Spelling(v, a[j])])
    BY <2>1 DEF DecodeIds, Spelling
  <2>3. [j \in 1 .. Len(a) |-> Spelling(v, a[j])] = [j \in 1 .. Len(a) |-> g[a[j]]]
    BY <2>1
  <2>4. QED
    BY <2>2, <2>3
<1>4. h = Decoder(v)
  <2>1. \A a \in Seq(T) : h[a] = DecodeIds(v, a)
    BY <1>3
  <2>2. h = [a \in Seq(T) |-> h[a]]
    OBVIOUS
  <2> HIDE DEF h
  <2>3. QED
    BY <2>1, <2>2 DEF Decoder
<1>5. ASSUME NEW t \in T PROVE DecodeIds(v, <<t>>) = Spelling(v, t)
  <2> DEFINE s == <<Spelling(v, t)>>
             f == [k \in 0 .. 1 |-> IF k = 0 THEN <<>> ELSE Spelling(v, t)]
  <2>1. Spelling(v, t) \in Seq(Char) /\ <<t>> \in Seq(T)
    BY SpellingType
  <2>2. [j \in 1 .. Len(<<t>>) |-> Spelling(v, <<t>>[j])] = s
    OBVIOUS
  <2>3. s \in Seq(Seq(Char)) /\ Len(s) = 1 /\ s[1] = Spelling(v, t)
    BY <2>1
  <2>4. <<>> \o Spelling(v, t) = Spelling(v, t)
    BY <2>1
  <2>5. f[0] = <<>> /\ \A k \in 1 .. Len(s) : f[k] = f[k - 1] \o s[k]
    BY <2>3, <2>4
  <2> HIDE DEF s
  <2>6. FlattenSeq(s) = f[Len(s)]
    <3> HIDE DEF f
    <3> QED BY <2>3, <2>5, FlattenIs
  <2>7. DecodeIds(v, <<t>>) = FlattenSeq(s)
    BY <1>3, <2>1, <2>2
  <2>8. QED
    BY <2>3, <2>6, <2>7
<1>6. QED
  BY <1>2, <1>3, <1>4, <1>5

(* One byte, and one learned entry, as tokens.                             *)
LEMMA ByteTokenIs ==
  ASSUME NEW v, IsVocabulary(v), NEW char \in Char
  PROVE  ByteToken(char) \in Tokens(v) /\ Spelling(v, ByteToken(char)) = <<char>>
         /\ ByteToken(char).length = 1
<1>1. Len(v.entries) \in Nat
  BY EntriesAre
<1>2. char \in 0 .. 4 /\ ByteBase = 3 /\ EntryBase = 8
  BY DEF Char, ByteBase, EntryBase
<1>3. 3 + char \in 1 .. 8 + Len(v.entries) - 1 /\ ~ (3 + char < 3) /\ 3 + char < 8 /\ (3 + char) - 3 = char
  BY <1>1, <1>2
<1> DEFINE t == ByteToken(char)
<1>4. /\ t.id = 3 + char /\ t.length = 1
      /\ t \in [id : 1 .. EntryBase + Len(v.entries) - 1, length : Nat]
  BY <1>2, <1>3 DEF ByteToken
<1> HIDE DEF t
<1>5. Spelling(v, t) = <<char>>
  BY <1>2, <1>3, <1>4 DEF Spelling
<1>6. Len(<<char>>) = 1
  OBVIOUS
<1>7. t \in Tokens(v)
  BY <1>4, <1>5, <1>6 DEF Tokens
<1>8. QED
  BY <1>4, <1>5, <1>7 DEF t

(* The token of an entry spells the entry.                                 *)
LEMMA EntryTokenIs ==
  ASSUME NEW v, IsVocabulary(v), NEW r \in 1 .. Len(v.entries)
  PROVE  EntryToken(v, r) \in Tokens(v) /\ Spelling(v, EntryToken(v, r)) = v.entries[r]
         /\ EntryToken(v, r).length = Len(v.entries[r])
<1>1. Len(v.entries) \in Nat /\ Len(v.entries[r]) \in Nat
  BY EntriesAre
<1>2. ByteBase = 3 /\ EntryBase = 8
  BY DEF ByteBase, EntryBase
<1>3. /\ 8 + r - 1 \in 1 .. 8 + Len(v.entries) - 1 /\ ~ (8 + r - 1 < 3) /\ ~ (8 + r - 1 < 8)
      /\ (8 + r - 1) - 8 + 1 = r
  BY <1>1
<1> DEFINE t == EntryToken(v, r)
<1>4. /\ t.id = 8 + r - 1 /\ t.length = Len(v.entries[r])
      /\ t \in [id : 1 .. EntryBase + Len(v.entries) - 1, length : Nat]
  BY <1>1, <1>2, <1>3 DEF EntryToken
<1> HIDE DEF t
<1>5. Spelling(v, t) = v.entries[r]
  BY <1>2, <1>3, <1>4 DEF Spelling
<1>6. t \in Tokens(v)
  BY <1>4, <1>5 DEF Tokens
<1>7. QED
  BY <1>4, <1>5, <1>6 DEF t

(* The token at a position spells the bytes it advances over.              *)
LEMMA TokenAtIs ==
  ASSUME NEW v, IsVocabulary(v), NEW bytes \in Seq(Char), NEW p \in 1 .. Len(bytes)
  PROVE  LET t == TokenAt(v, bytes, p)
         IN  /\ t \in Tokens(v) /\ t.length \in 1 .. Len(bytes) + 1 - p
             /\ Spelling(v, t) = SubSeq(bytes, p, p + t.length - 1)
<1> DEFINE t == TokenAt(v, bytes, p)
           rest == SubSeq(bytes, p, Len(bytes))
           matches == Matches(v, bytes, p)
           n == Len(bytes)
<1>1. n \in Nat /\ bytes[p] \in Char /\ p - 1 \in 0 .. n /\ n \in p - 1 .. n /\ (p - 1) + 1 = p
  OBVIOUS
<1>2. /\ rest \in Seq(Char) /\ Len(rest) = n - (p - 1)
      /\ \A j \in 1 .. n - (p - 1) : rest[j] = bytes[(p - 1) + j]
  <2>1. /\ SubSeq(bytes, (p - 1) + 1, n) \in Seq(Char) /\ Len(SubSeq(bytes, (p - 1) + 1, n)) = n - (p - 1)
        /\ \A j \in 1 .. n - (p - 1) : SubSeq(bytes, (p - 1) + 1, n)[j] = bytes[(p - 1) + j]
    BY <1>1, PartMembers
  <2>2. QED
    BY <1>1, <2>1
<1>3. CASE matches = {}
  <2>1. t = ByteToken(bytes[p])
    BY <1>3 DEF TokenAt
  <2>2. t \in Tokens(v) /\ Spelling(v, t) = <<bytes[p]>> /\ t.length = 1
    BY <1>1, <2>1, ByteTokenIs
  <2>3. SubSeq(bytes, p, p) = <<bytes[p]>>
    BY OnePart
  <2>4. p + 1 - 1 = p /\ 1 \in 1 .. n + 1 - p
    BY <1>1
  <2> HIDE DEF t
  <2>5. QED
    BY <2>2, <2>3, <2>4 DEF t
<1>4. CASE matches # {}
  <2> DEFINE Longest(r) == \A s \in matches : Len(v.entries[s]) <= Len(v.entries[r])
             longest == CHOOSE r \in matches : Longest(r)
             lengths == {Len(v.entries[r]) : r \in matches}
  <2>1. t = EntryToken(v, longest)
    BY <1>4 DEF TokenAt
  <2>2. \A r \in matches : r \in 1 .. Len(v.entries) /\ IsPrefix(v.entries[r], rest)
    BY EntriesAre DEF Matches
  <2>3. ASSUME NEW r \in matches
        PROVE  /\ v.entries[r] \in Seq(Char) /\ Len(v.entries[r]) \in 1 .. n + 1 - p
               /\ v.entries[r] = SubSeq(rest, 1, Len(v.entries[r]))
    <3> DEFINE w == v.entries[r]
    <3>1. w \in Seq(Char) /\ Len(w) \in Nat /\ Len(w) > 0 /\ IsPrefix(w, rest)
      BY <2>2, EntriesAre
    <3> HIDE DEF w
    <3>2. Len(w) <= Len(rest) /\ SubSeq(w, 1, Len(w)) = SubSeq(rest, 1, Len(w))
      BY <3>1 DEF IsPrefix
    <3>3. SubSeq(w, 1, Len(w)) = w
      BY <3>1, WholePart
    <3>4. Len(w) \in 1 .. n + 1 - p
      BY <1>1, <1>2, <3>1, <3>2
    <3>5. QED
      BY <3>1, <3>2, <3>3, <3>4 DEF w
  <2>4. \E r \in matches : Longest(r)
    <3>1. lengths \in SUBSET (1 .. n + 1 - p) /\ lengths # {} /\ n + 1 - p \in Nat
      <4>1. n + 1 - p \in Nat
        BY <1>1
      <4>2. \A r \in matches : Len(v.entries[r]) \in 1 .. n + 1 - p
        BY <2>3
      <4> HIDE DEF matches
      <4>3. QED
        BY <1>4, <4>1, <4>2
    <3> HIDE DEF lengths
    <3>2. Max(lengths) \in lengths /\ \A y \in lengths : Max(lengths) >= y
      BY <3>1, MaxOfNaturals
    <3>3. PICK r \in matches : Len(v.entries[r]) = Max(lengths)
      BY <3>2 DEF lengths
    <3>4. \A s \in matches : Len(v.entries[s]) \in lengths
      BY DEF lengths
    <3> HIDE DEF matches
    <3>5. \A s \in matches : Len(v.entries[s]) <= Len(v.entries[r])
      <4>1. ASSUME NEW s \in matches PROVE Len(v.entries[s]) <= Len(v.entries[r])
        <5>1. Len(v.entries[s]) \in Nat /\ Len(v.entries[r]) \in Nat
          BY <2>3
        <5>2. Max(lengths) >= Len(v.entries[s])
          BY <3>2, <3>4
        <5>3. QED
          BY <3>3, <5>1, <5>2
      <4>2. QED
        BY <4>1
    <3>6. QED
      BY <3>5
  <2>5. longest \in matches
    <3> HIDE DEF Longest, matches
    <3> QED BY <2>4
  <2> HIDE DEF longest, matches, t, rest, n
  <2> DEFINE l == Len(v.entries[longest])
  <2>6. /\ t \in Tokens(v) /\ Spelling(v, t) = v.entries[longest] /\ t.length = l
    BY <2>1, <2>2, <2>5, EntryTokenIs
  <2>7. l \in 1 .. n + 1 - p /\ v.entries[longest] = SubSeq(rest, 1, l)
    BY <2>3, <2>5
  <2> HIDE DEF l
  <2>8. SubSeq(rest, 0 + 1, l) = SubSeq(bytes, ((p - 1) + 0) + 1, (p - 1) + l)
    <3>1. rest = SubSeq(bytes, (p - 1) + 1, n)
      BY <1>1 DEF rest, n
    <3>2. n = Len(bytes) /\ 0 \in 0 .. n - (p - 1) /\ l \in 0 .. n - (p - 1)
      BY <1>1, <2>7 DEF n
    <3>3. QED
      BY <1>1, <3>1, <3>2, PartOfPart
  <2>9. ((p - 1) + 0) + 1 = p /\ (p - 1) + l = p + l - 1 /\ 0 + 1 = 1
    BY <1>1, <2>7
  <2>10. Spelling(v, t) = SubSeq(bytes, p, p + t.length - 1)
    BY <2>6, <2>7, <2>8, <2>9
  <2>11. QED
    BY <2>6, <2>7, <2>10 DEF t, n
<1>5. QED
  BY <1>3, <1>4

(* The tokens of the bytes from every position on.                         *)
GreedyFrom(v, bytes, f, low) ==
  /\ f \in [low .. Len(bytes) + 1 -> Seq(Tokens(v))]
  /\ \A p \in low .. Len(bytes) + 1 :
       f[p] = IF p > Len(bytes) THEN <<>>
              ELSE <<TokenAt(v, bytes, p)>> \o f[p + TokenAt(v, bytes, p).length]

(* The greedy encoder reaches the end from every position.                 *)
LEMMA GreedyExists ==
  ASSUME NEW v, IsVocabulary(v), NEW bytes \in Seq(Char)
  PROVE  \E f : GreedyFrom(v, bytes, f, 1)
<1> DEFINE n == Len(bytes)
           token(p) == TokenAt(v, bytes, p)
           S == {k \in Nat : k <= n => \E f : GreedyFrom(v, bytes, f, n + 1 - k)}
<1>0. n \in Nat
  OBVIOUS
<1>1. \A p \in 1 .. n : token(p) \in Tokens(v) /\ token(p).length \in 1 .. n + 1 - p
  BY TokenAtIs
<1> HIDE DEF token
<1>2. 0 \in S
  <2> DEFINE f == [p \in n + 1 .. n + 1 |-> <<>>]
  <2>1. n + 1 - 0 = n + 1 /\ \A p \in n + 1 .. n + 1 : p > n
    BY <1>0
  <2>2. f \in [n + 1 .. n + 1 -> Seq(Tokens(v))]
    OBVIOUS
  <2>3. \A p \in n + 1 .. n + 1 : f[p] = <<>>
    OBVIOUS
  <2> HIDE DEF f
  <2>4. GreedyFrom(v, bytes, f, n + 1)
    BY <2>1, <2>2, <2>3 DEF GreedyFrom
  <2>5. QED
    BY <2>1, <2>4
<1>3. ASSUME NEW k \in Nat, k \in S PROVE k + 1 \in S
  <2> SUFFICES ASSUME k + 1 <= n PROVE \E f : GreedyFrom(v, bytes, f, n + 1 - (k + 1))
    OBVIOUS
  <2> DEFINE i == n + 1 - (k + 1)
  <2>1. k <= n
    BY <1>0
  <2>2. PICK g : GreedyFrom(v, bytes, g, n + 1 - k)
    BY <1>3, <2>1
  <2>3. i \in 1 .. n /\ n + 1 - k = i + 1
    BY <1>0
  <2> HIDE DEF i
  <2>4. /\ g \in [i + 1 .. n + 1 -> Seq(Tokens(v))]
        /\ \A p \in i + 1 .. n + 1 :
             g[p] = IF p > n THEN <<>> ELSE <<token(p)>> \o g[p + token(p).length]
    BY <2>2, <2>3 DEF GreedyFrom, token
  <2> DEFINE first == <<token(i)>> \o g[i + token(i).length]
             f == [p \in i .. n + 1 |-> IF p = i THEN first ELSE g[p]]
  <2>5. i + token(i).length \in i + 1 .. n + 1 /\ token(i) \in Tokens(v)
    BY <1>0, <1>1, <2>3
  <2>6. first \in Seq(Tokens(v))
    <3> DEFINE t == token(i)
               u == g[i + token(i).length]
    <3>1. u \in Seq(Tokens(v)) /\ t \in Tokens(v)
      BY <2>4, <2>5
    <3> HIDE DEF t, u
    <3>2. <<t>> \o u \in Seq(Tokens(v))
      BY <3>1
    <3>3. QED
      BY <3>2 DEF t, u
  <2>7. \A p \in i .. n + 1 : p = i \/ (p \in i + 1 .. n + 1 /\ p # i)
    BY <1>0, <2>3
  <2>8. /\ \A p \in i + 1 .. n + 1 : f[p] = g[p]
        /\ f[i] = first
    BY <1>0, <2>3
  <2> HIDE DEF first
  <2>9. f \in [i .. n + 1 -> Seq(Tokens(v))]
    BY <2>4, <2>6, <2>7
  <2> HIDE DEF f
  <2>10. ASSUME NEW p \in i .. n + 1
         PROVE  f[p] = IF p > n THEN <<>> ELSE <<token(p)>> \o f[p + token(p).length]
    <3>1. CASE p = i
      <4>1. f[i + token(i).length] = g[i + token(i).length]
        BY <2>5, <2>8
      <4>2. ~ (i > n)
        BY <2>3
      <4>3. f[i] = <<token(i)>> \o f[i + token(i).length]
        BY <2>8, <4>1 DEF first
      <4>4. QED
        BY <3>1, <4>2, <4>3
    <3>2. CASE p \in i + 1 .. n + 1 /\ p > n
      BY <2>4, <2>8, <3>2
    <3>3. CASE p \in i + 1 .. n + 1 /\ ~ (p > n)
      <4>1. p \in 1 .. n
        BY <1>0, <2>3, <3>3
      <4>2. p + token(p).length \in i + 1 .. n + 1
        <5> DEFINE l == token(p).length
        <5>1. l \in 1 .. n + 1 - p
          BY <1>1, <4>1
        <5> HIDE DEF l
        <5>2. p \in Nat /\ i \in Nat /\ i + 1 <= p /\ l \in Nat /\ 1 <= l /\ l <= n + 1 - p
          BY <1>0, <2>3, <3>3, <5>1
        <5>3. p + l \in i + 1 .. n + 1
          BY <1>0, <5>2
        <5>4. QED
          BY <5>3 DEF l
      <4>3. f[p] = g[p] /\ f[p + token(p).length] = g[p + token(p).length]
        BY <2>8, <3>3, <4>2
      <4>4. g[p] = <<token(p)>> \o g[p + token(p).length]
        BY <2>4, <3>3
      <4>5. QED
        BY <3>3, <4>3, <4>4
    <3>4. QED
      BY <2>7, <3>1, <3>2, <3>3
  <2>11. GreedyFrom(v, bytes, f, i)
    BY <2>9, <2>10 DEF GreedyFrom, token
  <2>12. QED
    BY <2>11 DEF i
<1>4. n \in S
  <2> HIDE DEF S
  <2> QED BY <1>0, <1>2, <1>3, NatSetInduction
<1>5. n + 1 - n = 1 /\ n <= n
  BY <1>0
<1>6. QED
  BY <1>4, <1>5

(* The longest matches spell the bytes.                                    *)
LEMMA GreedySpells ==
  ASSUME NEW v, IsVocabulary(v), NEW bytes \in Seq(Char)
  PROVE  EncodeGreedy(v, bytes) \in Seq(Tokens(v)) /\ DecodeIds(v, EncodeGreedy(v, bytes)) = bytes
<1> DEFINE n == Len(bytes)
           Law(f) == f = [p \in 1 .. Len(bytes) + 1 |->
                            IF p > Len(bytes) THEN <<>>
                            ELSE <<TokenAt(v, bytes, p)>> \o f[p + TokenAt(v, bytes, p).length]]
           f == CHOOSE f : Law(f)
           T == Tokens(v)
           D == Decoder(v)
           Rest(p) == SubSeq(bytes, p, n)
           Good(p) == f[p] \in Seq(T) /\ DecodeIds(v, f[p]) = Rest(p)
           S == {k \in Nat : \A p \in 1 .. n + 1 : n + 1 - p <= k => Good(p)}
<1>0. n \in Nat
  OBVIOUS
<1>1. \E h : Law(h)
  <2>1. PICK h : GreedyFrom(v, bytes, h, 1)
    BY GreedyExists
  <2>2. /\ h \in [1 .. n + 1 -> Seq(T)]
        /\ \A p \in 1 .. n + 1 :
             h[p] = IF p > n THEN <<>>
                    ELSE <<TokenAt(v, bytes, p)>> \o h[p + TokenAt(v, bytes, p).length]
    BY <2>1 DEF GreedyFrom
  <2>3. h = [p \in 1 .. n + 1 |-> h[p]]
    BY <2>2
  <2>4. Law(h)
    BY <2>2, <2>3
  <2> HIDE DEF Law
  <2>5. QED
    BY <2>4
<1>2. Law(f)
  <2> HIDE DEF Law
  <2> QED BY <1>1
<1>3. EncodeGreedy(v, bytes) = f[1]
  BY DEF EncodeGreedy
<1> HIDE DEF f
<1>4. \A p \in 1 .. n + 1 :
        f[p] = IF p > n THEN <<>>
               ELSE <<TokenAt(v, bytes, p)>> \o f[p + TokenAt(v, bytes, p).length]
  BY <1>2
<1> HIDE DEF Law
<1>5. /\ D \in [Seq(T) -> Seq(Char)] /\ D[<<>>] = <<>>
      /\ \A a, b \in Seq(T) : D[a \o b] = D[a] \o D[b]
  BY DecodesJoins DEF KeepsJoins
<1>6. /\ \A a \in Seq(T) : D[a] = DecodeIds(v, a)
      /\ \A t \in T : D[<<t>>] = Spelling(v, t)
  <2>1. \A t \in T : <<t>> \in Seq(T)
    OBVIOUS
  <2>2. QED
    BY <2>1, DecodesJoins DEF Decoder
<1> HIDE DEF D, T
<1>7. 0 \in S
  <2> SUFFICES ASSUME NEW p \in 1 .. n + 1, n + 1 - p <= 0 PROVE Good(p)
    OBVIOUS
  <2>1. p = n + 1 /\ p > n
    BY <1>0
  <2>2. f[p] = <<>> /\ <<>> \in Seq(T)
    <3>1. f[p] = <<>>
      BY <1>4, <2>1
    <3>2. <<>> \in Seq(T)
      OBVIOUS
    <3>3. QED
      BY <3>1, <3>2
  <2>3. Rest(p) = <<>>
    <3>1. n \in 0 .. Len(bytes)
      BY <1>0
    <3>2. SubSeq(bytes, n + 1, n) = <<>>
      BY <3>1, EmptyPart
    <3>3. QED
      BY <2>1, <3>2
  <2>4. QED
    BY <1>5, <1>6, <2>2, <2>3
<1>8. ASSUME NEW k \in Nat, k \in S PROVE k + 1 \in S
  <2> SUFFICES ASSUME NEW p \in 1 .. n + 1, n + 1 - p <= k + 1 PROVE Good(p)
    OBVIOUS
  <2>1. CASE p > n
    <3>1. n + 1 - p <= k
      BY <1>0, <2>1
    <3>2. QED
      BY <1>8, <3>1
  <2>2. CASE ~ (p > n)
    <3> DEFINE t == TokenAt(v, bytes, p)
               q == p + t.length
    <3>1. p \in 1 .. n
      BY <1>0, <2>2
    <3>2. t \in T /\ t.length \in 1 .. n + 1 - p /\ Spelling(v, t) = SubSeq(bytes, p, q - 1)
      <4>1. LET tt == TokenAt(v, bytes, p)
            IN  /\ tt \in Tokens(v) /\ tt.length \in 1 .. Len(bytes) + 1 - p
                /\ Spelling(v, tt) = SubSeq(bytes, p, p + tt.length - 1)
        BY <3>1, TokenAtIs
      <4>2. t.length \in Nat => p + t.length - 1 = q - 1
        OBVIOUS
      <4>3. QED
        BY <4>1, <4>2 DEF T
    <3>3. f[p] = <<t>> \o f[q]
      BY <1>4, <2>2
    <3> HIDE DEF t
    <3>4. q \in 1 .. n + 1 /\ n + 1 - q <= k /\ q - 1 \in 0 .. n
      <4> DEFINE r == t.length
      <4>1. r \in 1 .. n + 1 - p /\ p \in 1 .. n /\ n \in Nat /\ n + 1 - p <= k + 1 /\ q = p + r
        BY <1>0, <3>1, <3>2
      <4> HIDE DEF r
      <4>2. p + r \in 1 .. n + 1 /\ n + 1 - (p + r) <= k /\ (p + r) - 1 \in 0 .. n
        BY <4>1
      <4>3. QED
        BY <4>1, <4>2
    <3> HIDE DEF q
    <3>5. f[q] \in Seq(T) /\ DecodeIds(v, f[q]) = Rest(q)
      BY <1>8, <3>4
    <3>6. <<t>> \in Seq(T) /\ f[p] \in Seq(T)
      <4> DEFINE u == f[q]
      <4>1. u \in Seq(T) /\ t \in T
        BY <3>2, <3>5
      <4> HIDE DEF u
      <4>2. <<t>> \in Seq(T) /\ <<t>> \o u \in Seq(T)
        BY <4>1
      <4>3. QED
        BY <3>3, <4>2 DEF u
    <3>7. D[f[p]] = D[<<t>>] \o D[f[q]]
      BY <1>5, <3>3, <3>5, <3>6
    <3>8. D[f[p]] = SubSeq(bytes, p, q - 1) \o Rest(q)
      BY <1>6, <3>2, <3>5, <3>7
    <3>9. Rest(p) = SubSeq(bytes, p, q - 1) \o Rest(q)
      <4>1. /\ p - 1 \in 0 .. Len(bytes) /\ q - 1 \in p - 1 .. Len(bytes) /\ Len(bytes) \in q - 1 .. Len(bytes)
            /\ (p - 1) + 1 = p /\ (q - 1) + 1 = q
          <5>1. p \in Nat /\ q \in Nat /\ p <= q
            <6>1. p \in Nat /\ n \in Nat
              BY <1>0, <3>1
            <6>2. t.length \in Nat /\ q = p + t.length
              BY <3>2, <6>1 DEF q
            <6>3. QED
              BY <6>1, <6>2
          <5>2. QED
            BY <1>0, <3>1, <3>4, <5>1
      <4>2. SubSeq(bytes, (p - 1) + 1, Len(bytes))
              = SubSeq(bytes, (p - 1) + 1, q - 1) \o SubSeq(bytes, (q - 1) + 1, Len(bytes))
        BY <4>1, PartsJoin
      <4>3. QED
        BY <4>1, <4>2
    <3>10. QED
      BY <1>6, <3>6, <3>8, <3>9
  <2>3. QED
    BY <2>1, <2>2
<1>9. n \in S
  <2> HIDE DEF S
  <2> QED BY <1>0, <1>7, <1>8, NatSetInduction
<1>10. Good(1)
  <2>1. 1 \in 1 .. n + 1 /\ n + 1 - 1 <= n
    BY <1>0
  <2>2. QED
    BY <1>9, <2>1
<1>11. Rest(1) = bytes
  BY WholePart
<1>12. QED
  BY <1>3, <1>10, <1>11 DEF T

(* Between two neighbouring cuts lies one byte or a learned entry.         *)
CutPoints(v, bytes, c) ==
  /\ c \in Seq(0 .. Len(bytes))
  /\ Len(c) > 0 /\ c[1] = 0 /\ c[Len(c)] = Len(bytes)
  /\ \A j \in 1 .. Len(c) - 1 :
       /\ c[j] < c[j + 1]
       /\ c[j + 1] = c[j] + 1 \/ RanksOf(v, SubSeq(bytes, c[j] + 1, c[j + 1])) # {}

(* A sequence without its member at i.                                     *)
LEMMA RemovedAt ==
  ASSUME NEW T, NEW c \in Seq(T), NEW i \in 2 .. Len(c) - 1
  PROVE  /\ RemoveAt(c, i) \in Seq(T) /\ Len(RemoveAt(c, i)) = Len(c) - 1
         /\ \A j \in 1 .. i - 1 : RemoveAt(c, i)[j] = c[j]
         /\ \A j \in i .. Len(c) - 1 : RemoveAt(c, i)[j] = c[j + 1]
<1> DEFINE n == Len(c)
           a == SubSeq(c, 0 + 1, i - 1)
           b == SubSeq(c, i + 1, n)
           r == a \o b
<1>1. /\ n \in Nat /\ 0 \in 0 .. n /\ i - 1 \in 0 .. n /\ i \in 0 .. n /\ n \in i .. n
      /\ (i - 1) - 0 = i - 1 /\ i \in Nat
  OBVIOUS
<1>2. a \in Seq(T) /\ Len(a) = i - 1 /\ \A j \in 1 .. i - 1 : a[j] = c[j]
  <2>1. a \in Seq(T) /\ Len(a) = (i - 1) - 0 /\ \A j \in 1 .. (i - 1) - 0 : a[j] = c[0 + j]
    BY <1>1, PartMembers
  <2> HIDE DEF a
  <2>2. QED
    BY <1>1, <2>1
<1>3. b \in Seq(T) /\ Len(b) = n - i /\ \A j \in 1 .. n - i : b[j] = c[i + j]
  BY <1>1, PartMembers
<1> HIDE DEF a, b
<1>4. /\ r \in Seq(T) /\ Len(r) = Len(a) + Len(b)
      /\ \A j \in 1 .. Len(a) : r[j] = a[j]
      /\ \A j \in 1 .. Len(b) : r[Len(a) + j] = b[j]
  <2>1. a \in Seq(T) /\ b \in Seq(T)
    BY <1>2, <1>3
  <2>2. /\ a \o b \in Seq(T) /\ Len(a \o b) = Len(a) + Len(b)
        /\ \A j \in 1 .. Len(a) : (a \o b)[j] = a[j]
        /\ \A j \in 1 .. Len(b) : (a \o b)[Len(a) + j] = b[j]
    BY ONLY <2>1, JoinMembers
  <2>3. QED
    BY <2>2 DEF r
<1> HIDE DEF r
<1>5. RemoveAt(c, i) = r
  BY DEF RemoveAt, r, a, b
<1>6. \A j \in 1 .. i - 1 : r[j] = c[j]
  BY <1>2, <1>4
<1>7. ASSUME NEW j \in i .. n - 1 PROVE r[j] = c[j + 1]
  <2>1. j - (i - 1) \in 1 .. n - i /\ (i - 1) + (j - (i - 1)) = j /\ i + (j - (i - 1)) = j + 1
    BY <1>1
  <2>2. r[(i - 1) + (j - (i - 1))] = b[j - (i - 1)]
    BY <1>2, <1>3, <1>4, <2>1
  <2>3. b[j - (i - 1)] = c[i + (j - (i - 1))]
    BY <1>3, <2>1
  <2>4. QED
    BY <2>1, <2>2, <2>3
<1>8. Len(r) = n - 1
  BY <1>1, <1>2, <1>3, <1>4
<1>9. QED
  BY <1>4, <1>5, <1>6, <1>7, <1>8

(* Ranks are numbers.                                                      *)
LEMMA RanksAreNatural ==
  ASSUME NEW v, IsVocabulary(v), NEW piece
  PROVE  /\ RanksOf(v, piece) \in SUBSET Nat
         /\ \A r \in RanksOf(v, piece) : r \in 1 .. Len(v.entries) /\ v.entries[r] = piece
<1>1. DOMAIN v.entries = 1 .. Len(v.entries) /\ Len(v.entries) \in Nat
  BY EntriesAre
<1>2. QED
  BY <1>1 DEF RanksOf

(* A merge removes a cut between two parts of a learned entry.             *)
LEMMA MergeKeepsCuts ==
  ASSUME NEW v, IsVocabulary(v), NEW bytes \in Seq(Char), NEW c, CutPoints(v, bytes, c)
  PROVE  CutPoints(v, bytes, Merge(v, bytes, c))
<1> DEFINE n == Len(bytes)
           m == Len(c)
           ranks(k) == RanksOf(v, SubSeq(bytes, c[k - 1] + 1, c[k + 1]))
           mergeable == {k \in 2 .. Len(c) - 1 : ranks(k) # {}}
           best == Min(UNION {ranks(k) : k \in mergeable})
           places == {k \in mergeable : best \in ranks(k)}
           i == Min(places)
           r == RemoveAt(c, i)
<1>1. /\ n \in Nat /\ m \in Nat /\ m > 0 /\ c \in Seq(0 .. n) /\ c[1] = 0 /\ c[m] = n
      /\ \A j \in 1 .. m - 1 :
           /\ c[j] < c[j + 1]
           /\ c[j + 1] = c[j] + 1 \/ RanksOf(v, SubSeq(bytes, c[j] + 1, c[j + 1])) # {}
  BY DEF CutPoints
<1>2. Merge(v, bytes, c) = IF mergeable = {} THEN c ELSE r
  BY DEF Merge
<1>3. CASE mergeable = {}
  BY <1>2, <1>3
<1>4. CASE mergeable # {}
  <2>1. \A k \in mergeable : k \in 2 .. m - 1 /\ k \in Nat /\ ranks(k) # {} /\ ranks(k) \in SUBSET Nat
    BY <1>1, RanksAreNatural
  <2> HIDE DEF mergeable, ranks
  <2>2. best \in UNION {ranks(k) : k \in mergeable}
    <3> DEFINE all == UNION {ranks(k) : k \in mergeable}
    <3>1. all \in SUBSET Nat /\ all # {}
      BY <1>4, <2>1
    <3> HIDE DEF all
    <3>2. Min(all) \in all
      BY <3>1, MinOfNaturals
    <3>3. QED
      BY <3>2 DEF all
  <2> HIDE DEF best
  <2>3. i \in places
    <3>1. places \in SUBSET Nat /\ places # {}
      BY <2>1, <2>2
    <3> HIDE DEF places
    <3>2. QED
      BY <3>1, MinOfNaturals
  <2> HIDE DEF i
  <2>4. i \in 2 .. m - 1 /\ ranks(i) # {}
    BY <2>1, <2>3
  <2>5. RanksOf(v, SubSeq(bytes, c[i - 1] + 1, c[i + 1])) # {}
    BY <2>4 DEF ranks
  <2>6. /\ r \in Seq(0 .. n) /\ Len(r) = m - 1
        /\ \A j \in 1 .. i - 1 : r[j] = c[j]
        /\ \A j \in i .. m - 1 : r[j] = c[j + 1]
    BY <1>1, <2>4, RemovedAt
  <2> HIDE DEF r, m, n
  <2>7. Len(r) > 0 /\ r[1] = 0 /\ r[Len(r)] = n
    <3>1. 1 \in 1 .. i - 1 /\ m - 1 \in i .. m - 1 /\ (m - 1) + 1 = m /\ m - 1 > 0
      BY <1>1, <2>4
    <3>2. QED
      BY <1>1, <2>6, <3>1
  <2>8. \A j \in 1 .. m : c[j] \in Nat
    <3>1. \A j \in 1 .. m : c[j] \in 0 .. n
      BY <1>1 DEF m
    <3>2. QED
      BY <1>1, <3>1
  <2>9. ASSUME NEW j \in 1 .. Len(r) - 1
        PROVE  /\ r[j] < r[j + 1]
               /\ r[j + 1] = r[j] + 1 \/ RanksOf(v, SubSeq(bytes, r[j] + 1, r[j + 1])) # {}
    <3>0. j \in 1 .. m - 2 /\ j \in Nat /\ i \in Nat
      BY <1>1, <2>4, <2>6
    <3>1. CASE j + 1 <= i - 1
      <4>1. r[j] = c[j] /\ r[j + 1] = c[j + 1] /\ j \in 1 .. m - 1
        <5>1. j \in 1 .. i - 1 /\ j + 1 \in 1 .. i - 1 /\ j \in 1 .. m - 1
          BY <1>1, <2>4, <3>0, <3>1
        <5>2. QED
          BY <2>6, <5>1
      <4>2. QED
        BY <1>1, <4>1
    <3>2. CASE j = i - 1
      <4>1. /\ j \in 1 .. i - 1 /\ j + 1 \in i .. m - 1 /\ j + 1 = i /\ (j + 1) + 1 = i + 1
            /\ j \in 1 .. m - 1 /\ j + 1 \in 1 .. m - 1 /\ i + 1 \in 1 .. m /\ i \in 1 .. m /\ j \in 1 .. m
        BY <1>1, <2>4, <3>0, <3>2
      <4>2. r[j] = c[i - 1] /\ r[j + 1] = c[i + 1]
        BY <2>6, <3>2, <4>1
      <4>3. c[j] < c[j + 1] /\ c[j + 1] < c[(j + 1) + 1]
        BY <1>1, <4>1
      <4>4. c[j] < c[i + 1]
        BY <2>8, <4>1, <4>3
      <4>5. QED
        BY <2>5, <3>2, <4>2, <4>4
    <3>3. CASE j >= i
      <4>1. j \in i .. m - 1 /\ j + 1 \in i .. m - 1 /\ j + 1 \in 1 .. m - 1
        BY <1>1, <2>4, <3>0, <3>3
      <4>2. r[j] = c[j + 1] /\ r[j + 1] = c[(j + 1) + 1]
        BY <2>6, <4>1
      <4>3. QED
        BY <1>1, <4>1, <4>2
    <3>4. QED
      BY <3>0, <3>1, <3>2, <3>3
  <2>10. CutPoints(v, bytes, r)
    BY <2>6, <2>7, <2>9 DEF CutPoints, n
  <2>11. QED
    BY <1>2, <1>4, <2>10 DEF r
<1>5. QED
  BY <1>3, <1>4

(* So after any number of merges.                                          *)
LEMMA BpeCutsAre ==
  ASSUME NEW v, IsVocabulary(v), NEW bytes \in Seq(Char)
  PROVE  CutPoints(v, bytes, BpeCuts(v, bytes))
<1> DEFINE n == Len(bytes)
           first == [k \in 1 .. n + 1 |-> k - 1]
           T == {c \in Seq(0 .. n) : CutPoints(v, bytes, c)}
           Step == [x \in T \X (1 .. n) |-> Merge(v, bytes, x[1])]
           Law(f) == f = [i \in 0 .. Len(bytes) |->
                            IF i = 0 THEN [k \in 1 .. Len(bytes) + 1 |-> k - 1]
                            ELSE Merge(v, bytes, f[i - 1])]
           f == CHOOSE f : Law(f)
<1>0. n \in Nat
  OBVIOUS
<1>1. first \in T
  <2>1. /\ first \in Seq(0 .. n) /\ Len(first) = n + 1 /\ \A k \in 1 .. n + 1 : first[k] = k - 1
    BY <1>0
  <2> HIDE DEF first
  <2>2. Len(first) > 0 /\ first[1] = 0 /\ first[Len(first)] = n
    BY <1>0, <2>1
  <2>3. \A j \in 1 .. Len(first) - 1 : first[j] < first[j + 1] /\ first[j + 1] = first[j] + 1
    BY <1>0, <2>1
  <2>4. CutPoints(v, bytes, first)
    BY <2>1, <2>2, <2>3 DEF CutPoints
  <2>5. QED
    BY <2>1, <2>4
<1>2. \A c \in T : Merge(v, bytes, c) \in T
  <2>1. ASSUME NEW c \in T PROVE Merge(v, bytes, c) \in T
    <3>1. CutPoints(v, bytes, Merge(v, bytes, c))
      BY MergeKeepsCuts
    <3>2. QED
      BY <3>1 DEF CutPoints
  <2>2. QED
    BY <2>1
<1> HIDE DEF T
<1>3. Step \in [T \X (1 .. n) -> T]
  BY <1>2
<1>4. PICK h : IsRecursion(h, n, T, first, Step)
  <2> HIDE DEF Step, first
  <2> QED BY <1>0, <1>1, <1>3, RecursionExists
<1>5. h \in [0 .. n -> T] /\ h[0] = first /\ \A k \in 1 .. n : h[k] = Step[<<h[k - 1], k>>]
  BY <1>4 DEF IsRecursion
<1>6. \A k \in 1 .. n : h[k] = Merge(v, bytes, h[k - 1])
  <2>1. \A k \in 1 .. n : k - 1 \in 0 .. n
    BY <1>0
  <2>2. \A k \in 1 .. n : h[k - 1] \in T
    BY <1>5, <2>1
  <2>3. \A c \in T : \A k \in 1 .. n : Step[<<c, k>>] = Merge(v, bytes, c)
    OBVIOUS
  <2> HIDE DEF Step
  <2>4. QED
    BY <1>5, <2>2, <2>3
<1>7. Law(h)
  <2>1. \A i \in 0 .. n : i = 0 \/ (i # 0 /\ i \in 1 .. n)
    BY <1>0
  <2>2. \A i \in 0 .. n : h[i] = IF i = 0 THEN first ELSE Merge(v, bytes, h[i - 1])
    BY <1>5, <1>6, <2>1
  <2>3. h = [i \in 0 .. n |-> h[i]]
    BY <1>5
  <2>4. QED
    BY <2>2, <2>3
<1>8. Law(f)
  <2> HIDE DEF Law
  <2> QED BY <1>7
<1>9. BpeCuts(v, bytes) = f[n]
  BY DEF BpeCuts
<1> HIDE DEF f
<1>10. \A i \in 0 .. n : f[i] = IF i = 0 THEN first ELSE Merge(v, bytes, f[i - 1])
  BY <1>8
<1> HIDE DEF Law, first
<1> DEFINE S == {i \in Nat : i <= n => f[i] \in T}
<1>11. 0 \in S
  BY <1>0, <1>1, <1>10
<1>12. ASSUME NEW i \in Nat, i \in S PROVE i + 1 \in S
  <2>1. i + 1 <= n => i + 1 \in 0 .. n /\ i + 1 # 0 /\ (i + 1) - 1 = i /\ i <= n
    BY <1>0
  <2>2. i + 1 <= n => f[i + 1] = Merge(v, bytes, f[i]) /\ f[i] \in T
    BY <1>10, <1>12, <2>1
  <2>3. QED
    BY <1>2, <2>2
<1>13. n \in S
  <2> HIDE DEF S
  <2> QED BY <1>0, <1>11, <1>12, NatSetInduction
<1>14. f[n] \in T
  BY <1>0, <1>13
<1>15. QED
  BY <1>9, <1>14 DEF T

(* What merging leaves spells the bytes.                                   *)
LEMMA BpeSpells ==
  ASSUME NEW v, IsVocabulary(v), NEW bytes \in Seq(Char)
  PROVE  EncodeBpe(v, bytes) \in Seq(Tokens(v)) /\ DecodeIds(v, EncodeBpe(v, bytes)) = bytes
<1> DEFINE n == Len(bytes)
           cuts == BpeCuts(v, bytes)
           m == Len(cuts) - 1
           token(k) == IF cuts[k + 1] = cuts[k] + 1 THEN ByteToken(bytes[cuts[k + 1]])
                       ELSE EntryToken(v, Min(RanksOf(v, SubSeq(bytes, cuts[k] + 1, cuts[k + 1]))))
           tokens == [k \in 1 .. m |-> token(k)]
           x == [k \in 0 .. m |-> cuts[k + 1]]
           s == [k \in 1 .. m |-> Spelling(v, tokens[k])]
<1>1. EncodeBpe(v, bytes) = tokens
  BY DEF EncodeBpe
<1>2. CutPoints(v, bytes, cuts)
  BY BpeCutsAre
<1> HIDE DEF cuts
<1>3. /\ n \in Nat /\ Len(cuts) \in Nat /\ m \in Nat /\ cuts[1] = 0 /\ cuts[m + 1] = n
      /\ \A k \in 1 .. m + 1 : cuts[k] \in 0 .. n
      /\ \A j \in 1 .. m :
           /\ cuts[j] < cuts[j + 1]
           /\ cuts[j + 1] = cuts[j] + 1 \/ RanksOf(v, SubSeq(bytes, cuts[j] + 1, cuts[j + 1])) # {}
  <2>1. cuts \in Seq(0 .. n) /\ Len(cuts) > 0
    BY <1>2 DEF CutPoints
  <2>2. Len(cuts) \in Nat /\ m \in Nat /\ m + 1 = Len(cuts)
    BY <2>1
  <2>3. \A k \in 1 .. m + 1 : cuts[k] \in 0 .. n
    BY <2>1, <2>2
  <2>4. QED
    BY <1>2, <2>2, <2>3 DEF CutPoints
<1> HIDE DEF m
<1>4. ASSUME NEW k \in 1 .. m
      PROVE  /\ token(k) \in Tokens(v)
             /\ Spelling(v, token(k)) = SubSeq(bytes, cuts[k] + 1, cuts[k + 1])
  <2>1. k \in 1 .. m + 1 /\ k + 1 \in 1 .. m + 1
    BY <1>3
  <2>2. cuts[k] \in 0 .. n /\ cuts[k + 1] \in 0 .. n /\ cuts[k] < cuts[k + 1]
    BY <1>3, <2>1
  <2>3. CASE cuts[k + 1] = cuts[k] + 1
    <3> DEFINE p == cuts[k + 1]
    <3>1. p \in 1 .. n /\ cuts[k] + 1 = p
      BY <1>3, <2>2, <2>3
    <3> HIDE DEF p
    <3>2. bytes[p] \in Char /\ SubSeq(bytes, p, p) = <<bytes[p]>>
      <4>1. bytes[p] \in Char
        BY <3>1
      <4>2. SubSeq(bytes, p, p) = <<bytes[p]>>
        BY <3>1, OnePart
      <4>3. QED
        BY <4>1, <4>2
    <3>3. token(k) = ByteToken(bytes[p])
      BY <2>3 DEF p
    <3> HIDE DEF token
    <3>4. token(k) \in Tokens(v) /\ Spelling(v, token(k)) = <<bytes[p]>>
      BY <3>2, <3>3, ByteTokenIs
    <3>5. QED
      BY <3>1, <3>2, <3>4 DEF p
  <2>4. CASE cuts[k + 1] # cuts[k] + 1
    <3> DEFINE piece == SubSeq(bytes, cuts[k] + 1, cuts[k + 1])
               r == Min(RanksOf(v, piece))
    <3>1. RanksOf(v, piece) # {}
      BY <1>3, <2>4
    <3>2. token(k) = EntryToken(v, r)
      BY <2>4
    <3> HIDE DEF piece, token
    <3>3. r \in RanksOf(v, piece)
      BY <3>1, RanksAreNatural, MinOfNaturals
    <3>4. r \in 1 .. Len(v.entries) /\ v.entries[r] = piece
      BY <3>3, RanksAreNatural
    <3> HIDE DEF r
    <3>5. token(k) \in Tokens(v) /\ Spelling(v, token(k)) = piece
      BY <3>2, <3>4, EntryTokenIs
    <3>6. QED
      BY <3>5 DEF piece
  <2>5. QED
    BY <2>3, <2>4
<1> HIDE DEF token
<1>5. /\ tokens \in Seq(Tokens(v)) /\ Len(tokens) = m
      /\ \A k \in 1 .. m : tokens[k] \in Tokens(v) /\ tokens[k] = token(k)
  BY <1>3, <1>4
<1> HIDE DEF tokens
<1>6. /\ s \in Seq(Seq(Char)) /\ Len(s) = m
      /\ \A k \in 1 .. m : s[k] = SubSeq(bytes, cuts[k] + 1, cuts[k + 1])
  <2>1. \A k \in 1 .. m : Spelling(v, tokens[k]) \in Seq(Char)
    BY <1>5, SpellingType
  <2>2. \A k \in 1 .. m : Spelling(v, tokens[k]) = SubSeq(bytes, cuts[k] + 1, cuts[k + 1])
    BY <1>4, <1>5
  <2>3. QED
    BY <1>3, <2>1, <2>2
<1>7. DecodeIds(v, tokens) = FlattenSeq(s)
  BY <1>5, DecodesJoins
<1> HIDE DEF s
<1>8. x \in [0 .. m -> 0 .. n] /\ \A k \in 0 .. m : x[k] = cuts[k + 1]
  BY <1>3
<1> HIDE DEF x
<1>9. \A k \in 1 .. m : x[k - 1] = cuts[k] /\ x[k] = cuts[k + 1] /\ x[k - 1] <= x[k]
  <2>1. \A k \in 1 .. m : k - 1 \in 0 .. m /\ k \in 0 .. m /\ (k - 1) + 1 = k
    BY <1>3
  <2>2. \A k \in 1 .. m : x[k - 1] = cuts[k] /\ x[k] = cuts[k + 1]
    BY <1>8, <2>1
  <2>3. \A k \in 1 .. m : cuts[k] \in Nat /\ cuts[k + 1] \in Nat /\ cuts[k] < cuts[k + 1]
    BY <1>3
  <2>4. QED
    BY <2>2, <2>3
<1>10. Tiles(s, bytes, x, m)
  BY <1>3, <1>6, <1>8, <1>9 DEF Tiles
<1>11. FlattenSeq(s) = SubSeq(bytes, x[0] + 1, x[m])
  BY <1>6, <1>10, TilesCover
<1>12. x[0] = 0 /\ x[m] = n /\ 0 + 1 = 1
  BY <1>3, <1>8
<1>13. SubSeq(bytes, 1, n) = bytes
  BY WholePart
<1>14. QED
  BY <1>1, <1>5, <1>7, <1>11, <1>12, <1>13

(* Either encoder yields tokens of its vocabulary that spell the bytes.    *)
LEMMA EncoderSpells ==
  ASSUME NEW v, IsVocabulary(v), NEW bytes \in Seq(Char)
  PROVE  EncodeSegment(v, bytes) \in Seq(Tokens(v)) /\ DecodeIds(v, EncodeSegment(v, bytes)) = bytes
BY GreedySpells, BpeSpells DEF EncodeSegment

(* One sequence flattens to itself.                                        *)
LEMMA FlattenOne ==
  ASSUME NEW T, NEW a \in Seq(T)
  PROVE  FlattenSeq(<<a>>) = a
<1> DEFINE s == <<a>>
           f == [k \in 0 .. 1 |-> IF k = 0 THEN <<>> ELSE a]
<1>1. s \in Seq(Seq(T)) /\ Len(s) = 1 /\ s[1] = a
  OBVIOUS
<1>2. <<>> \o a = a
  OBVIOUS
<1>3. f[0] = <<>> /\ \A k \in 1 .. Len(s) : f[k] = f[k - 1] \o s[k]
  BY <1>1, <1>2
<1>4. f[1] = a
  OBVIOUS
<1> HIDE DEF s, f
<1>5. FlattenSeq(s) = f[Len(s)]
  BY <1>1, <1>3, FlattenIs
<1>6. QED
  BY <1>1, <1>4, <1>5 DEF s

(* Spans are encoded, and spelled, one after the other.                    *)
SpanEncoder(v, d) == [segs \in Seq(Spans(Len(d))) |-> EncodeSegments(v, d, segs)]

SpanBytes(d) ==
  [segs \in Seq(Spans(Len(d))) |-> FlattenSeq([j \in 1 .. Len(segs) |-> Bytes(d, segs[j])])]

(* The bytes of a span are characters.                                     *)
LEMMA BytesType ==
  ASSUME NEW d \in Seq(Char), NEW s \in Spans(Len(d))
  PROVE  Bytes(d, s) \in Seq(Char)
<1>1. Len(d) \in Nat
  OBVIOUS
<1>2. s.start \in 0 .. Len(d) /\ s.end \in s.start .. Len(d)
  BY <1>1, SpanIs
<1>3. SubSeq(d, s.start + 1, s.end) \in Seq(Char)
  BY <1>2, PartMembers
<1>4. QED
  BY <1>3 DEF Bytes

(* What joined spans spell is joined.                                      *)
LEMMA SpansSpelled ==
  ASSUME NEW d \in Seq(Char)
  PROVE  KeepsJoins(SpanBytes(d), Spans(Len(d)), Char)
<1> DEFINE S == Spans(Len(d))
           g == [s \in S |-> Bytes(d, s)]
           h == [a \in Seq(S) |-> FlattenSeq([j \in 1 .. Len(a) |-> g[a[j]]])]
<1>1. g \in [S -> Seq(Char)]
  <2>1. \A s \in S : Bytes(d, s) \in Seq(Char)
    BY BytesType
  <2>2. QED
    BY <2>1
<1>2. KeepsJoins(h, S, Char)
  <2> HIDE DEF g, S
  <2> QED BY <1>1, FlatMapKeepsJoins
<1>3. h = SpanBytes(d)
  <2>1. ASSUME NEW a \in Seq(S)
        PROVE  [j \in 1 .. Len(a) |-> g[a[j]]] = [j \in 1 .. Len(a) |-> Bytes(d, a[j])]
    <3>1. \A j \in 1 .. Len(a) : a[j] \in S
      OBVIOUS
    <3>2. QED
      BY <3>1
  <2>2. QED
    BY <2>1 DEF SpanBytes
<1>4. QED
  BY <1>2, <1>3

(* What joined spans encode to is joined.                                  *)
LEMMA SpansEncoded ==
  ASSUME NEW v, IsVocabulary(v), NEW d \in Seq(Char)
  PROVE  KeepsJoins(SpanEncoder(v, d), Spans(Len(d)), Tokens(v))
<1> DEFINE S == Spans(Len(d))
           g == [s \in S |-> EncodeSegment(v, Bytes(d, s))]
           h == [a \in Seq(S) |-> FlattenSeq([j \in 1 .. Len(a) |-> g[a[j]]])]
<1>1. g \in [S -> Seq(Tokens(v))]
  <2>1. \A s \in S : EncodeSegment(v, Bytes(d, s)) \in Seq(Tokens(v))
    BY BytesType, EncoderSpells
  <2>2. QED
    BY <2>1
<1>2. KeepsJoins(h, S, Tokens(v))
  <2> HIDE DEF g, S
  <2> QED BY <1>1, FlatMapKeepsJoins
<1>3. h = SpanEncoder(v, d)
  <2>1. ASSUME NEW a \in Seq(S)
        PROVE  FlattenSeq([j \in 1 .. Len(a) |-> g[a[j]]]) = EncodeSegments(v, d, a)
    <3>1. DOMAIN a = 1 .. Len(a) /\ \A j \in 1 .. Len(a) : a[j] \in S
      OBVIOUS
    <3>2. QED
      BY <3>1 DEF EncodeSegments
  <2>2. QED
    BY <2>1 DEF SpanEncoder
<1>4. QED
  BY <1>2, <1>3

(* Encoded spans spell their bytes.                                        *)
LEMMA EncodedSpansSpell ==
  ASSUME NEW v, IsVocabulary(v), NEW d \in Seq(Char), NEW segs \in Seq(Spans(Len(d)))
  PROVE  /\ EncodeSegments(v, d, segs) \in Seq(Tokens(v))
         /\ DecodeIds(v, EncodeSegments(v, d, segs)) = SpanBytes(d)[segs]
<1> DEFINE S == Spans(Len(d))
           T == Tokens(v)
           n == Len(segs)
           parts == [j \in 1 .. n |-> EncodeSegment(v, Bytes(d, segs[j]))]
           D == Decoder(v)
<1>1. n \in Nat /\ DOMAIN segs = 1 .. n /\ \A j \in 1 .. n : segs[j] \in S
  OBVIOUS
<1>2. EncodeSegments(v, d, segs) = FlattenSeq(parts)
  BY <1>1 DEF EncodeSegments
<1>3. \A j \in 1 .. n : /\ EncodeSegment(v, Bytes(d, segs[j])) \in Seq(T)
                        /\ DecodeIds(v, EncodeSegment(v, Bytes(d, segs[j]))) = Bytes(d, segs[j])
  BY <1>1, BytesType, EncoderSpells
<1>4. parts \in Seq(Seq(T)) /\ Len(parts) = n
      /\ \A j \in 1 .. n : parts[j] = EncodeSegment(v, Bytes(d, segs[j]))
  BY <1>1, <1>3
<1>5. KeepsJoins(D, T, Char) /\ \A a \in Seq(T) : D[a] = DecodeIds(v, a)
  BY DecodesJoins DEF Decoder
<1> HIDE DEF parts, D, T
<1>6. D[FlattenSeq(parts)] = FlattenSeq([j \in 1 .. Len(parts) |-> D[parts[j]]])
  BY <1>4, <1>5, JoinByParts
<1>7. \A j \in 1 .. n : D[parts[j]] = Bytes(d, segs[j])
  BY <1>3, <1>4, <1>5
<1>8. [j \in 1 .. Len(parts) |-> D[parts[j]]] = [j \in 1 .. n |-> Bytes(d, segs[j])]
  BY <1>4, <1>7
<1>9. FlattenSeq(parts) \in Seq(T)
  BY <1>4, FlattenHolds
<1>10. SpanBytes(d)[segs] = FlattenSeq([j \in 1 .. n |-> Bytes(d, segs[j])])
  BY DEF SpanBytes
<1>11. QED
  BY <1>2, <1>5, <1>6, <1>8, <1>9, <1>10 DEF T

(* Encoding a window's spans, there or in the document.                    *)
LEMMA EncodeMoved ==
  ASSUME NEW v, NEW d \in Seq(Char), NEW a \in 0 .. Len(d), NEW b \in a .. Len(d),
         NEW segs \in Seq(Spans(b - a))
  PROVE  /\ MovedAll(segs, a) \in Seq(Spans(Len(d)))
         /\ EncodeSegments(v, d, MovedAll(segs, a)) = EncodeSegments(v, SubSeq(d, a + 1, b), segs)
<1> DEFINE e == SubSeq(d, a + 1, b)
           m == Len(segs)
           there == MovedAll(segs, a)
<1>1. /\ m \in Nat /\ DOMAIN segs = 1 .. m /\ a \in Nat /\ b - a \in Nat /\ b \in Nat
      /\ \A j \in 1 .. m : segs[j] \in Spans(b - a)
  OBVIOUS
<1>2. /\ DOMAIN there = 1 .. m /\ Len(there) = m /\ \A j \in 1 .. m : there[j] = Moved(segs[j], a)
      /\ there = [j \in 1 .. m |-> Moved(segs[j], a)]
  BY <1>1 DEF MovedAll
<1>3. ASSUME NEW s \in Spans(b - a) PROVE Moved(s, a) \in Spans(Len(d))
  <2>1. s.start \in 0 .. b - a /\ s.end \in s.start .. b - a
    BY <1>1, SpanIs
  <2>2. a + s.start \in 0 .. Len(d) /\ a + s.end \in 0 .. Len(d) /\ a + s.start <= a + s.end
    BY <1>1, <2>1
  <2>3. QED
    BY <2>2 DEF Moved, Spans
<1> HIDE DEF there, m
<1>4. there \in Seq(Spans(Len(d)))
  <2>1. \A j \in 1 .. m : Moved(segs[j], a) \in Spans(Len(d))
    BY <1>1, <1>3
  <2>2. QED
    BY <1>1, <1>2, <2>1
<1>5. \A j \in 1 .. m : Bytes(d, there[j]) = Bytes(e, segs[j])
  BY <1>1, <1>2, BytesMoved
<1> HIDE DEF e
<1>6. EncodeSegments(v, d, there) = EncodeSegments(v, e, segs)
  BY <1>1, <1>2, <1>5 DEF EncodeSegments
<1>7. QED
  BY <1>4, <1>6 DEF there, e

(* Units follow each other from the first byte to the last.                *)
LEMMA UnitsInOrder ==
  ASSUME NEW d \in Seq(Char)
  PROVE  /\ InOrder(Units(d))
         /\ Len(Units(d)) # 0 => /\ Units(d)[1].start = 0
                                 /\ Units(d)[Len(Units(d))].end = Len(d)
         /\ Len(Units(d)) = 0 => Len(d) = 0
<1>1. PICK x, m, y, g : ChunkedAt(d, x, m, y, g)
  BY ChunkedExists
<1>2. Units(d) = PartsAt(x, m)
  BY <1>1, ChunksAre
<1>3. m \in Nat /\ x[0] = 0 /\ x[m] = Len(d)
  BY <1>1 DEF ChunkedAt, Cuts
<1>4. /\ Len(Units(d)) = m
      /\ \A k \in 1 .. m : Units(d)[k] = [start |-> x[k - 1], end |-> x[k]]
  BY <1>2, <1>3 DEF PartsAt
<1>5. \A k \in 1 .. m - 1 : k \in 1 .. m /\ k + 1 \in 1 .. m /\ (k + 1) - 1 = k
  BY <1>3
<1>6. InOrder(Units(d))
  BY <1>4, <1>5 DEF InOrder
<1>7. m # 0 => 1 \in 1 .. m /\ m \in 1 .. m /\ 1 - 1 = 0
  BY <1>3
<1>8. QED
  BY <1>3, <1>4, <1>6, <1>7

(* The slices of a unit make up the unit.                                  *)
LEMMA ChunkSpanSpells ==
  ASSUME NEW d \in Seq(Char), NEW unit \in Spans(Len(d))
  PROVE  SpanBytes(d)[ChunkSpan(unit)] = Bytes(d, unit)
<1> DEFINE n == Len(d)
<1>0. n \in Nat
  OBVIOUS
<1>1. PICK q \in Nat :
        LET x == SliceEnds(unit, q)
        IN  /\ ChunkSpan(unit) = [k \in 1 .. q |-> [start |-> x[k - 1], end |-> x[k]]]
            /\ x \in [0 .. q -> 0 .. n]
            /\ x[0] = unit.start /\ x[q] = unit.end
            /\ \A k \in 1 .. q : x[k - 1] <= x[k]
  BY <1>0, Slices
<1> DEFINE x == SliceEnds(unit, q)
           segs == ChunkSpan(unit)
           s == [j \in 1 .. q |-> Bytes(d, segs[j])]
<1>2. /\ segs = [k \in 1 .. q |-> [start |-> x[k - 1], end |-> x[k]]]
      /\ x \in [0 .. q -> 0 .. n] /\ x[0] = unit.start /\ x[q] = unit.end
      /\ \A k \in 1 .. q : x[k - 1] <= x[k]
  BY <1>1
<1> HIDE DEF x
<1>3. segs \in Seq(Spans(n)) /\ Len(segs) = q
  BY <1>0, <1>2, ChunkSpanType
<1>4. \A k \in 1 .. q : segs[k] \in Spans(n) /\ segs[k].start = x[k - 1] /\ segs[k].end = x[k]
  BY <1>2, <1>3
<1> HIDE DEF segs
<1>5. \A k \in 1 .. q : Bytes(d, segs[k]) \in Seq(Char)
                        /\ Bytes(d, segs[k]) = SubSeq(d, x[k - 1] + 1, x[k])
  BY <1>4, BytesType DEF Bytes
<1>6. s \in Seq(Seq(Char)) /\ Len(s) = q /\ \A k \in 1 .. q : s[k] = SubSeq(d, x[k - 1] + 1, x[k])
  BY <1>5
<1>7. SpanBytes(d)[segs] = FlattenSeq(s)
  BY <1>3 DEF SpanBytes
<1> HIDE DEF s
<1>8. Tiles(s, d, x, q)
  BY <1>2, <1>6 DEF Tiles
<1>9. FlattenSeq(s) = SubSeq(d, x[0] + 1, x[q])
  BY <1>6, <1>8, TilesCover
<1>10. QED
  BY <1>2, <1>7, <1>9 DEF Bytes, segs

(* One span spells its bytes.                                              *)
LEMMA OneSpanSpells ==
  ASSUME NEW d \in Seq(Char), NEW s \in Spans(Len(d))
  PROVE  SpanBytes(d)[<<s>>] = Bytes(d, s)
<1>1. Bytes(d, s) \in Seq(Char)
  BY BytesType
<1>2. <<s>> \in Seq(Spans(Len(d))) /\ [j \in 1 .. Len(<<s>>) |-> Bytes(d, <<s>>[j])] = <<Bytes(d, s)>>
  OBVIOUS
<1>3. SpanBytes(d)[<<s>>] = FlattenSeq(<<Bytes(d, s)>>)
  BY <1>2 DEF SpanBytes
<1>4. QED
  BY <1>1, <1>3, FlattenOne

(* Where the segments of the k-th unit end: a bridge reaches over the next *)
(* unit, which then has none of its own.                                   *)
PartEnds(d, units) ==
  [k \in 0 .. Len(units) |->
     IF k = 0 THEN 0
     ELSE IF Bridges(d, units, k) THEN units[k + 1].end ELSE units[k].end]

(* Units in reading order that leave out no byte of a document.            *)
Ordered(d, units) ==
  /\ units \in Seq(Wide(Len(d))) /\ InOrder(units)
  /\ Len(units) # 0 => units[1].start = 0 /\ units[Len(units)].end = Len(d)
  /\ Len(units) = 0 => Len(d) = 0

(* Both facts about units at once.                                         *)
LEMMA UnitsOrdered ==
  ASSUME NEW d \in Seq(Char)
  PROVE  Ordered(d, Units(d))
BY UnitsAreWide, UnitsInOrder DEF Ordered

(* Their segments spell the document.                                      *)
LEMMA OrderedSpells ==
  ASSUME NEW d \in Seq(Char), NEW units, Ordered(d, units)
  PROVE  SpanBytes(d)[Segments(d, units)] = d
<1> DEFINE n == Len(d)
           m == Len(units)
           x == PartEnds(d, units)
           parts == [k \in 1 .. m |-> Part(d, units, k)]
           B == SpanBytes(d)
           s == [k \in 1 .. m |-> B[parts[k]]]
<1>0. n \in Nat
  OBVIOUS
<1>1. /\ units \in Seq(Wide(n)) /\ InOrder(units)
      /\ m # 0 => units[1].start = 0 /\ units[m].end = n
      /\ m = 0 => n = 0
  BY DEF Ordered
<1>2. /\ m \in Nat
      /\ \A k \in 1 .. m : units[k] \in Spans(n) /\ units[k].start \in 0 .. n
                           /\ units[k].end \in 0 .. n /\ units[k].start < units[k].end
      /\ \A k \in 1 .. m - 1 : units[k].end = units[k + 1].start
  <2>1. m \in Nat /\ \A k \in 1 .. m : units[k] \in Wide(n)
    BY <1>1
  <2>2. QED
    BY <1>1, <2>1 DEF InOrder, Wide, Spans
<1>3. /\ parts \in Seq(Seq(Spans(n))) /\ Segments(d, units) = FlattenSeq(parts)
  BY <1>0, <1>1, SegmentsAre
<1>4. Len(parts) = m /\ \A k \in 1 .. m : parts[k] = Part(d, units, k) /\ parts[k] \in Seq(Spans(n))
  BY <1>2, <1>3
<1>5. KeepsJoins(B, Spans(n), Char)
  BY SpansSpelled
<1>6. x \in [0 .. m -> 0 .. n] /\ x[0] = 0
      /\ \A k \in 1 .. m : x[k] = IF Bridges(d, units, k) THEN units[k + 1].end ELSE units[k].end
  <2>1. \A k \in 1 .. m : Bridges(d, units, k) => k \in 1 .. m - 1 /\ k + 1 \in 1 .. m
    BY <1>2 DEF Bridges
  <2>2. \A k \in 1 .. m : (IF Bridges(d, units, k) THEN units[k + 1].end ELSE units[k].end) \in 0 .. n
    BY <1>2, <2>1
  <2> HIDE DEF m
  <2>3. \A k \in 0 .. m : k = 0 \/ (k # 0 /\ k \in 1 .. m)
    BY <1>2
  <2>4. x = [k \in 0 .. m |-> IF k = 0 THEN 0
                              ELSE IF Bridges(d, units, k) THEN units[k + 1].end ELSE units[k].end]
    BY DEF PartEnds, m
  <2> HIDE DEF x
  <2>5. QED
    BY <1>0, <1>2, <2>2, <2>3, <2>4
<1> HIDE DEF m, x, parts, B
<1>7. ASSUME NEW k \in 1 .. m
      PROVE  x[k - 1] <= x[k] /\ B[parts[k]] = SubSeq(d, x[k - 1] + 1, x[k])
  <2>1. k \in Nat /\ (k = 1 \/ k - 1 \in 1 .. m - 1) /\ (k - 1) + 1 = k
        /\ (k # 1 => k - 1 \in 1 .. m)
    BY <1>2
  <2>2. CASE Bridges(d, units, k)
    <3>1. /\ k \in 1 .. m - 1 /\ k + 1 \in 1 .. m /\ Bytes(d, units[k]) = <<Space>>
      BY <1>2, <2>2 DEF Bridges, m
    <3>2. d[units[k].start + 1] = Space
      <4> DEFINE a == units[k].start
                 b == units[k].end
      <4>1. a \in 0 .. Len(d) /\ b \in a .. Len(d) /\ b - a \in Nat /\ b - a > 0
        BY <1>0, <1>2
      <4>2. SubSeq(d, a + 1, b) = <<Space>>
        BY <3>1 DEF Bytes
      <4> HIDE DEF a, b
      <4>3. 1 \in 1 .. b - a
        BY <4>1
      <4>4. SubSeq(d, a + 1, b)[1] = d[a + 1]
        BY <4>1, <4>3, PartMembers
      <4>5. QED
        <5>1. <<Space>>[1] = Space
          OBVIOUS
        <5>2. d[a + 1] = Space
          BY <4>2, <4>4, <5>1
        <5>3. QED
          BY <5>2 DEF a
    <3>3. ~ Bridges(d, units, k - 1)
      BY <2>1, <3>2 DEF Bridges, Space, Letter, Underscore
    <3>4. x[k - 1] = units[k].start
      <4>1. CASE k = 1
        BY <1>1, <1>2, <1>6, <4>1
      <4>2. CASE k # 1
        BY <1>2, <1>6, <2>1, <3>3, <4>2
      <4>3. QED
        BY <4>1, <4>2
    <3>5. x[k] = units[k + 1].end
      BY <1>6, <2>2
    <3> DEFINE seg == [start |-> units[k].start, end |-> units[k + 1].end]
    <3>6. seg \in Spans(n)
      <4>1. units[k].start <= units[k + 1].end
        <5>1. /\ units[k].start \in Nat /\ units[k].end \in Nat /\ units[k + 1].start \in Nat
              /\ units[k + 1].end \in Nat /\ units[k].start < units[k].end
              /\ units[k + 1].start < units[k + 1].end
          BY <1>0, <1>2, <3>1
        <5>2. units[k].end = units[k + 1].start
          BY <1>2, <3>1
        <5>3. QED
          BY <5>1, <5>2
      <4>2. QED
        BY <1>0, <1>2, <3>1, <4>1, SpanIs
    <3>7. parts[k] = <<seg>>
      BY <1>4, <2>2 DEF Part
    <3>8. B[<<seg>>] = Bytes(d, seg)
      <4> HIDE DEF seg
      <4> QED BY <3>6, OneSpanSpells DEF B
    <3>9. Bytes(d, seg) = SubSeq(d, x[k - 1] + 1, x[k])
      BY <3>4, <3>5 DEF Bytes
    <3>10. x[k - 1] <= x[k]
      <4>1. units[k].start <= units[k + 1].end
        BY <3>6 DEF Spans
      <4>2. QED
        BY <3>4, <3>5, <4>1
    <3> HIDE DEF seg
    <3>11. QED
      BY <3>7, <3>8, <3>9, <3>10
  <2>3. CASE ~ Bridges(d, units, k) /\ Bridges(d, units, k - 1)
    <3>1. k # 1 /\ k - 1 \in 1 .. m
      BY <2>1, <2>3 DEF Bridges
    <3>2. x[k - 1] = units[k].end /\ x[k] = units[k].end
      BY <1>6, <2>1, <2>3, <3>1
    <3>3. parts[k] = <<>>
      BY <1>4, <2>3 DEF Part
    <3>4. B[<<>>] = <<>>
      BY <1>5 DEF KeepsJoins
    <3>5. units[k].end \in 0 .. Len(d)
      BY <1>2
    <3>6. SubSeq(d, units[k].end + 1, units[k].end) = <<>>
      BY <3>5, EmptyPart
    <3>7. QED
      BY <1>2, <3>2, <3>3, <3>4, <3>6
  <2>4. CASE ~ Bridges(d, units, k) /\ ~ Bridges(d, units, k - 1)
    <3>1. x[k - 1] = units[k].start
      <4>1. CASE k = 1
        BY <1>1, <1>2, <1>6, <4>1
      <4>2. CASE k # 1
        BY <1>2, <1>6, <2>1, <2>4, <4>2
      <4>3. QED
        BY <4>1, <4>2
    <3>2. x[k] = units[k].end
      BY <1>6, <2>4
    <3>3. parts[k] = ChunkSpan(units[k])
      BY <1>4, <2>4 DEF Part
    <3>4. B[ChunkSpan(units[k])] = Bytes(d, units[k])
      BY <1>2, ChunkSpanSpells DEF B
    <3>5. QED
      BY <1>2, <3>1, <3>2, <3>3, <3>4 DEF Bytes
  <2>5. QED
    BY <2>2, <2>3, <2>4
<1>8. /\ s \in Seq(Seq(Char)) /\ Len(s) = m
      /\ \A k \in 1 .. m : s[k] = B[parts[k]]
      /\ FlattenSeq(s) = B[FlattenSeq(parts)]
  <2>1. [k \in 1 .. Len(parts) |-> B[parts[k]]] \in Seq(Seq(Char))
        /\ B[FlattenSeq(parts)] = FlattenSeq([k \in 1 .. Len(parts) |-> B[parts[k]]])
    BY <1>3, <1>5, JoinByParts
  <2>2. QED
    BY <1>2, <1>4, <2>1
<1> HIDE DEF s
<1>9. Tiles(s, d, x, m)
  BY <1>2, <1>6, <1>7, <1>8 DEF Tiles
<1>10. FlattenSeq(s) = SubSeq(d, x[0] + 1, x[m])
  BY <1>8, <1>9, TilesCover
<1>11. x[m] = n
  <2>1. CASE m = 0
    BY <1>1, <1>6, <2>1
  <2>2. CASE m # 0
    <3>1. m \in 1 .. m /\ m \notin 1 .. m - 1
      BY <1>2, <2>2
    <3>2. ~ Bridges(d, units, m)
      BY <3>1 DEF Bridges, m
    <3>3. QED
      BY <1>1, <1>6, <2>2, <3>1, <3>2
  <2>3. QED
    BY <2>1, <2>2
<1>12. SubSeq(d, 1, n) = d
  BY WholePart
<1>13. QED
  BY <1>3, <1>6, <1>8, <1>10, <1>11, <1>12 DEF B

(* The segments of the units of a document spell it.                       *)
LEMMA UnitsSpell ==
  ASSUME NEW d \in Seq(Char)
  PROVE  SpanBytes(d)[Segments(d, Units(d))] = d
BY UnitsOrdered, OrderedSpells

(* A document's tokens, without history.                                   *)
Encoded(v, d) == EncodeSegments(v, d, FlatSegments(d))

Exact(d, c) == Bytes(d, Whole(Chunks(d)[c]))

(* The bytes a chunk is filed under, and what they encode to by themselves *)
(* and in their document.                                                  *)
LEMMA PieceEncodes ==
  ASSUME NEW v, IsVocabulary(v), NEW d \in Seq(Char),
         NEW x, NEW m, NEW y, NEW g, ChunkedAt(d, x, m, y, g), NEW c \in 1 .. g
  PROVE  LET e == Piece(d, ChunkEnds(x, y, g), c)
         IN  /\ Exact(d, c) = e
             /\ e \in Seq(Char)
             /\ Segments(d, Chunks(d)[c]) \in Seq(Spans(Len(d)))
             /\ EncodeSegments(v, d, Segments(d, Chunks(d)[c])) = Encoded(v, e)
             /\ Encoded(v, e) \in Seq(Tokens(v))
             /\ DecodeIds(v, Encoded(v, e)) = e
<1> DEFINE z == ChunkEnds(x, y, g)
           a == z[c - 1]
           b == z[c]
           e == SubSeq(d, a + 1, b)
           units == Units(e)
           segs == Segments(e, units)
<1>1. Exact(d, c) = e
  <2>1. Whole(Chunks(d)[c]) = [start |-> a, end |-> b]
    BY ChunkWhole
  <2>2. QED
    <3> HIDE DEF a, b
    <3>1. Bytes(d, [start |-> a, end |-> b]) = SubSeq(d, a + 1, b)
      BY DEF Bytes
    <3>2. Exact(d, c) = Bytes(d, [start |-> a, end |-> b])
      BY <2>1 DEF Exact
    <3>3. QED
      BY <3>1, <3>2
<1>2. a \in 0 .. Len(d) /\ b \in a .. Len(d)
  <2>1. Cuts(z, g, ChunkStarts(d), Len(d))
    BY ChunkCuts
  <2> HIDE DEF z
  <2>2. /\ g \in Nat /\ z \in [0 .. g -> 0 .. Len(d)] /\ Len(d) \in Nat
        /\ \A j, k \in 0 .. g : j < k => z[j] < z[k]
    BY <2>1 DEF Cuts
  <2>3. c - 1 \in 0 .. g /\ c \in 0 .. g /\ c - 1 < c
    BY <2>2
  <2>4. z[c - 1] \in 0 .. Len(d) /\ z[c] \in 0 .. Len(d) /\ z[c - 1] < z[c]
    BY <2>2, <2>3
  <2>5. QED
    BY <2>4
<1>3. Chunks(d)[c] = MovedAll(units, a) /\ Chunks(e) = <<units>>
  <2>1. LET zz == ChunkEnds(x, y, g)
            ee == Piece(d, zz, c)
        IN  /\ Chunks(d)[c] = MovedAll(Units(ee), zz[c - 1])
            /\ Chunks(ee) = <<Units(ee)>>
    BY ChunkAlone
  <2>2. QED
    BY <2>1 DEF Piece
<1> HIDE DEF a, b
<1>4. e \in Seq(Char) /\ Len(e) = b - a /\ b - a \in Nat
  BY <1>2, PartMembers
<1>5. units \in Seq(Wide(b - a)) /\ InOrder(units)
  <2> HIDE DEF e
  <2> QED BY <1>4, UnitsAreWide, UnitsInOrder
<1>6. Segments(d, MovedAll(units, a)) = MovedAll(segs, a)
  <2> HIDE DEF units
  <2> QED BY <1>2, <1>5, SegmentsMoved
<1>7. segs \in Seq(Spans(b - a))
  <2> HIDE DEF e, units
  <2> QED BY <1>4, <1>5, SegmentsAre
<1>8. MovedAll(segs, a) \in Seq(Spans(Len(d)))
      /\ EncodeSegments(v, d, MovedAll(segs, a)) = EncodeSegments(v, e, segs)
  <2> HIDE DEF segs
  <2> QED BY <1>2, <1>7, EncodeMoved
<1>9. FlatSegments(e) = segs
  <2> HIDE DEF e, units
  <2>1. Chunks(e) = <<units>> /\ DOMAIN <<units>> = 1 .. 1 /\ <<units>>[1] = units
    BY <1>3
  <2>2. [i \in DOMAIN <<units>> |-> Segments(e, <<units>>[i])] = <<segs>>
    <3> HIDE DEF segs
    <3>1. \A i \in 1 .. 1 : i = 1
      OBVIOUS
    <3>2. \A i \in 1 .. 1 : Segments(e, <<units>>[i]) = segs
      BY <2>1, <3>1 DEF segs
    <3>3. [i \in 1 .. 1 |-> Segments(e, <<units>>[i])] = [i \in 1 .. 1 |-> segs]
      BY <3>2
    <3>4. QED
      BY <2>1, <3>3
  <2>3. FlatSegments(e) = FlattenSeq(<<segs>>)
    BY <2>1, <2>2 DEF FlatSegments
  <2> HIDE DEF segs
  <2>4. QED
    BY <1>7, <2>3, FlattenOne
<1>10. Encoded(v, e) = EncodeSegments(v, e, segs)
  BY <1>9 DEF Encoded
<1>11. EncodeSegments(v, e, segs) \in Seq(Tokens(v))
       /\ DecodeIds(v, EncodeSegments(v, e, segs)) = SpanBytes(e)[segs]
  <2>1. segs \in Seq(Spans(Len(e)))
    BY <1>4, <1>7
  <2> HIDE DEF segs, e
  <2>2. QED
    BY <1>4, <2>1, EncodedSpansSpell
<1>12. SpanBytes(e)[segs] = e
  <2> HIDE DEF e
  <2> QED BY <1>4, UnitsSpell
<1>13. e = Piece(d, z, c)
  BY DEF Piece, a, b
<1> HIDE DEF e, segs, units
<1>14. QED
  BY <1>1, <1>3, <1>4, <1>6, <1>8, <1>10, <1>11, <1>12, <1>13

(* A document is the chunks it is cut into, and so are its tokens.         *)
Pieces(d) == [c \in 1 .. Len(Chunks(d)) |-> Exact(d, c)]

ByPieces(v, d) == [c \in 1 .. Len(Chunks(d)) |-> Encoded(v, Exact(d, c))]

(* A document encodes to what its chunks encode to.                        *)
LEMMA EncodedByChunks ==
  ASSUME NEW v, IsVocabulary(v), NEW d \in Seq(Char)
  PROVE  /\ Len(Chunks(d)) \in Nat /\ DOMAIN Chunks(d) = 1 .. Len(Chunks(d))
         /\ Pieces(d) \in Seq(Seq(Char)) /\ FlattenSeq(Pieces(d)) = d
         /\ ByPieces(v, d) \in Seq(Seq(Tokens(v))) /\ FlattenSeq(ByPieces(v, d)) = Encoded(v, d)
<1>1. PICK x, m, y, g : ChunkedAt(d, x, m, y, g)
  BY ChunkedExists
<1> DEFINE z == ChunkEnds(x, y, g)
           chunks == Chunks(d)
           n == Len(d)
           parts == [c \in 1 .. g |-> Segments(d, chunks[c])]
           S == Spans(n)
           T == Tokens(v)
           E == SpanEncoder(v, d)
<1>2. Cuts(z, g, ChunkStarts(d), n)
  BY <1>1, ChunkCuts
<1> HIDE DEF z
<1>3. /\ g \in Nat /\ z \in [0 .. g -> 0 .. n] /\ n \in Nat /\ z[0] = 0 /\ z[g] = n
      /\ \A j, k \in 0 .. g : j < k => z[j] < z[k]
  BY <1>2 DEF Cuts
<1>4. DOMAIN chunks = 1 .. g /\ Len(chunks) = g
  <2>1. chunks = [c \in 1 .. g |-> SubSeq(PartsAt(x, m), y[c - 1] + 1, y[c])]
    BY <1>1, ChunksAre
  <2> HIDE DEF chunks
  <2>2. QED
    BY <1>3, <2>1
<1>5. ASSUME NEW c \in 1 .. g
      PROVE  /\ Exact(d, c) = Piece(d, z, c)
             /\ Exact(d, c) \in Seq(Char)
             /\ Segments(d, chunks[c]) \in Seq(S)
             /\ EncodeSegments(v, d, Segments(d, chunks[c])) = Encoded(v, Exact(d, c))
             /\ Encoded(v, Exact(d, c)) \in Seq(T)
  <2>1. LET e == Piece(d, ChunkEnds(x, y, g), c)
         IN  /\ Exact(d, c) = e
             /\ e \in Seq(Char)
             /\ Segments(d, Chunks(d)[c]) \in Seq(Spans(Len(d)))
             /\ EncodeSegments(v, d, Segments(d, Chunks(d)[c])) = Encoded(v, e)
             /\ Encoded(v, e) \in Seq(Tokens(v))
             /\ DecodeIds(v, Encoded(v, e)) = e
    BY <1>1, PieceEncodes
  <2>2. QED
    BY <2>1 DEF z
<1>6. Pieces(d) \in Seq(Seq(Char)) /\ Len(Pieces(d)) = g
      /\ \A c \in 1 .. g : Pieces(d)[c] = SubSeq(d, z[c - 1] + 1, z[c])
  BY <1>3, <1>4, <1>5 DEF Pieces, Piece
<1>7. FlattenSeq(Pieces(d)) = d
  <2>1. \A k \in 1 .. g : z[k - 1] <= z[k]
    <3>1. \A k \in 1 .. g : k - 1 \in 0 .. g /\ k \in 0 .. g /\ k - 1 < k
      BY <1>3
    <3>2. \A k \in 1 .. g : z[k - 1] < z[k] /\ z[k - 1] \in Nat /\ z[k] \in Nat
      BY <1>3, <3>1
    <3>3. QED
      BY <3>2
  <2>2. Tiles(Pieces(d), d, z, g)
    BY <1>3, <1>6, <2>1 DEF Tiles
  <2>3. FlattenSeq(Pieces(d)) = SubSeq(d, z[0] + 1, z[g])
    BY <1>6, <2>2, TilesCover
  <2>4. SubSeq(d, 1, n) = d
    BY WholePart
  <2>5. QED
    BY <1>3, <2>3, <2>4
<1>8. ByPieces(v, d) \in Seq(Seq(T)) /\ Len(ByPieces(v, d)) = g
      /\ ByPieces(v, d) = [c \in 1 .. g |-> Encoded(v, Exact(d, c))]
  BY <1>3, <1>4, <1>5 DEF ByPieces
<1>9. /\ parts \in Seq(Seq(S)) /\ Len(parts) = g
      /\ \A c \in 1 .. g : parts[c] = Segments(d, chunks[c]) /\ parts[c] \in Seq(S)
  BY <1>3, <1>5
<1>10. FlatSegments(d) = FlattenSeq(parts)
  BY <1>4 DEF FlatSegments
<1> HIDE DEF parts
<1>11. KeepsJoins(E, S, T)
  BY SpansEncoded
<1>12. E[FlattenSeq(parts)] = FlattenSeq([c \in 1 .. Len(parts) |-> E[parts[c]]])
  <2> HIDE DEF E, S, T
  <2>1. parts \in Seq(Seq(S))
    BY <1>9
  <2> QED BY ONLY <1>11, <2>1, JoinByParts
<1>13. \A c \in 1 .. g : E[parts[c]] = Encoded(v, Exact(d, c))
  <2>1. \A c \in 1 .. g : E[parts[c]] = EncodeSegments(v, d, parts[c])
    BY <1>9 DEF SpanEncoder
  <2>2. QED
    BY <1>5, <1>9, <2>1
<1>14. [c \in 1 .. Len(parts) |-> E[parts[c]]] = ByPieces(v, d)
  BY <1>8, <1>9, <1>13
<1>15. FlattenSeq(parts) \in Seq(S)
  <2> HIDE DEF S
  <2> QED BY <1>9, FlattenHolds
<1>16. E[FlattenSeq(parts)] = Encoded(v, d)
  BY <1>10, <1>15 DEF Encoded, SpanEncoder
<1>17. QED
  BY <1>3, <1>4, <1>6, <1>7, <1>8, <1>12, <1>14, <1>16

(* What a chunk encodes to in its document is what its bytes encode to.    *)
LEMMA ChunkEncodes ==
  ASSUME NEW v, IsVocabulary(v), NEW d \in Seq(Char), NEW c \in 1 .. Len(Chunks(d))
  PROVE  /\ EncodeSegments(v, d, Segments(d, Chunks(d)[c])) = Encoded(v, Exact(d, c))
         /\ Exact(d, c) \in Seq(Char)
         /\ Encoded(v, Exact(d, c)) \in Seq(Tokens(v))
         /\ DecodeIds(v, Encoded(v, Exact(d, c))) = Exact(d, c)
<1>1. PICK x, m, y, g : ChunkedAt(d, x, m, y, g)
  BY ChunkedExists
<1>2. g \in Nat
  BY <1>1 DEF ChunkedAt, Cuts
<1>3. c \in 1 .. g
  <2>1. Chunks(d) = [i \in 1 .. g |-> SubSeq(PartsAt(x, m), y[i - 1] + 1, y[i])]
    BY <1>1, ChunksAre
  <2>2. Len(Chunks(d)) = g
    BY <1>2, <2>1
  <2>3. QED
    BY <2>2
<1>4. LET e == Piece(d, ChunkEnds(x, y, g), c)
      IN  /\ Exact(d, c) = e
          /\ e \in Seq(Char)
          /\ Segments(d, Chunks(d)[c]) \in Seq(Spans(Len(d)))
          /\ EncodeSegments(v, d, Segments(d, Chunks(d)[c])) = Encoded(v, e)
          /\ Encoded(v, e) \in Seq(Tokens(v))
          /\ DecodeIds(v, Encoded(v, e)) = e
  BY <1>1, <1>3, PieceEncodes
<1>5. QED
  BY <1>4

(* A document's tokens spell it.                                           *)
LEMMA EncodedSpells ==
  ASSUME NEW v, IsVocabulary(v), NEW d \in Seq(Char)
  PROVE  Encoded(v, d) \in Seq(Tokens(v)) /\ DecodeIds(v, Encoded(v, d)) = d
<1> DEFINE T == Tokens(v)
           D == Decoder(v)
           n == Len(Chunks(d))
           parts == ByPieces(v, d)
<1>1. /\ n \in Nat /\ Pieces(d) \in Seq(Seq(Char)) /\ FlattenSeq(Pieces(d)) = d
      /\ parts \in Seq(Seq(T)) /\ FlattenSeq(parts) = Encoded(v, d)
  BY EncodedByChunks
<1>2. Encoded(v, d) \in Seq(T)
  <2> HIDE DEF parts, T
  <2> QED BY <1>1, FlattenHolds
<1>3. /\ D \in [Seq(T) -> Seq(Char)] /\ KeepsJoins(D, T, Char)
      /\ \A a \in Seq(T) : D[a] = DecodeIds(v, a)
  BY DecodesJoins DEF KeepsJoins, Decoder
<1>4. Len(parts) = n /\ \A c \in 1 .. n : parts[c] = Encoded(v, Exact(d, c))
  BY <1>1 DEF ByPieces
<1> HIDE DEF D, T, parts
<1>5. D[FlattenSeq(parts)] = FlattenSeq([c \in 1 .. Len(parts) |-> D[parts[c]]])
  <2>1. parts \in Seq(Seq(T)) /\ KeepsJoins(D, T, Char)
    BY <1>1, <1>3
  <2> QED BY ONLY <2>1, JoinByParts
<1>6. \A c \in 1 .. n : D[parts[c]] = Exact(d, c)
  <2>1. ASSUME NEW c \in 1 .. n PROVE D[parts[c]] = Exact(d, c)
    <3>1. Encoded(v, Exact(d, c)) \in Seq(T) /\ DecodeIds(v, Encoded(v, Exact(d, c))) = Exact(d, c)
      BY ChunkEncodes DEF T
    <3>2. QED
      BY <1>3, <1>4, <3>1
  <2>2. QED
    BY <2>1
<1>7. [c \in 1 .. Len(parts) |-> D[parts[c]]] = Pieces(d)
  BY <1>4, <1>6 DEF Pieces
<1>8. QED
  BY <1>1, <1>2, <1>3, <1>5, <1>7 DEF T

(* The same, with the chunks given by where they end.                      *)
EncodedPieces(v, d, z, g) == [c \in 1 .. g |-> Encoded(v, Piece(d, z, c))]

(* A part at which chunks begin and end encodes chunk by chunk.            *)
LEMMA EncodedAt ==
  ASSUME NEW v, IsVocabulary(v), NEW d \in Seq(Char),
         NEW z, NEW g, Cuts(z, g, ChunkStarts(d), Len(d))
  PROVE  /\ g \in Nat
         /\ EncodedPieces(v, d, z, g) \in Seq(Seq(Tokens(v)))
         /\ FlattenSeq(EncodedPieces(v, d, z, g)) = Encoded(v, d)
<1> DEFINE n == Len(d)
<1>1. PICK x, m, y, h : ChunkedAt(d, x, m, y, h)
  BY ChunkedExists
<1> DEFINE w == ChunkEnds(x, y, h)
<1>2. Cuts(w, h, ChunkStarts(d), n)
  BY <1>1, ChunkCuts
<1>3. n \in Nat /\ ChunkStarts(d) \in SUBSET (1 .. n)
  BY StartsBegin DEF Begins
<1>4. PartsAt(w, h) = PartsAt(z, g)
  <2> HIDE DEF w
  <2>1. Split(ChunkStarts(d), n) = PartsAt(w, h)
    BY <1>2, <1>3, SplitAt
  <2>2. Split(ChunkStarts(d), n) = PartsAt(z, g)
    BY <1>3, SplitAt
  <2>3. QED
    BY <2>1, <2>2
<1>5. g \in Nat /\ h \in Nat
  BY <1>2 DEF Cuts
<1>6. g = h /\ \A c \in 1 .. g : w[c - 1] = z[c - 1] /\ w[c] = z[c]
  <2> DEFINE p == PartsAt(w, h)
             q == PartsAt(z, g)
  <2>1. /\ Len(p) = h /\ \A c \in 1 .. h : p[c] = [start |-> w[c - 1], end |-> w[c]]
        /\ Len(q) = g /\ \A c \in 1 .. g : q[c] = [start |-> z[c - 1], end |-> z[c]]
    BY <1>5 DEF PartsAt
  <2> HIDE DEF p, q
  <2>2. p = q
    BY <1>4 DEF p, q
  <2>3. g = h
    BY <2>1, <2>2
  <2>4. ASSUME NEW c \in 1 .. g PROVE w[c - 1] = z[c - 1] /\ w[c] = z[c]
    <3>1. [start |-> w[c - 1], end |-> w[c]] = [start |-> z[c - 1], end |-> z[c]]
      BY <2>1, <2>2, <2>3
    <3> HIDE DEF w
    <3>2. QED
      BY <3>1
  <2>5. QED
    BY <2>3, <2>4
<1>7. Len(Chunks(d)) = h
  <2>1. Chunks(d) = [i \in 1 .. h |-> SubSeq(PartsAt(x, m), y[i - 1] + 1, y[i])]
    BY <1>1, ChunksAre
  <2>2. QED
    BY <1>5, <2>1
<1>8. ASSUME NEW c \in 1 .. g PROVE Exact(d, c) = Piece(d, z, c)
  <2>1. LET e == Piece(d, ChunkEnds(x, y, h), c)
        IN  /\ Exact(d, c) = e
            /\ e \in Seq(Char)
            /\ Segments(d, Chunks(d)[c]) \in Seq(Spans(Len(d)))
            /\ EncodeSegments(v, d, Segments(d, Chunks(d)[c])) = Encoded(v, e)
            /\ Encoded(v, e) \in Seq(Tokens(v))
            /\ DecodeIds(v, Encoded(v, e)) = e
    BY <1>1, <1>6, PieceEncodes
  <2>2. Exact(d, c) = Piece(d, w, c)
    BY <2>1
  <2> HIDE DEF w
  <2>3. QED
    BY <1>6, <2>2 DEF Piece
<1>9. ByPieces(v, d) = EncodedPieces(v, d, z, g)
  BY <1>6, <1>7, <1>8 DEF ByPieces, EncodedPieces
<1>10. QED
  BY <1>5, <1>9, EncodedByChunks

(* The chunk starts of a window.                                           *)
LEMMA WindowStarts ==
  ASSUME NEW d \in Seq(Char), NEW a \in 0 .. Len(d), NEW b \in a .. Len(d),
         a # b => a + 1 \in ChunkStarts(d)
  PROVE  LET e == SubSeq(d, a + 1, b)
         IN  \A j \in 1 .. b - a : j \in ChunkStarts(e) <=> a + j \in ChunkStarts(d)
<1> DEFINE e == SubSeq(d, a + 1, b)
<1>1. Len(e) = b - a
  BY PartMembers
<1>2. CutAlike(e, d, a)
  BY WindowAlike
<1> HIDE DEF e
<1>3. \A j \in 1 .. b - a : j \in ChunkStarts(e) <=> a + j \in ChunkStarts(d)
  BY <1>1, <1>2 DEF CutAlike, ChunkStarts
<1>4. QED
  BY <1>3 DEF e

(* Where a chunk begins a document may be cut in two.                      *)
LEMMA EncodedInTwo ==
  ASSUME NEW v, IsVocabulary(v), NEW d \in Seq(Char), NEW a \in 0 .. Len(d),
         a # Len(d) => a + 1 \in ChunkStarts(d)
  PROVE  Encoded(v, d) = Encoded(v, SubSeq(d, 1, a)) \o Encoded(v, SubSeq(d, a + 1, Len(d)))
<1> DEFINE n == Len(d)
           d1 == SubSeq(d, 0 + 1, a)
           d2 == SubSeq(d, a + 1, n)
           b == n - a
           A == ChunkStarts(d1)
           B == ChunkStarts(d2)
<1>1. n \in Nat /\ a \in Nat /\ b \in Nat /\ 0 \in 0 .. n /\ a \in 0 .. n /\ n \in a .. n /\ a + b = n
      /\ a - 0 = a /\ 0 + 1 = 1
  OBVIOUS
<1>2. /\ d1 \in Seq(Char) /\ Len(d1) = a
      /\ d2 \in Seq(Char) /\ Len(d2) = b
  <2>1. 0 \in 0 .. Len(d) /\ a \in 0 .. Len(d) /\ Len(d) \in a .. Len(d)
    BY <1>1
  <2>2. SubSeq(d, 0 + 1, a) \in Seq(Char) /\ Len(SubSeq(d, 0 + 1, a)) = a - 0
    BY <2>1, PartMembers
  <2>3. SubSeq(d, a + 1, Len(d)) \in Seq(Char) /\ Len(SubSeq(d, a + 1, Len(d))) = Len(d) - a
    BY <2>1, PartMembers
  <2>4. a - 0 = a
    BY <1>1
  <2>5. QED
    BY <2>2, <2>3, <2>4
<1>3. \A j \in 1 .. a : j \in A <=> j \in ChunkStarts(d)
  <2>1. 0 # a => 0 + 1 \in ChunkStarts(d)
    <3>1. n # 0 => 1 \in ChunkStarts(d)
      BY StartsBegin DEF Begins
    <3>2. 0 # a => n # 0
      <4>1. Len(d) \in Nat /\ a \in 0 .. Len(d)
        OBVIOUS
      <4>2. 0 # a => Len(d) # 0
        BY ONLY <4>1
      <4>3. QED
        BY <4>2
    <3>3. QED
      BY <1>1, <3>1, <3>2
  <2>2. \A j \in 1 .. a - 0 : j \in ChunkStarts(d1) <=> 0 + j \in ChunkStarts(d)
    BY <1>1, <2>1, WindowStarts
  <2>3. \A j \in 1 .. a : 0 + j = j
    OBVIOUS
  <2>4. QED
    BY <1>1, <2>2, <2>3
<1>4. \A j \in 1 .. b : j \in B <=> a + j \in ChunkStarts(d)
  <2>1. \A j \in 1 .. n - a : j \in ChunkStarts(d2) <=> a + j \in ChunkStarts(d)
    BY <1>1, WindowStarts
  <2>2. QED
    BY <2>1
<1> HIDE DEF d1, d2, b
<1>5. A \in SUBSET (1 .. a) /\ B \in SUBSET (1 .. b) /\ ChunkStarts(d) \in SUBSET (1 .. n)
  BY <1>2, StartsBegin DEF Begins
<1>6. PICK g, x : Cuts(x, g, A, a)
  BY <1>1, <1>2, StartsBegin, CutsExist
<1>7. PICK h, y : Cuts(y, h, B, b)
  BY <1>1, <1>2, StartsBegin, CutsExist
<1> HIDE DEF A, B
<1> DEFINE z == JoinedCuts(x, g, y, h, a)
<1>8. A \union {a + i : i \in B} = ChunkStarts(d)
  <2>1. A \union {a + i : i \in B} \subseteq ChunkStarts(d)
    BY <1>3, <1>4, <1>5
  <2>2. ASSUME NEW i \in ChunkStarts(d) PROVE i \in A \union {a + j : j \in B}
    <3>1. i \in 1 .. n
      BY <1>5
    <3>2. CASE i <= a
      BY <1>1, <1>3, <3>1, <3>2
    <3>3. CASE ~ (i <= a)
      <4>1. i - a \in 1 .. b /\ a + (i - a) = i
        BY <1>1, <3>1, <3>3
      <4>2. i - a \in B
        BY <1>4, <4>1
      <4>3. QED
        BY <4>1, <4>2
    <3>4. QED
      BY <3>2, <3>3
  <2>3. QED
    BY <2>1, <2>2
<1>9. Cuts(z, g + h, ChunkStarts(d), n)
  <2>1. Cuts(z, g + h, A \union {a + i : i \in B}, a + b)
    BY <1>1, <1>5, <1>6, <1>7, CutsJoin
  <2>2. QED
    BY <1>1, <1>8, <2>1
<1> DEFINE E1 == EncodedPieces(v, d1, x, g)
           E2 == EncodedPieces(v, d2, y, h)
           E == EncodedPieces(v, d, z, g + h)
           T == Tokens(v)
<1>10. g \in Nat /\ E1 \in Seq(Seq(T)) /\ FlattenSeq(E1) = Encoded(v, d1)
  BY <1>2, <1>6, EncodedAt DEF A
<1>11. h \in Nat /\ E2 \in Seq(Seq(T)) /\ FlattenSeq(E2) = Encoded(v, d2)
  BY <1>2, <1>7, EncodedAt DEF B
<1>12. E \in Seq(Seq(T)) /\ FlattenSeq(E) = Encoded(v, d)
  <2> HIDE DEF z
  <2> QED BY <1>9, EncodedAt
<1>13. /\ Len(E1) = g /\ \A c \in 1 .. g : E1[c] = Encoded(v, Piece(d1, x, c))
       /\ Len(E2) = h /\ \A c \in 1 .. h : E2[c] = Encoded(v, Piece(d2, y, c))
       /\ Len(E) = g + h /\ \A c \in 1 .. g + h : E[c] = Encoded(v, Piece(d, z, c))
  BY <1>10, <1>11 DEF EncodedPieces
<1> HIDE DEF E, E1, E2, T
<1>14. /\ \A c \in 0 .. g : z[c] = x[c]
       /\ \A c \in 1 .. h : z[g + c] = a + y[c]
       /\ x \in [0 .. g -> 0 .. a] /\ x[g] = a
       /\ \A i, j \in 0 .. g : i < j => x[i] < x[j]
       /\ y \in [0 .. h -> 0 .. b] /\ y[0] = 0
       /\ \A i, j \in 0 .. h : i < j => y[i] < y[j]
  BY <1>6, <1>7, <1>10, <1>11 DEF JoinedCuts, Cuts
<1>15. \A c \in 0 .. h : z[g + c] = a + y[c]
  <2>1. g \in 0 .. g /\ g + 0 = g /\ \A c \in 0 .. h : c = 0 \/ c \in 1 .. h
    BY <1>10, <1>11
  <2>2. z[g + 0] = a + y[0]
    BY <1>1, <1>14, <2>1
  <2>3. QED
    BY <1>14, <2>1, <2>2
<1> HIDE DEF z
<1>16. ASSUME NEW c \in 1 .. g PROVE E[c] = E1[c]
  <2>1. c - 1 \in 0 .. g /\ c \in 0 .. g /\ c - 1 < c /\ c \in 1 .. g + h
    BY <1>10, <1>11
  <2> DEFINE i == x[c - 1]
             j == x[c]
  <2>2. i \in 0 .. a /\ j \in 0 .. a /\ i < j
    BY <1>14, <2>1
  <2>3. z[c - 1] = i /\ z[c] = j
    BY <1>14, <2>1
  <2> HIDE DEF i, j
  <2>4. i \in 0 .. a - 0 /\ j \in i .. a - 0 /\ (0 + i) + 1 = i + 1 /\ 0 + j = j
    BY <1>1, <2>2
  <2>5. a \in 0 .. Len(d) /\ 0 \in 0 .. Len(d)
    BY <1>1
  <2>6. SubSeq(d1, i + 1, j) = SubSeq(d, (0 + i) + 1, 0 + j)
    BY <2>4, <2>5, PartOfPart DEF d1
  <2>7. Piece(d1, x, c) = Piece(d, z, c)
    BY <2>3, <2>4, <2>6 DEF Piece, i, j
  <2>8. QED
    BY <1>13, <2>1, <2>7
<1>17. ASSUME NEW c \in 1 .. h PROVE E[g + c] = E2[c]
  <2>1. /\ c - 1 \in 0 .. h /\ c \in 0 .. h /\ c - 1 < c /\ g + c \in 1 .. g + h
        /\ (g + c) - 1 = g + (c - 1)
    BY <1>10, <1>11
  <2> DEFINE i == y[c - 1]
             j == y[c]
  <2>2. i \in 0 .. b /\ j \in 0 .. b /\ i < j
    BY <1>14, <2>1
  <2>3. z[(g + c) - 1] = a + i /\ z[g + c] = a + j
    BY <1>15, <2>1
  <2> HIDE DEF i, j
  <2>4. i \in 0 .. n - a /\ j \in i .. n - a
    <3>1. b = n - a
      BY DEF b
    <3>2. b \in Nat /\ i \in Nat /\ j \in Nat /\ i <= b /\ j <= b /\ i < j
      BY <1>1, <2>2
    <3> HIDE DEF n
    <3>3. QED
      BY <3>1, <3>2
  <2>5. SubSeq(d2, i + 1, j) = SubSeq(d, (a + i) + 1, a + j)
    BY <1>1, <2>4, PartOfPart DEF d2
  <2>6. Piece(d2, y, c) = Piece(d, z, g + c)
    BY <2>3, <2>5 DEF Piece, i, j
  <2>7. QED
    BY <1>13, <2>1, <2>6
<1>18. Joins(E1, E2, E)
  BY <1>13, <1>16, <1>17 DEF Joins
<1>19. E = E1 \o E2
  <2>1. \A p, q, r \in Seq(Seq(T)) : Joins(p, q, r) => r = p \o q
    BY JoinIs
  <2>2. QED
    BY ONLY <1>10, <1>11, <1>12, <1>18, <2>1
<1>20. FlattenSeq(E) = FlattenSeq(E1) \o FlattenSeq(E2)
  BY <1>10, <1>11, <1>19, FlattenConcat
<1>21. Encoded(v, d) = Encoded(v, d1) \o Encoded(v, d2)
  BY <1>10, <1>11, <1>12, <1>20
<1>22. d1 = SubSeq(d, 1, a)
  BY <1>1 DEF d1
<1>23. QED
  BY <1>21, <1>22 DEF d2

(* The lines of a document, given by where they end, are its bytes.        *)
LEMMA LinesTile ==
  ASSUME NEW d \in Seq(Char), NEW x, NEW m, Cuts(x, m, LineStarts(d), Len(d))
  PROVE  /\ m \in Nat
         /\ LinesOf(d) = [k \in 1 .. m |-> Piece(d, x, k)]
         /\ LinesOf(d) \in Seq(Seq(Char))
         /\ FlattenSeq(LinesOf(d)) = d
<1> DEFINE n == Len(d)
           lines == LinesOf(d)
<1>1. /\ n \in Nat /\ m \in Nat /\ x \in [0 .. m -> 0 .. n] /\ x[0] = 0 /\ x[m] = n
      /\ \A j, k \in 0 .. m : j < k => x[j] < x[k]
  BY DEF Cuts
<1>2. LineStarts(d) \in SUBSET (1 .. n)
  BY StartsBegin DEF Begins
<1>3. Lines(d) = PartsAt(x, m)
  BY <1>1, <1>2, SplitAt DEF Lines
<1>4. lines = [k \in 1 .. m |-> Piece(d, x, k)]
  <2>1. DOMAIN PartsAt(x, m) = 1 .. m
    BY DEF PartsAt
  <2>2. \A k \in 1 .. m : Bytes(d, PartsAt(x, m)[k]) = Piece(d, x, k)
    BY DEF PartsAt, Bytes, Piece
  <2>3. LinesOf(d) = [k \in DOMAIN PartsAt(x, m) |-> Bytes(d, PartsAt(x, m)[k])]
    BY <1>3 DEF LinesOf
  <2>4. QED
    BY <2>1, <2>2, <2>3
<1>5. \A k \in 1 .. m : x[k - 1] \in 0 .. n /\ x[k] \in x[k - 1] .. n /\ x[k - 1] <= x[k]
  <2>1. \A k \in 1 .. m : k - 1 \in 0 .. m /\ k \in 0 .. m /\ k - 1 < k
    BY <1>1
  <2>2. \A k \in 1 .. m : x[k - 1] \in 0 .. n /\ x[k] \in 0 .. n /\ x[k - 1] < x[k]
    BY <1>1, <2>1
  <2>3. QED
    BY <2>2
<1>6. \A k \in 1 .. m : Piece(d, x, k) \in Seq(Char)
  BY <1>5, PartMembers DEF Piece
<1> HIDE DEF lines
<1>7. lines \in Seq(Seq(Char)) /\ Len(lines) = m
  BY <1>1, <1>4, <1>6
<1>8. Tiles(lines, d, x, m)
  BY <1>1, <1>4, <1>5, <1>7 DEF Tiles, Piece
<1>9. FlattenSeq(lines) = SubSeq(d, x[0] + 1, x[m])
  BY <1>7, <1>8, TilesCover
<1>10. SubSeq(d, 1, n) = d
  BY WholePart
<1>11. FlattenSeq(lines) = d
  BY <1>1, <1>9, <1>10
<1>12. QED
  BY <1>1, <1>4, <1>7, <1>11 DEF lines

(* Without blank lines a chunk begins at the start of each line.           *)
LEMMA LinesBeginChunks ==
  ASSUME NEW d \in Seq(Char), ~ HasBlankLine(d)
  PROVE  LineStarts(d) \subseteq ChunkStarts(d)
<1> SUFFICES ASSUME NEW i \in LineStarts(d) PROVE i \in ChunkStarts(d)
  OBVIOUS
<1>1. i \in 1 .. Len(d) /\ (i = 1 \/ d[i - 1] = Newline)
  BY DEF LineStarts
<1>2. CASE i = 1
  <2>1. 1 \in ChunkStarts(d)
    BY <1>1, <1>2, StartsBegin DEF Begins
  <2>2. QED
    BY <1>2, <2>1
<1>3. CASE i # 1
  <2>1. i - 1 \in 1 .. Len(d) - 1 /\ (i - 1) + 1 = i
    BY <1>1, <1>3
  <2>2. d[i - 1] = Newline /\ d[i] # Newline
    BY <1>1, <1>3, <2>1 DEF HasBlankLine
  <2>3. i \in UnitStarts(d)
    BY <1>1, <2>2 DEF UnitStarts
  <2>4. Place(d)[i] = PlaceAfter(d, i, Place(d)[i - 1])
    BY <1>1, PlaceIs DEF IsPlace
  <2>5. PlaceAfter(d, i, Place(d)[i - 1]) = 1
    BY <2>2, <2>3 DEF PlaceAfter
  <2>6. QED
    BY <2>3, <2>4, <2>5 DEF ChunkStarts
<1>4. QED
  BY <1>2, <1>3

(* Nothing encodes to nothing.                                             *)
LEMMA NothingEncoded ==
  ASSUME NEW v, IsVocabulary(v)
  PROVE  Encoded(v, <<>>) = <<>>
<1> DEFINE d == <<>>
           E == Encoded(v, d)
<1>1. d \in Seq(Char) /\ Len(d) = 0 /\ 0 \in 0 .. Len(d) /\ SubSeq(d, 1, 0) = d /\ SubSeq(d, 0 + 1, Len(d)) = d
  OBVIOUS
<1>2. E \in Seq(Tokens(v))
  BY <1>1, EncodedSpells
<1> HIDE DEF d
<1>3. Encoded(v, d) = Encoded(v, SubSeq(d, 1, 0)) \o Encoded(v, SubSeq(d, 0 + 1, Len(d)))
  BY <1>1, EncodedInTwo
<1>4. E = E \o E
  BY <1>1, <1>3
<1> HIDE DEF E
<1>5. Len(E) \in Nat /\ Len(E \o E) = Len(E) + Len(E)
  BY <1>2
<1>6. Len(E) = 0
  BY <1>4, <1>5
<1>7. E = <<>>
  BY <1>2, <1>6
<1>8. QED
  BY <1>7 DEF E, d

(* A prefix that ends with a line: its last line encodes by itself.        *)
LEMMA LastLineEncodes ==
  ASSUME NEW v, IsVocabulary(v), NEW d \in Seq(Char), ~ HasBlankLine(d),
         NEW x, NEW m, Cuts(x, m, LineStarts(d), Len(d)), NEW k \in 1 .. m
  PROVE  Encoded(v, SubSeq(d, 1, x[k])) =
           Encoded(v, SubSeq(d, 1, x[k - 1])) \o Encoded(v, Piece(d, x, k))
<1> DEFINE a == x[k - 1]
           b == x[k]
           p == SubSeq(d, 0 + 1, b)
<1>1. /\ Len(d) \in Nat /\ a \in 0 .. Len(d) /\ b \in a .. Len(d) /\ a < b
      /\ a + 1 \in LineStarts(d)
  <2>1. /\ m \in Nat /\ x \in [0 .. m -> 0 .. Len(d)]
        /\ \A j, h \in 0 .. m : j < h => x[j] < x[h]
        /\ \A h \in 1 .. m : x[h - 1] + 1 \in LineStarts(d)
    BY DEF Cuts
  <2>2. k - 1 \in 0 .. m /\ k \in 0 .. m /\ k - 1 < k
    BY <2>1
  <2>3. a \in 0 .. Len(d) /\ b \in 0 .. Len(d) /\ a < b
    BY <2>1, <2>2
  <2>4. QED
    BY <2>1, <2>3
<1>2. Piece(d, x, k) = SubSeq(d, a + 1, b)
  BY DEF Piece
<1> HIDE DEF a, b
<1>3. 0 \in 0 .. Len(d) /\ b \in 0 .. Len(d) /\ b - 0 = b /\ a \in 0 .. b - 0 /\ b \in a .. b - 0 /\ 0 \in 0 .. b - 0
      /\ a \in 0 .. a /\ a \in 0 .. b /\ 0 + 1 = 1 /\ a + 1 \in 1 .. b - 0 /\ 0 + a = a /\ 0 + b = b /\ 0 + (a + 1) = a + 1
      /\ 0 + 0 = 0
  BY <1>1
<1>4. p \in Seq(Char) /\ Len(p) = b
  <2>1. SubSeq(d, 0 + 1, b) \in Seq(Char) /\ Len(SubSeq(d, 0 + 1, b)) = b - 0
    BY <1>3, PartMembers
  <2>2. QED
    BY <1>3, <2>1
<1>5. a + 1 \in ChunkStarts(d)
  BY <1>1, LinesBeginChunks
<1>6. 0 # b => 0 + 1 \in ChunkStarts(d)
  <2>1. Len(d) # 0
    BY <1>1
  <2>2. QED
    BY <1>3, <2>1, StartsBegin DEF Begins
<1>7. a + 1 \in ChunkStarts(p)
  <2>1. \A j \in 1 .. b - 0 : j \in ChunkStarts(SubSeq(d, 0 + 1, b)) <=> 0 + j \in ChunkStarts(d)
    BY <1>3, <1>6, WindowStarts
  <2>2. QED
    BY <1>3, <1>5, <2>1
<1>8. SubSeq(p, 0 + 1, a) = SubSeq(d, (0 + 0) + 1, 0 + a)
  <2>1. 0 \in 0 .. b - 0 /\ a \in 0 .. b - 0
    BY <1>3
  <2>2. QED
    BY <1>3, <2>1, PartOfPart
<1>9. SubSeq(p, a + 1, b) = SubSeq(d, (0 + a) + 1, 0 + b)
  BY <1>3, PartOfPart
<1> HIDE DEF p
<1>10. Encoded(v, p) = Encoded(v, SubSeq(p, 1, a)) \o Encoded(v, SubSeq(p, a + 1, Len(p)))
  BY <1>3, <1>4, <1>7, EncodedInTwo
<1>11. /\ p = SubSeq(d, 1, b)
       /\ SubSeq(p, 1, a) = SubSeq(d, 1, a)
       /\ SubSeq(p, a + 1, Len(p)) = SubSeq(d, a + 1, b)
  BY ONLY <1>3, <1>4, <1>8, <1>9 DEF p
<1>12. Encoded(v, SubSeq(d, 1, b)) = Encoded(v, SubSeq(d, 1, a)) \o Encoded(v, SubSeq(d, a + 1, b))
  BY ONLY <1>10, <1>11
<1>13. QED
  BY <1>2, <1>12 DEF a, b

(* What the lines encode to, one by one.                                   *)
ByLines(v, d) == [k \in 1 .. Len(LinesOf(d)) |-> Encoded(v, LinesOf(d)[k])]

(* A document without blank lines encodes line by line.                    *)
LEMMA EncodedByLines ==
  ASSUME NEW v, IsVocabulary(v), NEW d \in Seq(Char)
  PROVE  /\ LinesOf(d) \in Seq(Seq(Char)) /\ FlattenSeq(LinesOf(d)) = d
         /\ ByLines(v, d) \in Seq(Seq(Tokens(v)))
         /\ ~ HasBlankLine(d) => FlattenSeq(ByLines(v, d)) = Encoded(v, d)
<1> DEFINE n == Len(d)
           T == Tokens(v)
           lines == LinesOf(d)
           parts == ByLines(v, d)
<1>1. PICK m, x : Cuts(x, m, LineStarts(d), n)
  BY StartsBegin, CutsExist
<1>2. /\ m \in Nat /\ lines = [k \in 1 .. m |-> Piece(d, x, k)]
      /\ lines \in Seq(Seq(Char)) /\ FlattenSeq(lines) = d
  BY <1>1, LinesTile
<1>3. x[0] = 0 /\ x[m] = n
  BY <1>1 DEF Cuts
<1> HIDE DEF lines
<1>4. Len(lines) = m /\ \A k \in 1 .. m : lines[k] = Piece(d, x, k) /\ lines[k] \in Seq(Char)
  BY <1>2
<1>5. \A k \in 1 .. m : Encoded(v, lines[k]) \in Seq(T)
  BY <1>4, EncodedSpells
<1>6. parts = [k \in 1 .. m |-> Encoded(v, lines[k])]
  BY <1>4 DEF ByLines, lines
<1> HIDE DEF parts, T
<1>7. parts \in Seq(Seq(T)) /\ Len(parts) = m /\ \A k \in 1 .. m : parts[k] = Encoded(v, Piece(d, x, k))
  BY <1>2, <1>4, <1>5, <1>6
<1>8. ASSUME ~ HasBlankLine(d) PROVE FlattenSeq(parts) = Encoded(v, d)
  <2> DEFINE f == [k \in 0 .. m |-> Encoded(v, SubSeq(d, 1, x[k]))]
  <2>1. f[0] = <<>>
    <3>1. SubSeq(d, 1, 0) = <<>>
      OBVIOUS
    <3>2. f[0] = Encoded(v, <<>>)
      <4>1. 0 \in 0 .. m
        BY <1>2
      <4>2. f[0] = Encoded(v, SubSeq(d, 1, x[0]))
        BY <4>1
      <4> HIDE DEF f
      <4>3. QED
        BY <1>3, <3>1, <4>2
    <3>3. QED
      BY <3>2, NothingEncoded
  <2>2. ASSUME NEW k \in 1 .. m PROVE f[k] = f[k - 1] \o parts[k]
    <3>1. k - 1 \in 0 .. m /\ k \in 0 .. m
      BY <1>2
    <3>2. Encoded(v, SubSeq(d, 1, x[k])) =
            Encoded(v, SubSeq(d, 1, x[k - 1])) \o Encoded(v, Piece(d, x, k))
      BY <1>1, <1>8, LastLineEncodes
    <3>3. f[k] = Encoded(v, SubSeq(d, 1, x[k])) /\ f[k - 1] = Encoded(v, SubSeq(d, 1, x[k - 1]))
      BY <3>1
    <3>4. parts[k] = Encoded(v, Piece(d, x, k))
      BY <1>7
    <3>5. QED
      BY ONLY <3>2, <3>3, <3>4
  <2>3. f[m] = Encoded(v, SubSeq(d, 1, n))
    BY <1>2, <1>3
  <2> HIDE DEF f
  <2>4. FlattenSeq(parts) = f[Len(parts)]
    BY <1>7, <2>1, <2>2, FlattenIs
  <2>5. SubSeq(d, 1, n) = d
    BY WholePart
  <2>6. QED
    BY ONLY <1>7, <2>3, <2>4, <2>5
<1>9. QED
  BY <1>2, <1>7, <1>8 DEF lines, parts, T

-----------------------------------------------------------------------------
(* What the retained tables hold, whatever was submitted before.           *)
AnyToken == [id : Nat, length : Nat]

(* Chunk programs: each is what its bytes encode to, under one of the      *)
(* given vocabularies.                                                     *)
Filed(table, vocabularies) ==
  /\ \A exact \in DOMAIN table : exact \in Seq(Char)
  /\ table \in [DOMAIN table -> Seq(AnyToken)]
  /\ \A exact \in DOMAIN table : \E v \in vocabularies : table[exact] = Encoded(v, exact)

(* What a caller may rely on for one document.                             *)
Faithful(v, raw, newline, tokens) ==
  /\ DecodeIds(v, tokens) = raw \o (IF newline THEN <<Newline>> ELSE <<>>)
  /\ ~ HasBlankLine(raw) => tokens = Stateless(v, raw, newline)

(* Document programs: each may be relied on as long as one vocabulary was  *)
(* encoded with; the entries of a table used with two are of either.       *)
FiledDocuments(table, vocabularies) ==
  \A key \in DOMAIN table : \A v \in Vocabularies :
    vocabularies \subseteq {v} => Faithful(v, key[1], key[2], table[key])

AnswerFaithful ==
  answer # NoAnswer /\ ~ answer.stale =>
    Faithful(answer.vocabulary, answer.raw, answer.newline, answer.tokens)

(* The inductive invariant.                                                *)
IInv ==
  /\ memory \in [Addresses -> Vocabularies]
  /\ used \subseteq Vocabularies
  /\ Filed(programs, used)
  /\ FiledDocuments(documents, used)
  /\ AnswerFaithful

(* Tokens are of the common type, and so are what a document encodes to.   *)
LEMMA TokensAreTokens ==
  ASSUME NEW v, IsVocabulary(v)
  PROVE  /\ Tokens(v) \subseteq AnyToken
         /\ \A d \in Seq(Char) : Encoded(v, d) \in Seq(AnyToken)
<1>1. EntryBase + Len(v.entries) - 1 \in Nat
  BY EntriesAre DEF EntryBase, ByteBase
<1>2. Tokens(v) \subseteq AnyToken
  BY <1>1 DEF Tokens, AnyToken
<1>3. ASSUME NEW d \in Seq(Char) PROVE Encoded(v, d) \in Seq(AnyToken)
  <2>1. Encoded(v, d) \in Seq(Tokens(v))
    BY EncodedSpells
  <2>2. QED
    BY <1>2, <2>1
<1>4. QED
  BY <1>2, <1>3

(* The markers spell nothing, the restored line break spells itself.       *)
LEMMA FramingSpells ==
  ASSUME NEW v, IsVocabulary(v), NEW tokens \in Seq(Tokens(v)), NEW newline \in BOOLEAN
  PROVE  DecodeIds(v, Framed(tokens, newline)) =
           DecodeIds(v, tokens) \o (IF newline THEN <<Newline>> ELSE <<>>)
<1> DEFINE T == Tokens(v)
           D == Decoder(v)
           end == IF newline THEN <<ByteToken(Newline)>> ELSE <<>>
           last == IF newline THEN <<Newline>> ELSE <<>>
           first == <<Bos>>
           eos == <<Eos>>
<1>1. /\ D \in [Seq(T) -> Seq(Char)] /\ D[<<>>] = <<>>
      /\ \A a, b \in Seq(T) : D[a \o b] = D[a] \o D[b]
      /\ \A a \in Seq(T) : D[a] = DecodeIds(v, a)
  BY DecodesJoins DEF KeepsJoins, Decoder
<1>2. Bos \in T /\ Eos \in T /\ Spelling(v, Bos) = <<>> /\ Spelling(v, Eos) = <<>>
  <2>1. Len(v.entries) \in Nat
    BY EntriesAre
  <2>2. /\ Bos.id = 1 /\ Eos.id = 2 /\ Bos.length = 0 /\ Eos.length = 0
        /\ Bos \in [id : 1 .. EntryBase + Len(v.entries) - 1, length : Nat]
        /\ Eos \in [id : 1 .. EntryBase + Len(v.entries) - 1, length : Nat]
    BY <2>1 DEF Bos, Eos, EntryBase, ByteBase
  <2>3. Spelling(v, Bos) = <<>> /\ Spelling(v, Eos) = <<>>
    BY <2>2 DEF Spelling, ByteBase
  <2>4. Len(<<>>) = 0
    OBVIOUS
  <2>5. QED
    BY <2>2, <2>3, <2>4 DEF Tokens
<1>3. ByteToken(Newline) \in T /\ Spelling(v, ByteToken(Newline)) = <<Newline>>
  BY ByteTokenIs DEF Newline, Char
<1>4. /\ DecodeIds(v, first) = <<>> /\ DecodeIds(v, eos) = <<>>
      /\ DecodeIds(v, <<ByteToken(Newline)>>) = <<Newline>>
  BY <1>2, <1>3, DecodesJoins
<1>5. first \in Seq(T) /\ eos \in Seq(T) /\ end \in Seq(T)
  BY <1>2, <1>3
<1> HIDE DEF D, T
<1>6. D[first] = <<>> /\ D[eos] = <<>> /\ D[end] = last
  BY <1>1, <1>3, <1>4, <1>5 DEF T
<1>7. D[tokens] \in Seq(Char) /\ last \in Seq(Char) /\ tokens \in Seq(T)
  <2>1. tokens \in Seq(T)
    BY DEF T
  <2>2. D[tokens] \in Seq(Char)
    BY <1>1, <2>1
  <2>3. last \in Seq(Char)
    <3>1. Newline \in Char
      BY DEF Newline, Char
    <3>2. <<Newline>> \in Seq(Char) /\ <<>> \in Seq(Char)
      BY <3>1
    <3>3. QED
      BY <3>2
  <2>4. QED
    BY <2>1, <2>2, <2>3
<1>8. Framed(tokens, newline) = ((first \o tokens) \o end) \o eos
  BY DEF Framed
<1> HIDE DEF first, eos, end, last
<1>9. \A a, b \in Seq(T) : a \o b \in Seq(T)
  BY ConcatProperties
<1>10. D[((first \o tokens) \o end) \o eos] = ((D[first] \o D[tokens]) \o D[end]) \o D[eos]
         /\ ((first \o tokens) \o end) \o eos \in Seq(T)
  <2>1. first \o tokens \in Seq(T)
    BY ONLY <1>5, <1>7, <1>9
  <2> DEFINE p == first \o tokens
  <2>2. D[p] = D[first] \o D[tokens]
    BY ONLY <1>1, <1>5, <1>7 DEF p
  <2>3. p \in Seq(T)
    BY ONLY <2>1 DEF p
  <2> HIDE DEF p
  <2> DEFINE q == p \o end
  <2>4. q \in Seq(T)
    BY ONLY <1>5, <1>9, <2>3 DEF q
  <2>5. D[q] = D[p] \o D[end]
    BY ONLY <1>1, <1>5, <2>3 DEF q
  <2> HIDE DEF q
  <2>6. q \o eos \in Seq(T)
    BY ONLY <1>5, <1>9, <2>4
  <2>7. D[q \o eos] = D[q] \o D[eos]
    BY ONLY <1>1, <1>5, <2>4
  <2>8. QED
    BY ONLY <2>2, <2>5, <2>6, <2>7 DEF p, q
<1>11. \A a \in Seq(Char) : <<>> \o a = a /\ a \o <<>> = a
  OBVIOUS
<1>12. D[tokens] \o last \in Seq(Char)
  BY <1>7, ConcatProperties
<1>13. D[((first \o tokens) \o end) \o eos] = D[tokens] \o last
  BY ONLY <1>6, <1>7, <1>10, <1>11, <1>12
<1>14. DecodeIds(v, Framed(tokens, newline)) = DecodeIds(v, tokens) \o last
  BY ONLY <1>1, <1>7, <1>8, <1>10, <1>13
<1>15. QED
  BY <1>14 DEF last

(* What may be relied on, from the unframed tokens.                        *)
LEMMA FramedFaithful ==
  ASSUME NEW v, IsVocabulary(v), NEW d \in Seq(Char), NEW newline \in BOOLEAN,
         NEW tokens \in Seq(Tokens(v)), DecodeIds(v, tokens) = d,
         ~ HasBlankLine(d) => tokens = Encoded(v, d)
  PROVE  Faithful(v, d, newline, Framed(tokens, newline))
<1>1. DecodeIds(v, Framed(tokens, newline)) =
        DecodeIds(v, tokens) \o (IF newline THEN <<Newline>> ELSE <<>>)
  BY FramingSpells
<1>2. ~ HasBlankLine(d) => Framed(tokens, newline) = Stateless(v, d, newline)
  BY DEF Stateless, Encoded
<1>3. QED
  BY <1>1, <1>2 DEF Faithful

(* The replay of a document from its lines: with one vocabulary in the     *)
(* table its tokens spell the document, and without blank lines they are   *)
(* the ones the document encodes to.                                       *)
LEMMA LinesReplayed ==
  ASSUME NEW v, IsVocabulary(v), NEW d \in Seq(Char), NEW table, Filed(table, {v}),
         Replayable(table, d)
  PROVE  LET lines == LinesOf(d)
             tokens == FlattenSeq([k \in DOMAIN lines |-> table[lines[k]]])
         IN  /\ tokens \in Seq(Tokens(v)) /\ DecodeIds(v, tokens) = d
             /\ ~ HasBlankLine(d) => tokens = Encoded(v, d)
<1> DEFINE T == Tokens(v)
           D == Decoder(v)
           lines == LinesOf(d)
           parts == ByLines(v, d)
           m == Len(lines)
<1>1. /\ lines \in Seq(Seq(Char)) /\ FlattenSeq(lines) = d
      /\ parts \in Seq(Seq(T))
      /\ ~ HasBlankLine(d) => FlattenSeq(parts) = Encoded(v, d)
  BY EncodedByLines
<1>2. /\ m \in Nat /\ DOMAIN lines = 1 .. m /\ parts = [k \in 1 .. m |-> Encoded(v, lines[k])]
      /\ \A k \in 1 .. m : lines[k] \in Seq(Char)
  BY <1>1 DEF ByLines
<1>3. ToSet(lines) \subseteq DOMAIN table
  BY DEF Replayable
<1> HIDE DEF lines, parts
<1>4. \A k \in 1 .. m : lines[k] \in DOMAIN table
  BY <1>2, <1>3 DEF ToSet
<1>5. \A k \in 1 .. m : table[lines[k]] = Encoded(v, lines[k])
  BY <1>4 DEF Filed
<1>6. [k \in DOMAIN lines |-> table[lines[k]]] = parts
  BY <1>2, <1>5
<1>7. /\ KeepsJoins(D, T, Char) /\ \A a \in Seq(T) : D[a] = DecodeIds(v, a)
  BY DecodesJoins DEF Decoder
<1> HIDE DEF D, T
<1>8. D[FlattenSeq(parts)] = FlattenSeq([k \in 1 .. Len(parts) |-> D[parts[k]]])
  BY <1>1, <1>7, JoinByParts
<1>9. \A k \in 1 .. m : D[parts[k]] = lines[k]
  <2>1. ASSUME NEW k \in 1 .. m PROVE D[parts[k]] = lines[k]
    <3>1. Encoded(v, lines[k]) \in Seq(T) /\ DecodeIds(v, Encoded(v, lines[k])) = lines[k]
      BY <1>2, EncodedSpells DEF T
    <3>2. QED
      BY <1>2, <1>7, <3>1
  <2>2. QED
    BY <2>1
<1>10. [k \in 1 .. Len(parts) |-> D[parts[k]]] = lines
  <2>1. Len(parts) = m
    BY <1>2
  <2>2. lines = [k \in 1 .. m |-> lines[k]]
    BY <1>1, <1>2
  <2>3. QED
    BY <1>9, <2>1, <2>2
<1>11. FlattenSeq(parts) \in Seq(T)
  BY <1>1, FlattenHolds
<1>12. DecodeIds(v, FlattenSeq(parts)) = d
  BY <1>1, <1>7, <1>8, <1>10, <1>11
<1>13. QED
  BY <1>1, <1>6, <1>11, <1>12 DEF lines, T

(* One chunk more: the table and the tokens it leaves.                     *)
AfterChunk(v, d, before, c) ==
  LET known == Exact(d, c) \in DOMAIN before.table
      tokens == IF known THEN before.table[Exact(d, c)]
                ELSE EncodeSegments(v, d, Segments(d, Chunks(d)[c]))
  IN  [table  |-> IF known \/ Cardinality(DOMAIN before.table) >= MaxPrograms
                  THEN before.table ELSE Put(before.table, Exact(d, c), tokens),
       tokens |-> before.tokens \o tokens]

(* What is left after some chunks.                                         *)
Streams(vocabularies) ==
  {s \in [table : UNION {[E -> Seq(AnyToken)] : E \in SUBSET Seq(Char)}, tokens : Seq(AnyToken)] :
     Filed(s.table, vocabularies)}

(* A program that is filed is filed rightly, and replaces none.            *)
LEMMA PutFiled ==
  ASSUME NEW vs, NEW v \in vs, IsVocabulary(v), NEW table, Filed(table, vs), NEW exact \in Seq(Char)
  PROVE  Filed(Put(table, exact, Encoded(v, exact)), vs)
<1> DEFINE t == Put(table, exact, Encoded(v, exact))
           E == Encoded(v, exact)
<1>1. /\ DOMAIN t = DOMAIN table \union {exact}
      /\ \A e \in DOMAIN t : t[e] = IF e = exact THEN E ELSE table[e]
      /\ t = [e \in DOMAIN t |-> t[e]]
  BY DEF Put
<1>2. E \in Seq(AnyToken)
  BY TokensAreTokens
<1>3. /\ \A e \in DOMAIN table : e \in Seq(Char)
      /\ \A e \in DOMAIN table : table[e] \in Seq(AnyToken)
      /\ \A e \in DOMAIN table : \E w \in vs : table[e] = Encoded(w, e)
  BY DEF Filed
<1> HIDE DEF t
<1>4. \A e \in DOMAIN t : e \in Seq(Char)
  BY <1>1, <1>3
<1>5. t \in [DOMAIN t -> Seq(AnyToken)]
  <2>1. \A e \in DOMAIN t : t[e] \in Seq(AnyToken)
    BY <1>1, <1>2, <1>3
  <2>2. QED
    BY <1>1, <2>1
<1>6. ASSUME NEW e \in DOMAIN t PROVE \E w \in vs : t[e] = Encoded(w, e)
  <2>1. CASE e = exact
    BY <1>1, <2>1
  <2>2. CASE e # exact
    BY <1>1, <1>3, <2>2
  <2>3. QED
    BY <2>1, <2>2
<1>7. QED
  BY <1>4, <1>5, <1>6 DEF Filed, t

(* One chunk more keeps the table right.                                   *)
LEMMA ChunkFiled ==
  ASSUME NEW vs, NEW v \in vs, IsVocabulary(v), NEW d \in Seq(Char), NEW before \in Streams(vs),
         NEW c \in 1 .. Len(Chunks(d))
  PROVE  /\ AfterChunk(v, d, before, c) \in Streams(vs)
         /\ vs = {v} => AfterChunk(v, d, before, c).tokens = before.tokens \o Encoded(v, Exact(d, c))
<1> DEFINE exact == Exact(d, c)
           known == exact \in DOMAIN before.table
           fresh == EncodeSegments(v, d, Segments(d, Chunks(d)[c]))
           tokens == IF known THEN before.table[exact] ELSE fresh
           table == IF known \/ Cardinality(DOMAIN before.table) >= MaxPrograms
                    THEN before.table ELSE Put(before.table, exact, tokens)
           after == AfterChunk(v, d, before, c)
<1>1. Filed(before.table, vs) /\ before.tokens \in Seq(AnyToken)
  BY DEF Streams
<1>2. after.table = table /\ after.tokens = before.tokens \o tokens
      /\ after = [table |-> after.table, tokens |-> after.tokens]
  BY DEF AfterChunk
<1>3. exact \in Seq(Char) /\ fresh = Encoded(v, exact)
  BY ChunkEncodes
<1> HIDE DEF exact, fresh, after
<1>4. tokens \in Seq(AnyToken)
  BY <1>1, <1>3, TokensAreTokens DEF Filed
<1>5. Filed(table, vs)
  <2>1. CASE known \/ Cardinality(DOMAIN before.table) >= MaxPrograms
    BY <1>1, <2>1
  <2>2. CASE ~ (known \/ Cardinality(DOMAIN before.table) >= MaxPrograms)
    <3>1. Filed(Put(before.table, exact, Encoded(v, exact)), vs)
      BY <1>1, <1>3, PutFiled
    <3>2. table = Put(before.table, exact, Encoded(v, exact))
      BY <1>3, <2>2
    <3>3. QED
      BY ONLY <3>1, <3>2
  <2>3. QED
    BY <2>1, <2>2
<1>6. ASSUME vs = {v} PROVE tokens = Encoded(v, exact)
  BY <1>1, <1>3, <1>6 DEF Filed
<1> HIDE DEF tokens, table
<1>7. after.table \in UNION {[E -> Seq(AnyToken)] : E \in SUBSET Seq(Char)}
  BY <1>2, <1>5 DEF Filed
<1>8. after.tokens \in Seq(AnyToken)
  BY <1>1, <1>2, <1>4, ConcatProperties
<1>9. after \in Streams(vs)
  BY <1>2, <1>5, <1>7, <1>8 DEF Streams
<1>10. QED
  BY <1>2, <1>6, <1>9 DEF after, exact

(* The chunks of a document, one after the other: the table stays right,   *)
(* and with one vocabulary the tokens are the document's.                  *)
LEMMA ChunksStreamed ==
  ASSUME NEW vs, NEW v \in vs, IsVocabulary(v), NEW d \in Seq(Char), NEW table, Filed(table, vs)
  PROVE  /\ Filed(StreamChunks(v, table, d).table, vs)
         /\ vs = {v} => StreamChunks(v, table, d).tokens = Encoded(v, d)
<1> DEFINE n == Len(Chunks(d))
           first == [table |-> table, tokens |-> <<>>]
           T == Streams(vs)
           Step == [z \in T \X (1 .. n) |-> AfterChunk(v, d, z[1], z[2])]
           Law(f) == f = [c \in 0 .. n |-> IF c = 0 THEN first ELSE AfterChunk(v, d, f[c - 1], c)]
           f == CHOOSE f : Law(f)
<1>0. n \in Nat
  BY EncodedByChunks
<1>1. first \in T
  <2>1. table \in UNION {[E -> Seq(AnyToken)] : E \in SUBSET Seq(Char)}
    BY DEF Filed
  <2>2. QED
    BY <2>1 DEF Streams
<1>2. \A s \in T : \A c \in 1 .. n : AfterChunk(v, d, s, c) \in T
  BY ChunkFiled
<1>3. Step \in [T \X (1 .. n) -> T]
  <2> HIDE DEF T
  <2> QED BY <1>2
<1>4. \A s \in T : vs = {v} => \A c \in 1 .. n :
        AfterChunk(v, d, s, c).tokens = s.tokens \o Encoded(v, Exact(d, c))
  <2> SUFFICES ASSUME NEW s \in T, vs = {v}, NEW c \in 1 .. n
               PROVE  AfterChunk(v, d, s, c).tokens = s.tokens \o Encoded(v, Exact(d, c))
    OBVIOUS
  <2>1. vs = {v} => AfterChunk(v, d, s, c).tokens = s.tokens \o Encoded(v, Exact(d, c))
    BY ChunkFiled
  <2>2. QED
    BY <2>1
<1>5. StreamChunks(v, table, d) = f[n]
  BY DEF StreamChunks, AfterChunk, Exact
<1> HIDE DEF T, n
<1>6. PICK h : IsRecursion(h, n, T, first, Step)
  <2> HIDE DEF Step, first
  <2> QED BY <1>0, <1>1, <1>3, RecursionExists
<1>7. h \in [0 .. n -> T] /\ h[0] = first /\ \A k \in 1 .. n : h[k] = Step[<<h[k - 1], k>>]
  BY <1>6 DEF IsRecursion
<1>8. \A k \in 1 .. n : h[k] = AfterChunk(v, d, h[k - 1], k)
  <2>1. \A k \in 1 .. n : k - 1 \in 0 .. n
    BY <1>0
  <2>2. \A k \in 1 .. n : h[k - 1] \in T
    BY <1>7, <2>1
  <2>3. \A s \in T : \A k \in 1 .. n : Step[<<s, k>>] = AfterChunk(v, d, s, k)
    OBVIOUS
  <2> HIDE DEF Step
  <2>4. QED
    BY <1>7, <2>2, <2>3
<1>9. Law(h)
  <2>1. \A i \in 0 .. n : i = 0 \/ (i # 0 /\ i \in 1 .. n)
    BY <1>0
  <2>2. \A i \in 0 .. n : h[i] = IF i = 0 THEN first ELSE AfterChunk(v, d, h[i - 1], i)
    <3> HIDE DEF first, Step
    <3> QED BY <1>7, <1>8, <2>1
  <2>3. h = [i \in 0 .. n |-> h[i]]
    BY <1>7
  <2> HIDE DEF first
  <2>4. QED
    BY <2>2, <2>3
<1>10. Law(f)
  <2> HIDE DEF Law
  <2> QED BY <1>9
<1> HIDE DEF f
<1>11. \A i \in 0 .. n : f[i] = IF i = 0 THEN first ELSE AfterChunk(v, d, f[i - 1], i)
  <2> HIDE DEF first
  <2> QED BY <1>10
<1> HIDE DEF Law, Step
<1>12. first.tokens = <<>>
  OBVIOUS
<1> HIDE DEF first
<1>13. f[0] = first /\ \A k \in 1 .. n : f[k] = AfterChunk(v, d, f[k - 1], k)
  <2>1. 0 \in 0 .. n /\ \A k \in 1 .. n : k \in 0 .. n /\ k # 0
    BY <1>0
  <2>2. QED
    BY <1>11, <2>1
<1> DEFINE S == {i \in Nat : i <= n => f[i] \in T}
<1>14. 0 \in S
  BY <1>1, <1>13
<1>15. ASSUME NEW i \in Nat, i \in S PROVE i + 1 \in S
  <2>1. i + 1 <= n => i + 1 \in 1 .. n /\ (i + 1) - 1 = i /\ i <= n
    BY <1>0
  <2>2. i + 1 <= n => f[i + 1] = AfterChunk(v, d, f[i], i + 1) /\ f[i] \in T
    BY <1>13, <1>15, <2>1
  <2>3. QED
    BY <1>2, <2>1, <2>2
<1>16. \A i \in 0 .. n : f[i] \in T
  <2>1. Nat \subseteq S
    <3> HIDE DEF S
    <3> QED BY <1>14, <1>15, NatSetInduction
  <2>2. QED
    BY <1>0, <2>1
<1>17. Filed(f[n].table, vs)
  <2>1. f[n] \in T
    BY <1>0, <1>16
  <2>2. QED
    BY <2>1 DEF T, Streams
<1>18. ASSUME vs = {v} PROVE f[n].tokens = Encoded(v, d)
  <2> DEFINE parts == ByPieces(v, d)
             g == [i \in 0 .. n |-> f[i].tokens]
  <2>1. parts \in Seq(Seq(Tokens(v))) /\ FlattenSeq(parts) = Encoded(v, d)
    BY EncodedByChunks
  <2>2. Len(parts) = n /\ \A c \in 1 .. n : parts[c] = Encoded(v, Exact(d, c))
    BY <1>0 DEF ByPieces, n
  <2> HIDE DEF parts
  <2>3. g[0] = <<>>
    BY <1>0, <1>12, <1>13
  <2>4. ASSUME NEW k \in 1 .. n PROVE g[k] = g[k - 1] \o parts[k]
    <3>1. k - 1 \in 0 .. n /\ k \in 0 .. n
      BY <1>0
    <3>2. f[k - 1] \in T /\ f[k] = AfterChunk(v, d, f[k - 1], k)
      BY <1>13, <1>16, <3>1
    <3>3. f[k].tokens = f[k - 1].tokens \o Encoded(v, Exact(d, k))
      BY <1>4, <1>18, <3>2
    <3>4. g[k] = f[k].tokens /\ g[k - 1] = f[k - 1].tokens
      BY <3>1
    <3>5. QED
      BY ONLY <2>2, <3>3, <3>4
  <2>5. g[n] = f[n].tokens
    BY <1>0
  <2> HIDE DEF g
  <2>6. FlattenSeq(parts) = g[Len(parts)]
    BY <2>1, <2>2, <2>3, <2>4, FlattenIs
  <2>7. QED
    BY <2>1, <2>2, <2>5, <2>6
<1>19. QED
  BY <1>5, <1>17, <1>18

-----------------------------------------------------------------------------
(* The vocabularies encoded with once a call at an address is prepared.    *)
NowUsed(address) == {memory[address]} \union (IF context = address THEN used ELSE {})

(* What is kept for a call is right for the vocabularies used from now on. *)
LEMMA KeptFiled ==
  ASSUME IInv, NEW address \in Addresses
  PROVE  /\ memory[address] \in Vocabularies /\ IsVocabulary(memory[address])
         /\ memory[address] \in NowUsed(address) /\ NowUsed(address) \subseteq Vocabularies
         /\ Filed(Kept(programs, address), NowUsed(address))
         /\ FiledDocuments(Kept(documents, address), NowUsed(address))
<1> DEFINE now == NowUsed(address)
<1>1. memory[address] \in Vocabularies /\ used \subseteq Vocabularies
  BY DEF IInv
<1>2. IsVocabulary(memory[address])
  BY <1>1, VocabularyConstants
<1>3. memory[address] \in now /\ now \subseteq Vocabularies
  BY <1>1 DEF NowUsed
<1>4. CASE context = address
  <2>1. Kept(programs, address) = programs /\ Kept(documents, address) = documents
    BY <1>4 DEF Kept
  <2>2. used \subseteq now
    BY <1>4 DEF NowUsed
  <2> HIDE DEF now
  <2>3. Filed(programs, used) /\ FiledDocuments(documents, used)
    BY DEF IInv
  <2>4. Filed(programs, now)
    BY <2>2, <2>3 DEF Filed
  <2>5. \A v : now \subseteq {v} => used \subseteq {v}
    BY <2>2
  <2>6. FiledDocuments(documents, now)
    BY <2>3, <2>5 DEF FiledDocuments
  <2>7. Filed(Kept(programs, address), now) /\ FiledDocuments(Kept(documents, address), now)
    BY ONLY <2>1, <2>4, <2>6
  <2>8. QED
    BY <1>1, <1>2, <1>3, <2>7 DEF now
<1>5. CASE context # address
  <2>1. Kept(programs, address) = Empty /\ Kept(documents, address) = Empty
    BY <1>5 DEF Kept
  <2>2. DOMAIN Empty = {} /\ Empty = [e \in DOMAIN Empty |-> Empty[e]]
    BY DEF Empty
  <2>3. Filed(Empty, now) /\ FiledDocuments(Empty, now)
    <3> HIDE DEF now
    <3> QED BY <2>2 DEF Filed, FiledDocuments
  <2>4. QED
    BY <1>1, <1>2, <1>3, <2>1, <2>3
<1>6. QED
  BY <1>4, <1>5

(* An answer that may be relied on under the vocabulary of the call, as    *)
(* long as no other was used.                                              *)
LEMMA ReplyFaithful ==
  ASSUME IInv, NEW address \in Addresses, NEW raw, NEW newline, NEW tokens,
         Prepare(address), Reply(address, raw, newline, tokens),
         NowUsed(address) = {memory[address]} => Faithful(memory[address], raw, newline, tokens)
  PROVE  used' = NowUsed(address) /\ AnswerFaithful'
<1>1. used' = NowUsed(address)
  BY DEF Prepare, NowUsed
<1> DEFINE a == [raw |-> raw, newline |-> newline, vocabulary |-> memory[address],
                 stale |-> used' # {memory[address]}, tokens |-> tokens]
<1>2. answer' = a
  BY DEF Reply
<1>3. /\ a.raw = raw /\ a.newline = newline /\ a.vocabulary = memory[address]
      /\ a.tokens = tokens /\ a.stale = (used' # {memory[address]})
  OBVIOUS
<1> HIDE DEF a
<1>4. ASSUME ~ answer'.stale
      PROVE  Faithful(answer'.vocabulary, answer'.raw, answer'.newline, answer'.tokens)
  <2>1. NowUsed(address) = {memory[address]}
    BY <1>1, <1>2, <1>3, <1>4
  <2>2. Faithful(memory[address], raw, newline, tokens)
    BY <2>1
  <2>3. QED
    BY ONLY <1>2, <1>3, <2>2
<1>5. AnswerFaithful'
  BY <1>4 DEF AnswerFaithful, Faithful, NoAnswer
<1>6. QED
  BY <1>1, <1>5

(* A document is filed under its bytes and its restored line break, while  *)
(* there is room.                                                          *)
LEMMA DocumentFiled ==
  ASSUME NEW table, NEW vs, FiledDocuments(table, vs), NEW raw, NEW newline, NEW tokens,
         \A v \in Vocabularies : vs \subseteq {v} => Faithful(v, raw, newline, tokens)
  PROVE  FiledDocuments(InsertDocument(table, raw, newline, tokens), vs)
<1> DEFINE key == <<raw, newline>>
           t == Put(table, key, tokens)
<1>1. DOMAIN t = DOMAIN table \union {key} /\ \A k \in DOMAIN t : t[k] = IF k = key THEN tokens ELSE table[k]
  BY DEF Put
<1>2. key[1] = raw /\ key[2] = newline
  OBVIOUS
<1> HIDE DEF t, key
<1>3. FiledDocuments(t, vs)
  <2> SUFFICES ASSUME NEW k \in DOMAIN t, NEW v \in Vocabularies, vs \subseteq {v}
               PROVE  Faithful(v, k[1], k[2], t[k])
    BY DEF FiledDocuments
  <2>1. CASE k = key
    <3>1. Faithful(v, raw, newline, tokens) /\ t[k] = tokens /\ k[1] = raw /\ k[2] = newline
      BY <1>1, <1>2, <2>1
    <3>2. QED
      BY ONLY <3>1
  <2>2. CASE k # key
    <3>1. k \in DOMAIN table /\ t[k] = table[k]
      BY <1>1, <2>2
    <3>2. Faithful(v, k[1], k[2], table[k])
      BY <3>1 DEF FiledDocuments
    <3>3. QED
      BY ONLY <3>1, <3>2
  <2>3. QED
    BY <2>1, <2>2
<1>4. InsertDocument(table, raw, newline, tokens) = table \/ InsertDocument(table, raw, newline, tokens) = t
  BY DEF InsertDocument, t, key
<1>5. QED
  BY <1>3, <1>4

(* Encoding a document keeps the invariant, given what its table and its   *)
(* tokens are.                                                             *)
LEMMA EncodeKeeps ==
  ASSUME IInv, NEW address \in Addresses, NEW raw \in Documents, NEW newline \in BOOLEAN,
         NEW table, NEW tokens, Encode(address, raw, newline, table, tokens),
         Filed(table, NowUsed(address)),
         NowUsed(address) = {memory[address]} =>
           Faithful(memory[address], raw, newline, Framed(tokens, newline))
  PROVE  IInv'
<1> DEFINE now == NowUsed(address)
           framed == Framed(tokens, newline)
           kept == Kept(documents, address)
<1>1. /\ memory[address] \in now /\ now \subseteq Vocabularies
      /\ FiledDocuments(kept, now)
  BY KeptFiled
<1>2. /\ Prepare(address) /\ Reply(address, raw, newline, framed)
      /\ programs' = table /\ documents' = InsertDocument(kept, raw, newline, framed)
      /\ memory' = memory
  BY DEF Encode
<1>3. used' = now /\ AnswerFaithful'
  <2> HIDE DEF framed
  <2>1. NowUsed(address) = {memory[address]} => Faithful(memory[address], raw, newline, framed)
    BY DEF framed
  <2>2. QED
    BY <1>2, <2>1, ReplyFaithful
<1>4. \A v \in Vocabularies : now \subseteq {v} => Faithful(v, raw, newline, framed)
  <2>1. \A v \in Vocabularies : now \subseteq {v} => now = {v} /\ v = memory[address]
    BY <1>1
  <2>2. QED
    BY <2>1
<1> HIDE DEF framed, kept, now
<1>5. FiledDocuments(InsertDocument(kept, raw, newline, framed), now)
  BY <1>1, <1>4, DocumentFiled
<1>6. FiledDocuments(documents, used)'
  BY <1>2, <1>3, <1>5 DEF FiledDocuments, Faithful
<1>7. Filed(programs, used)'
  <2>1. Filed(table, now)
    BY DEF now
  <2>2. Filed(programs', used')
    BY ONLY <1>2, <1>3, <2>1
  <2>3. QED
    BY <2>2 DEF Filed
<1>8. memory' \in [Addresses -> Vocabularies] /\ used' \subseteq Vocabularies
  BY <1>1, <1>2, <1>3 DEF IInv
<1>9. QED
  BY <1>3, <1>6, <1>7, <1>8 DEF IInv

(* One proof per action.                                                   *)
LEMMA ReplayDocumentKeeps ==
  ASSUME IInv, NEW address \in Addresses, NEW raw \in Documents, NEW newline \in BOOLEAN,
         ReplayDocument(address, raw, newline)
  PROVE  IInv'
<1> DEFINE now == NowUsed(address)
           key == <<raw, newline>>
           tokens == documents[key]
<1>1. /\ key \in DOMAIN Kept(documents, address)
      /\ Prepare(address) /\ Reply(address, raw, newline, tokens)
      /\ memory' = memory /\ programs' = programs /\ documents' = documents
  BY DEF ReplayDocument
<1>2. context = address
  <2>1. DOMAIN Empty = {}
    BY DEF Empty
  <2>2. QED
    BY <1>1, <2>1 DEF Kept
<1>3. Kept(documents, address) = documents /\ Kept(programs, address) = programs
  BY <1>2 DEF Kept
<1>4. /\ memory[address] \in Vocabularies
      /\ memory[address] \in now /\ now \subseteq Vocabularies
      /\ Filed(programs, now) /\ FiledDocuments(documents, now)
  BY <1>3, KeptFiled
<1>5. key[1] = raw /\ key[2] = newline
  OBVIOUS
<1> HIDE DEF key, now
<1>6. ASSUME now = {memory[address]} PROVE Faithful(memory[address], raw, newline, tokens)
  <2>1. Faithful(memory[address], key[1], key[2], documents[key])
    BY <1>1, <1>3, <1>4, <1>6 DEF FiledDocuments
  <2>2. QED
    BY ONLY <1>5, <2>1
<1> HIDE DEF tokens
<1>7. used' = now /\ AnswerFaithful'
  <2>1. NowUsed(address) = {memory[address]} => Faithful(memory[address], raw, newline, tokens)
    BY <1>6 DEF now
  <2>2. used' = NowUsed(address) /\ AnswerFaithful'
    BY <1>1, <2>1, ReplyFaithful
  <2>3. QED
    BY <2>2 DEF now
<1>8. FiledDocuments(documents, used)'
  BY <1>1, <1>4, <1>7 DEF FiledDocuments, Faithful
<1>9. Filed(programs, used)'
  BY <1>1, <1>4, <1>7 DEF Filed
<1>10. memory' \in [Addresses -> Vocabularies] /\ used' \subseteq Vocabularies
  BY <1>1, <1>4, <1>7 DEF IInv
<1>11. QED
  BY <1>7, <1>8, <1>9, <1>10 DEF IInv

(* A replay line by line keeps the invariant.                              *)
LEMMA ReplayLinesKeeps ==
  ASSUME IInv, NEW address \in Addresses, NEW raw \in Documents, NEW newline \in BOOLEAN,
         ReplayLines(address, raw, newline)
  PROVE  IInv'
<1> DEFINE now == NowUsed(address)
           v == memory[address]
           table == Kept(programs, address)
           lines == LinesOf(raw)
           tokens == FlattenSeq([k \in DOMAIN lines |-> table[lines[k]]])
<1>1. Replayable(table, raw) /\ Encode(address, raw, newline, table, tokens)
  BY DEF ReplayLines
<1>2. v \in Vocabularies /\ IsVocabulary(v) /\ Filed(table, now)
  BY KeptFiled
<1>3. raw \in Seq(Char)
  BY CacheConstants
<1>4. ASSUME now = {v} PROVE Faithful(v, raw, newline, Framed(tokens, newline))
  <2> HIDE DEF now, v, table
  <2>1. Filed(table, {v})
    BY <1>2, <1>4
  <2>2. /\ tokens \in Seq(Tokens(v)) /\ DecodeIds(v, tokens) = raw
        /\ ~ HasBlankLine(raw) => tokens = Encoded(v, raw)
    BY <1>1, <1>2, <1>3, <2>1, LinesReplayed
  <2> HIDE DEF tokens
  <2>3. QED
    BY <1>2, <1>3, <2>2, FramedFaithful
<1> HIDE DEF table, tokens
<1>5. NowUsed(address) = {memory[address]} =>
        Faithful(memory[address], raw, newline, Framed(tokens, newline))
  BY <1>4
<1>6. QED
  BY <1>1, <1>2, <1>5, EncodeKeeps

(* So does an encoding chunk by chunk.                                     *)
LEMMA EncodeChunksKeeps ==
  ASSUME IInv, NEW address \in Addresses, NEW raw \in Documents, NEW newline \in BOOLEAN,
         EncodeChunks(address, raw, newline)
  PROVE  IInv'
<1> DEFINE now == NowUsed(address)
           v == memory[address]
           kept == Kept(programs, address)
           table == StreamChunks(v, kept, raw).table
           tokens == StreamChunks(v, kept, raw).tokens
<1>1. Encode(address, raw, newline, table, tokens)
  BY DEF EncodeChunks
<1>2. v \in now /\ IsVocabulary(v) /\ Filed(kept, now)
  BY KeptFiled
<1>3. raw \in Seq(Char)
  BY CacheConstants
<1> HIDE DEF kept
<1>4. Filed(table, now) /\ (now = {v} => tokens = Encoded(v, raw))
  <2> HIDE DEF now, v
  <2> QED BY <1>2, <1>3, ChunksStreamed
<1>5. ASSUME now = {v} PROVE Faithful(v, raw, newline, Framed(tokens, newline))
  <2> HIDE DEF now, v, tokens
  <2>1. tokens = Encoded(v, raw)
    BY <1>4, <1>5
  <2>2. Encoded(v, raw) \in Seq(Tokens(v)) /\ DecodeIds(v, Encoded(v, raw)) = raw
    BY <1>2, <1>3, EncodedSpells
  <2>3. QED
    BY <1>2, <1>3, <2>1, <2>2, FramedFaithful
<1> HIDE DEF table, tokens
<1>6. NowUsed(address) = {memory[address]} =>
        Faithful(memory[address], raw, newline, Framed(tokens, newline))
  BY <1>5
<1>7. QED
  BY <1>1, <1>4, <1>6, EncodeKeeps

(* Empty tables hold nothing false.                                        *)
LEMMA EmptyFiled ==
  ASSUME NEW vs
  PROVE  Filed(Empty, vs) /\ FiledDocuments(Empty, vs)
<1>1. DOMAIN Empty = {} /\ Empty = [e \in DOMAIN Empty |-> Empty[e]]
  BY DEF Empty
<1>2. QED
  BY <1>1 DEF Filed, FiledDocuments

(* The invariant holds at first.                                           *)
LEMMA InitFiled == Init => IInv
<1> SUFFICES ASSUME Init PROVE IInv
  OBVIOUS
<1>1. Filed(programs, used) /\ FiledDocuments(documents, used)
  BY EmptyFiled DEF Init
<1>2. AnswerFaithful
  BY DEF Init, AnswerFaithful
<1>3. QED
  BY <1>1, <1>2 DEF Init, IInv

(* Every step keeps it.                                                    *)
LEMMA NextKeeps == IInv /\ [Next]_vars => IInv'
<1> SUFFICES ASSUME IInv, [Next]_vars PROVE IInv'
  OBVIOUS
<1>1. CASE \E address \in Addresses, raw \in Documents, newline \in BOOLEAN :
             \/ ReplayDocument(address, raw, newline)
             \/ ReplayLines(address, raw, newline)
             \/ EncodeChunks(address, raw, newline)
  BY <1>1, ReplayDocumentKeeps, ReplayLinesKeeps, EncodeChunksKeeps
<1>2. CASE Clear
  <2>1. /\ memory' = memory /\ used' = {} /\ programs' = Empty /\ documents' = Empty
        /\ answer' = NoAnswer
    BY <1>2 DEF Clear
  <2>2. Filed(Empty, {}) /\ FiledDocuments(Empty, {})
    BY EmptyFiled
  <2>3. Filed(programs', used') /\ FiledDocuments(documents', used')
    BY ONLY <2>1, <2>2
  <2>4. Filed(programs, used)' /\ FiledDocuments(documents, used)'
    BY <2>3 DEF Filed, FiledDocuments, Faithful
  <2>5. AnswerFaithful'
    BY <2>1 DEF AnswerFaithful, NoAnswer
  <2>6. QED
    BY <2>1, <2>4, <2>5 DEF IInv
<1>3. CASE \E address \in Addresses, vocabulary \in Vocabularies :
             ReplaceVocabulary(address, vocabulary)
  <2>1. PICK address \in Addresses, vocabulary \in Vocabularies :
               ReplaceVocabulary(address, vocabulary)
    BY <1>3
  <2>2. /\ memory' = [memory EXCEPT ![address] = vocabulary]
        /\ used' = used /\ programs' = programs /\ documents' = documents /\ answer' = answer
    BY <2>1 DEF ReplaceVocabulary
  <2>3. memory' \in [Addresses -> Vocabularies]
    BY <2>2 DEF IInv
  <2>4. QED
    BY <2>2, <2>3 DEF IInv, Filed, FiledDocuments, AnswerFaithful, Faithful, NoAnswer
<1>4. CASE UNCHANGED vars
  BY <1>4 DEF vars, IInv, Filed, FiledDocuments, AnswerFaithful, Faithful, NoAnswer
<1>5. QED
  BY <1>1, <1>2, <1>3, <1>4 DEF Next

(* The inductive invariant of the retained cache.                          *)
LEMMA SpecIInv == Spec => []IInv
BY InitFiled, NextKeeps, PTL DEF Spec

(* For every set of documents and vocabularies and all limits: a retained  *)
(* program is what its bytes encode to as a document of their own.         *)
THEOREM CachedProgramsAreContextFree == Spec => []ProgramsAreContextFree
<1>1. IInv => ProgramsAreContextFree
  BY DEF IInv, Filed, ProgramsAreContextFree, Encoded
<1>2. QED
  BY <1>1, SpecIInv, PTL

(* For every set of documents and vocabularies and all limits: a document  *)
(* without blank lines is answered as a stateless encoder answers it.      *)
THEOREM ReplayAnswersExactly == Spec => []ReplayIsExact
<1>1. IInv => ReplayIsExact
  BY DEF IInv, AnswerFaithful, Faithful, ReplayIsExact
<1>2. QED
  BY <1>1, SpecIInv, PTL

(* For every set of documents and vocabularies and all limits: every       *)
(* answer decodes to its document, blank lines included.                   *)
THEOREM ReplayLosesNothing == Spec => []ReplayIsLossless
<1>1. IInv => ReplayIsLossless
  BY DEF IInv, AnswerFaithful, Faithful, ReplayIsLossless
<1>2. QED
  BY <1>1, SpecIInv, PTL

-----------------------------------------------------------------------------
(* Spans in reading order from one position to another.                    *)
Run(spans, a, b, n) ==
  /\ spans \in Seq(Wide(n)) /\ InOrder(spans)
  /\ Len(spans) # 0 => spans[1].start = a /\ spans[Len(spans)].end = b
  /\ Len(spans) = 0 => a = b

(* The slices of a unit run from its start to its end.                     *)
LEMMA SlicesRun ==
  ASSUME NEW n \in Nat, NEW unit \in Wide(n)
  PROVE  /\ Run(ChunkSpan(unit), unit.start, unit.end, n)
         /\ \A k \in 1 .. Len(ChunkSpan(unit)) : ~ RequiresSplit(ChunkSpan(unit)[k])
         /\ ~ RequiresSplit(unit) => ChunkSpan(unit) = <<unit>>
<1>1. /\ unit \in Spans(n) /\ unit = [start |-> unit.start, end |-> unit.end]
      /\ unit.start \in 0 .. n /\ unit.end \in 0 .. n /\ unit.start < unit.end
      /\ Size(unit) \in Nat /\ Size(unit) # 0
  BY DEF Wide, Spans, Size
<1>2. PICK q \in Nat : SlicesAt(unit, n, q)
  BY <1>1, SlicesExist
<1> DEFINE x == SliceEnds(unit, q)
           s == ChunkSpan(unit)
<1>3. /\ s = [k \in 1 .. q |-> [start |-> x[k - 1], end |-> x[k]]]
      /\ x \in [0 .. q -> 0 .. n]
      /\ x[0] = unit.start /\ x[q] = unit.end
      /\ \A k \in 1 .. q : x[k - 1] < x[k] /\ x[k] <= x[k - 1] + MaxChars
      /\ q # 0
      /\ Size(unit) <= MaxChars => q = 1
  BY <1>1, <1>2 DEF SlicesAt
<1> HIDE DEF x, s
<1>4. \A k \in 1 .. q : k - 1 \in 0 .. q /\ k \in 0 .. q
  OBVIOUS
<1>5. \A k \in 1 .. q : [start |-> x[k - 1], end |-> x[k]] \in Wide(n)
  <2>1. \A k \in 1 .. q : x[k - 1] \in 0 .. n /\ x[k] \in 0 .. n /\ x[k - 1] < x[k]
    BY <1>3, <1>4
  <2>2. \A i, j \in 0 .. n : i < j => [start |-> i, end |-> j] \in Wide(n)
    BY DEF Wide, Spans
  <2>3. QED
    BY <2>1, <2>2
<1>6. s \in Seq(Wide(n)) /\ Len(s) = q
  BY <1>3, <1>5
<1>7. \A k \in 1 .. q : s[k].start = x[k - 1] /\ s[k].end = x[k]
  BY <1>3
<1>8. InOrder(s)
  <2>1. \A k \in 1 .. q - 1 : k \in 1 .. q /\ k + 1 \in 1 .. q /\ (k + 1) - 1 = k
    OBVIOUS
  <2>2. QED
    BY <1>6, <1>7, <2>1 DEF InOrder
<1>9. Run(s, unit.start, unit.end, n)
  <2>1. 1 \in 1 .. q /\ q \in 1 .. q /\ 1 - 1 = 0
    BY <1>3
  <2>2. QED
    BY <1>3, <1>6, <1>7, <1>8, <2>1 DEF Run
<1>10. \A k \in 1 .. q : ~ RequiresSplit(s[k])
  <2>1. MaxChars \in Nat
    BY SegmentConstants
  <2>2. \A k \in 1 .. q : x[k - 1] \in Nat /\ x[k] \in Nat /\ x[k] <= x[k - 1] + MaxChars
    BY <1>3, <1>4
  <2>3. \A k \in 1 .. q : ~ (x[k] - x[k - 1] > MaxChars)
    BY <2>1, <2>2
  <2>4. QED
    BY <1>7, <2>3 DEF RequiresSplit, Size
<1>11. ASSUME ~ RequiresSplit(unit) PROVE s = <<unit>>
  <2>1. Size(unit) <= MaxChars
    BY <1>1, <1>11, SegmentConstants DEF RequiresSplit
  <2>2. q = 1
    BY <1>3, <2>1
  <2>3. s = [k \in 1 .. 1 |-> unit]
    <3>1. \A k \in 1 .. 1 : k - 1 = 0 /\ k = 1
      OBVIOUS
    <3>2. \A k \in 1 .. 1 : [start |-> x[k - 1], end |-> x[k]] = unit
      BY <1>1, <1>3, <2>2, <3>1
    <3>3. QED
      BY <1>3, <2>2, <3>2
  <2>4. QED
    BY <2>3
<1>12. QED
  BY <1>6, <1>9, <1>10, <1>11 DEF s

(* Two runs, one after the other, are a run.                               *)
LEMMA RunsJoin ==
  ASSUME NEW n \in Nat, NEW s, NEW t, NEW a, NEW b, NEW c, Run(s, a, b, n), Run(t, b, c, n)
  PROVE  Run(s \o t, a, c, n)
<1> DEFINE W == Wide(n)
           u == s \o t
           p == Len(s)
           q == Len(t)
<1>1. s \in Seq(W) /\ t \in Seq(W)
  BY DEF Run
<1> HIDE DEF W
<1>2. /\ u \in Seq(W) /\ Len(u) = p + q /\ p \in Nat /\ q \in Nat
      /\ \A j \in 1 .. p : u[j] = s[j]
      /\ \A j \in 1 .. q : u[p + j] = t[j]
  BY <1>1, JoinMembers
<1>3. /\ \A k \in 1 .. p - 1 : s[k].end = s[k + 1].start
      /\ \A k \in 1 .. q - 1 : t[k].end = t[k + 1].start
      /\ p # 0 => s[1].start = a /\ s[p].end = b
      /\ p = 0 => a = b
      /\ q # 0 => t[1].start = b /\ t[q].end = c
      /\ q = 0 => b = c
  BY DEF Run, InOrder
<1> HIDE DEF u, p, q
<1>4. ASSUME NEW k \in 1 .. p + q - 1 PROVE u[k].end = u[k + 1].start
  <2>1. CASE k < p
    <3>1. k \in 1 .. p /\ k + 1 \in 1 .. p /\ k \in 1 .. p - 1
      BY <1>2, <2>1
    <3>2. QED
      BY <1>2, <1>3, <3>1
  <2>2. CASE k = p
    <3>1. p \in 1 .. p /\ 1 \in 1 .. q /\ p # 0 /\ q # 0 /\ k + 1 = p + 1
      BY <1>2, <2>2
    <3>2. u[k] = s[p] /\ u[k + 1] = t[1]
      BY <1>2, <2>2, <3>1
    <3>3. QED
      BY <1>3, <3>1, <3>2
  <2>3. CASE k > p
    <3> DEFINE j == k - p
    <3>1. j \in 1 .. q /\ j + 1 \in 1 .. q /\ j \in 1 .. q - 1 /\ k = p + j /\ k + 1 = p + (j + 1)
      BY <1>2, <2>3
    <3> HIDE DEF j
    <3>2. u[k] = t[j] /\ u[k + 1] = t[j + 1]
      BY <1>2, <3>1
    <3>3. QED
      BY <1>3, <3>1, <3>2
  <2>4. QED
    BY <1>2, <2>1, <2>2, <2>3
<1>5. InOrder(u)
  <2>1. Len(u) - 1 = p + q - 1
    BY <1>2
  <2>2. QED
    BY <1>4, <2>1 DEF InOrder
<1>6. p + q # 0 => u[1].start = a
  <2>1. CASE p # 0
    <3>1. 1 \in 1 .. p
      BY <1>2, <2>1
    <3>2. QED
      BY <1>2, <1>3, <2>1, <3>1
  <2>2. CASE p = 0 /\ q # 0
    <3>1. 1 \in 1 .. q /\ p + 1 = 1
      BY <1>2, <2>2
    <3>2. u[1] = t[1]
      BY <1>2, <3>1
    <3>3. QED
      BY <1>3, <2>2, <3>2
  <2>3. QED
    BY <1>2, <2>1, <2>2
<1>7. p + q # 0 => u[p + q].end = c
  <2>1. CASE q # 0
    <3>1. q \in 1 .. q
      BY <1>2, <2>1
    <3>2. QED
      BY <1>2, <1>3, <2>1, <3>1
  <2>2. CASE q = 0 /\ p # 0
    <3>1. p \in 1 .. p /\ p + q = p
      BY <1>2, <2>2
    <3>2. u[p + q] = s[p]
      BY <1>2, <3>1
    <3>3. QED
      BY <1>3, <2>2, <3>2
  <2>3. QED
    BY <1>2, <2>1, <2>2
<1>8. p + q = 0 => a = c
  BY <1>2, <1>3
<1>9. QED
  BY <1>2, <1>5, <1>6, <1>7, <1>8 DEF Run, u, W

(* Every unit sliced by itself.                                            *)
Sliced(units) == FlattenSeq([k \in 1 .. Len(units) |-> ChunkSpan(units[k])])

(* Slices of units follow each other as the units do, and need no split.   *)
LEMMA SlicedOrdered ==
  ASSUME NEW d \in Seq(Char), NEW units, Ordered(d, units)
  PROVE  /\ Ordered(d, Sliced(units))
         /\ ToSet(Sliced(units)) = UNION {ToSet(ChunkSpan(units[k])) : k \in 1 .. Len(units)}
         /\ \A k \in 1 .. Len(Sliced(units)) : ~ RequiresSplit(Sliced(units)[k])
<1> DEFINE n == Len(d)
           m == Len(units)
           W == Wide(n)
           parts == [k \in 1 .. m |-> ChunkSpan(units[k])]
           all == Sliced(units)
           x == [k \in 0 .. m |-> IF k = 0 THEN 0 ELSE units[k].end]
<1>1. /\ n \in Nat /\ m \in Nat /\ units \in Seq(W)
      /\ \A k \in 1 .. m : units[k] \in W
      /\ \A k \in 1 .. m - 1 : units[k].end = units[k + 1].start
      /\ m # 0 => units[1].start = 0 /\ units[m].end = n
      /\ m = 0 => n = 0
  BY DEF Ordered, InOrder
<1>2. \A k \in 1 .. m : Run(ChunkSpan(units[k]), units[k].start, units[k].end, n)
                        /\ \A j \in 1 .. Len(ChunkSpan(units[k])) : ~ RequiresSplit(ChunkSpan(units[k])[j])
  BY <1>1, SlicesRun
<1>3. \A k \in 1 .. m : ChunkSpan(units[k]) \in Seq(W)
  BY <1>2 DEF Run
<1>4. parts \in Seq(Seq(W)) /\ Len(parts) = m /\ \A k \in 1 .. m : parts[k] = ChunkSpan(units[k])
  BY <1>1, <1>3
<1>5. all = FlattenSeq(parts)
  BY DEF Sliced
<1> HIDE DEF parts, W
<1>6. PICK f \in [0 .. Len(parts) -> Seq(W)] :
             /\ f[0] = <<>>
             /\ \A k \in 1 .. Len(parts) : f[k] = f[k - 1] \o parts[k]
             /\ FlattenSeq(parts) = f[Len(parts)]
  BY <1>4, FlattenTotals
<1>7. x[0] = 0 /\ \A k \in 1 .. m : x[k] = units[k].end /\ x[k - 1] = units[k].start
  <2>1. \A k \in 1 .. m : k - 1 \in 0 .. m /\ k \in 0 .. m /\ k # 0 /\ (k - 1 # 0 => k - 1 \in 1 .. m - 1 /\ (k - 1) + 1 = k)
                          /\ (k - 1 = 0 => k = 1)
    BY <1>1
  <2>2. 0 \in 0 .. m
    BY <1>1
  <2>3. \A k \in 1 .. m : x[k] = units[k].end
    BY <2>1
  <2>4. ASSUME NEW k \in 1 .. m PROVE x[k - 1] = units[k].start
    <3>1. CASE k - 1 = 0
      BY <1>1, <2>1, <2>2, <3>1
    <3>2. CASE k - 1 # 0
      BY <1>1, <2>1, <3>2
    <3>3. QED
      BY <3>1, <3>2
  <2>5. QED
    BY <2>2, <2>3, <2>4
<1>8. x[m] = n
  BY <1>1, <1>7
<1> HIDE DEF x
<1> DEFINE S == {k \in Nat : k <= m => Run(f[k], 0, x[k], n)}
<1>9. 0 \in S
  <2>1. Run(<<>>, 0, 0, n)
    BY DEF Run, InOrder
  <2>2. QED
    BY <1>6, <1>7, <2>1
<1>10. ASSUME NEW k \in Nat, k \in S PROVE k + 1 \in S
  <2> SUFFICES ASSUME k + 1 <= m PROVE Run(f[k + 1], 0, x[k + 1], n)
    BY <1>10
  <2>1. k <= m /\ k + 1 \in 1 .. m /\ (k + 1) - 1 = k
    BY <1>1, <1>10
  <2>2. Run(f[k], 0, x[k], n)
    BY <1>10, <2>1
  <2>3. Run(parts[k + 1], x[k], x[k + 1], n)
    <3>1. x[k] = units[k + 1].start /\ x[k + 1] = units[k + 1].end
      BY <1>7, <2>1
    <3>2. Run(ChunkSpan(units[k + 1]), units[k + 1].start, units[k + 1].end, n)
      BY <1>2, <2>1
    <3>3. parts[k + 1] = ChunkSpan(units[k + 1])
      BY <1>4, <2>1
    <3>4. QED
      BY ONLY <3>1, <3>2, <3>3
  <2>4. Run(f[k] \o parts[k + 1], 0, x[k + 1], n)
    BY <1>1, <2>2, <2>3, RunsJoin
  <2>5. f[k + 1] = f[k] \o parts[k + 1]
    BY <1>4, <1>6, <2>1
  <2>6. QED
    BY ONLY <2>4, <2>5
<1>11. m \in S
  <2> HIDE DEF S
  <2> QED BY <1>1, <1>9, <1>10, NatSetInduction
<1>12. Run(all, 0, n, n)
  <2>1. Run(f[m], 0, x[m], n)
    BY <1>1, <1>11
  <2>2. all = f[m]
    BY <1>4, <1>5, <1>6
  <2>3. QED
    BY ONLY <1>8, <2>1, <2>2
<1>13. ToSet(all) = UNION {ToSet(parts[k]) : k \in 1 .. Len(parts)}
  BY <1>4, <1>5, FlattenHolds
<1>14. UNION {ToSet(parts[k]) : k \in 1 .. Len(parts)} = UNION {ToSet(ChunkSpan(units[k])) : k \in 1 .. m}
  BY <1>4
<1>15. ASSUME NEW j \in 1 .. Len(all) PROVE ~ RequiresSplit(all[j])
  <2>1. all \in Seq(Wide(n))
    BY <1>12 DEF Run
  <2> HIDE DEF all
  <2>2. all[j] \in ToSet(all)
    BY <2>1 DEF ToSet
  <2>3. PICK k \in 1 .. m : all[j] \in ToSet(ChunkSpan(units[k]))
    <3>1. all[j] \in UNION {ToSet(ChunkSpan(units[k])) : k \in 1 .. m}
      BY <1>13, <1>14, <2>2
    <3> HIDE DEF m
    <3>2. QED
      BY <3>1
  <2>4. ChunkSpan(units[k]) \in Seq(W)
    BY <1>3
  <2>5. PICK i \in 1 .. Len(ChunkSpan(units[k])) : all[j] = ChunkSpan(units[k])[i]
    BY <2>3, <2>4 DEF ToSet
  <2>6. ~ RequiresSplit(ChunkSpan(units[k])[i])
    BY <1>2
  <2>7. QED
    BY ONLY <2>5, <2>6
<1>16. Ordered(d, all)
  <2> HIDE DEF all
  <2> QED BY <1>12 DEF Run, Ordered
<1>17. QED
  BY <1>13, <1>14, <1>15, <1>16

(* The reference slices first and never chunks.                            *)
LEMMA RichAre ==
  ASSUME NEW d \in Seq(Char)
  PROVE  /\ Ordered(d, Sliced(Units(d)))
         /\ RichSegments(d) = Segments(d, Sliced(Units(d)))
         /\ RichSegments(d) \in Seq(Spans(Len(d)))
         /\ SpanBytes(d)[RichSegments(d)] = d
<1> DEFINE units == Units(d)
           all == Sliced(units)
<1>1. Ordered(d, units) /\ Ordered(d, all)
  BY UnitsOrdered, SlicedOrdered
<1>2. units \in Seq(Wide(Len(d))) /\ all \in Seq(Wide(Len(d))) /\ InOrder(all)
  BY <1>1 DEF Ordered
<1> HIDE DEF units
<1>3. DOMAIN units = 1 .. Len(units)
  BY <1>2
<1>4. RichSegments(d) = Segments(d, all)
  BY <1>3 DEF RichSegments, Sliced, units
<1> HIDE DEF all
<1>5. Segments(d, all) \in Seq(Spans(Len(d)))
  <2>1. Len(d) \in Nat
    OBVIOUS
  <2>2. QED
    BY <1>2, <2>1, SegmentsAre
<1>6. SpanBytes(d)[Segments(d, all)] = d
  BY <1>1, OrderedSpells
<1>7. QED
  BY <1>1, <1>4, <1>5, <1>6 DEF all, units

(* What holds of tokens that spell a document.                             *)
RoundTrip(v, d, tokens) ==
  /\ DecodeIds(v, Framed(tokens, FALSE)) = d
  /\ \A k \in DOMAIN tokens : tokens[k].length = Len(DecodeIds(v, <<tokens[k]>>))

(* Tokens that spell a document do so framed, each with its length.        *)
LEMMA TokensRoundTrip ==
  ASSUME NEW v, IsVocabulary(v), NEW d \in Seq(Char), NEW tokens \in Seq(Tokens(v)),
         DecodeIds(v, tokens) = d
  PROVE  RoundTrip(v, d, tokens)
<1>1. DecodeIds(v, Framed(tokens, FALSE)) = d
  <2>1. DecodeIds(v, Framed(tokens, FALSE)) =
          DecodeIds(v, tokens) \o (IF FALSE THEN <<Newline>> ELSE <<>>)
    BY FramingSpells
  <2>2. d \o <<>> = d
    OBVIOUS
  <2>3. QED
    BY <2>1, <2>2
<1>2. ASSUME NEW k \in DOMAIN tokens
      PROVE  tokens[k].length = Len(DecodeIds(v, <<tokens[k]>>))
  <2>1. tokens[k] \in Tokens(v)
    OBVIOUS
  <2> DEFINE t == tokens[k]
  <2> HIDE DEF t
  <2>2. DecodeIds(v, <<t>>) = Spelling(v, t) /\ t \in Tokens(v)
    BY <2>1, DecodesJoins DEF t
  <2>3. t.length = Len(Spelling(v, t))
    BY <2>2 DEF Tokens
  <2>4. QED
    BY <2>2, <2>3 DEF t
<1>3. QED
  BY <1>1, <1>2 DEF RoundTrip

(* Both segmentations of a document lose nothing.                          *)
LEMMA BothRoundTrip ==
  ASSUME NEW v, IsVocabulary(v), NEW d \in Seq(Char)
  PROVE  /\ RoundTrip(v, d, EncodeSegments(v, d, RichSegments(d)))
         /\ RoundTrip(v, d, EncodeSegments(v, d, FlatSegments(d)))
<1>1. Encoded(v, d) \in Seq(Tokens(v)) /\ DecodeIds(v, Encoded(v, d)) = d
  BY EncodedSpells
<1>2. RoundTrip(v, d, EncodeSegments(v, d, FlatSegments(d)))
  BY <1>1, TokensRoundTrip DEF Encoded
<1>3. RichSegments(d) \in Seq(Spans(Len(d))) /\ SpanBytes(d)[RichSegments(d)] = d
  BY RichAre
<1> DEFINE tokens == EncodeSegments(v, d, RichSegments(d))
<1>4. tokens \in Seq(Tokens(v)) /\ DecodeIds(v, tokens) = d
  BY <1>3, EncodedSpansSpell
<1> HIDE DEF tokens
<1>5. RoundTrip(v, d, tokens)
  BY <1>4, TokensRoundTrip
<1>6. QED
  BY <1>2, <1>5 DEF tokens

(* Which units a chunk takes.                                              *)
LEMMA ChunkMembers ==
  ASSUME NEW d \in Seq(Char), NEW x, NEW m, NEW y, NEW g, ChunkedAt(d, x, m, y, g)
  PROVE  /\ m \in Nat /\ g \in Nat /\ Len(Units(d)) = m /\ Len(Chunks(d)) = g
         /\ DOMAIN Chunks(d) = 1 .. g
         /\ y[0] = 0 /\ y[g] = m
         /\ \A c \in 1 .. g :
              /\ y[c - 1] \in 0 .. m /\ y[c] \in 0 .. m /\ y[c - 1] < y[c]
              /\ Chunks(d)[c] \in Seq(Wide(Len(d))) /\ InOrder(Chunks(d)[c])
              /\ Len(Chunks(d)[c]) = y[c] - y[c - 1]
              /\ \A k \in 1 .. y[c] - y[c - 1] : Chunks(d)[c][k] = Units(d)[y[c - 1] + k]
         /\ \A i \in 1 .. m : \E c \in 1 .. g : i \in y[c - 1] + 1 .. y[c]
<1> DEFINE units == Units(d)
           W == Wide(Len(d))
<1>1. /\ units = PartsAt(x, m)
      /\ Chunks(d) = [c \in 1 .. g |-> SubSeq(PartsAt(x, m), y[c - 1] + 1, y[c])]
  BY ChunksAre
<1>2. /\ m \in Nat /\ g \in Nat /\ y \in [0 .. g -> 0 .. m] /\ y[0] = 0 /\ y[g] = m
      /\ \A j, k \in 0 .. g : j < k => y[j] < y[k]
  BY DEF ChunkedAt, Cuts
<1>3. units \in Seq(W) /\ InOrder(units)
  BY UnitsAreWide, UnitsInOrder
<1>4. Len(units) = m
  BY <1>1, <1>2 DEF PartsAt
<1>5. Len(Chunks(d)) = g /\ DOMAIN Chunks(d) = 1 .. g
  BY <1>1, <1>2
<1>6. \A c \in 1 .. g : Chunks(d)[c] = SubSeq(units, y[c - 1] + 1, y[c])
  BY <1>1
<1>7. \A i \in 1 .. m : \E c \in 1 .. g : i \in y[c - 1] + 1 .. y[c]
  BY <1>2, PartOf DEF ChunkedAt
<1> HIDE DEF units, W
<1>8. ASSUME NEW c \in 1 .. g
      PROVE  /\ y[c - 1] \in 0 .. m /\ y[c] \in 0 .. m /\ y[c - 1] < y[c]
             /\ Chunks(d)[c] \in Seq(W) /\ InOrder(Chunks(d)[c])
             /\ Len(Chunks(d)[c]) = y[c] - y[c - 1]
             /\ \A k \in 1 .. y[c] - y[c - 1] : Chunks(d)[c][k] = units[y[c - 1] + k]
  <2> DEFINE a == y[c - 1]
             b == y[c]
             s == Chunks(d)[c]
  <2>1. c - 1 \in 0 .. g /\ c \in 0 .. g /\ c - 1 < c
    BY <1>2
  <2>2. a \in 0 .. m /\ b \in 0 .. m /\ a < b
    BY <1>2, <2>1
  <2>3. s = SubSeq(units, a + 1, b)
    BY <1>6
  <2> HIDE DEF a, b, s
  <2>4. a \in 0 .. Len(units) /\ b \in a .. Len(units)
    BY <1>2, <1>4, <2>2
  <2>5. /\ s \in Seq(W) /\ Len(s) = b - a
        /\ \A j \in 1 .. b - a : s[j] = units[a + j] /\ a + j \in 1 .. Len(units)
    BY <1>3, <2>3, <2>4, PartMembers
  <2>6. InOrder(s)
    <3>1. \A k \in 1 .. (b - a) - 1 : /\ k \in 1 .. b - a /\ k + 1 \in 1 .. b - a
                                      /\ a + (k + 1) = (a + k) + 1 /\ a + k \in 1 .. Len(units) - 1
      BY <1>2, <1>4, <2>2
    <3>2. \A i \in 1 .. Len(units) - 1 : units[i].end = units[i + 1].start
      BY <1>3 DEF InOrder
    <3>3. \A k \in 1 .. (b - a) - 1 : s[k].end = s[k + 1].start
      <4> SUFFICES ASSUME NEW k \in 1 .. (b - a) - 1 PROVE s[k].end = s[k + 1].start
        OBVIOUS
      <4>1. s[k] = units[a + k] /\ s[k + 1] = units[(a + k) + 1]
        BY <2>5, <3>1
      <4>2. units[a + k].end = units[(a + k) + 1].start
        BY <3>1, <3>2
      <4>3. QED
        BY <4>1, <4>2
    <3>4. QED
      BY <2>5, <3>3 DEF InOrder
  <2>7. QED
    BY <2>2, <2>5, <2>6 DEF a, b, s
<1>9. QED
  BY <1>2, <1>4, <1>5, <1>7, <1>8 DEF units, W

(* The place of the next unit follows from the place and the kind of this. *)
LEMMA NextPlace ==
  ASSUME NEW d \in Seq(Char), NEW m, NEW x, Cuts(x, m, UnitStarts(d), Len(d)), NEW i \in 1 .. m - 1
  PROVE  LET here == Place(d)[x[i - 1] + 1]
         IN  Place(d)[x[i] + 1] =
               IF d[x[i - 1] + 1] \in {Newline, Invalid} \/ here = MaxChunkUnits THEN 1 ELSE here + 1
<1>1. /\ m \in Nat /\ x \in [0 .. m -> 0 .. Len(d)] /\ Len(d) \in Nat
      /\ \A j, k \in 0 .. m : j < k => x[j] < x[k]
      /\ \A k \in 1 .. m : x[k - 1] + 1 \in UnitStarts(d)
  BY DEF Cuts
<1>2. i \in 1 .. m /\ i - 1 \in 0 .. m /\ i \in 0 .. m /\ i - 1 < i /\ i + 1 \in 1 .. m /\ (i + 1) - 1 = i
  BY <1>1
<1>3. x[i] + 1 \in UnitStarts(d)
  <2>1. x[(i + 1) - 1] + 1 \in UnitStarts(d)
    BY <1>1, <1>2
  <2>2. QED
    BY <1>2, <2>1
<1>4. x[i - 1] \in Nat /\ x[i] \in Nat /\ x[i - 1] < x[i]
  BY <1>1, <1>2
<1>5. /\ d[x[i]] = d[x[i - 1] + 1]
      /\ Place(d)[x[i]] = Place(d)[x[i - 1] + 1]
  <2>1. x[i] \in x[i - 1] + 1 .. x[i]
    BY <1>4
  <2>2. \A k \in x[i - 1] + 1 .. x[i] : /\ d[k] = d[x[i - 1] + 1]
                                        /\ Place(d)[k] = Place(d)[x[i - 1] + 1]
    BY <1>2, UnitUniform
  <2>3. QED
    BY <2>1, <2>2
<1>6. x[i] + 1 \in 1 .. Len(d) /\ (x[i] + 1) - 1 = x[i] /\ x[i] + 1 # 1
  <2>1. x[i] + 1 \in 1 .. Len(d)
    BY <1>3 DEF UnitStarts
  <2>2. QED
    BY <1>4, <2>1
<1>7. Place(d)[x[i] + 1] = PlaceAfter(d, x[i] + 1, Place(d)[(x[i] + 1) - 1])
  BY <1>6, PlaceIs DEF IsPlace
<1>8. QED
  BY <1>3, <1>5, <1>6, <1>7 DEF PlaceAfter

(* The units of a chunk are counted from 1.                                *)
LEMMA PlaceCounts ==
  ASSUME NEW d \in Seq(Char), NEW x, NEW m, NEW y, NEW g, ChunkedAt(d, x, m, y, g), NEW c \in 1 .. g
  PROVE  \A j \in 1 .. y[c] - y[c - 1] : Place(d)[x[y[c - 1] + j - 1] + 1] = j
<1> DEFINE a == y[c - 1]
           b == y[c]
           B == {k \in 1 .. m : Place(d)[x[k - 1] + 1] = 1}
           r(k) == Place(d)[x[k - 1] + 1]
           S == {j \in Nat : j \in 1 .. b - a => r(a + j) = j}
<1>1. Cuts(x, m, UnitStarts(d), Len(d)) /\ Cuts(y, g, B, m)
  BY DEF ChunkedAt
<1>2. m \in Nat /\ g \in Nat /\ a \in 0 .. m /\ b \in 0 .. m /\ a < b
  BY ChunkMembers
<1>3. a + 1 \in B
  BY <1>1 DEF Cuts
<1>4. \A i \in a + 2 .. b : i \notin B
  BY <1>1, <1>2, NoneWithin
<1> HIDE DEF B
<1>5. ASSUME NEW i \in 1 .. m - 1
      PROVE  r(i + 1) = IF d[x[i - 1] + 1] \in {Newline, Invalid} \/ r(i) = MaxChunkUnits THEN 1 ELSE r(i) + 1
  <2>1. (i + 1) - 1 = i
    BY <1>2
  <2>2. Place(d)[x[i] + 1] =
          IF d[x[i - 1] + 1] \in {Newline, Invalid} \/ Place(d)[x[i - 1] + 1] = MaxChunkUnits
          THEN 1 ELSE Place(d)[x[i - 1] + 1] + 1
    BY <1>1, NextPlace
  <2>3. QED
    BY <2>1, <2>2
<1>6. \A k \in 1 .. m : k \in B <=> r(k) = 1
  BY DEF B
<1> HIDE DEF r, a, b
<1>7. 0 \in S
  OBVIOUS
<1>8. ASSUME NEW j \in Nat, j \in S PROVE j + 1 \in S
  <2> SUFFICES ASSUME j + 1 \in 1 .. b - a PROVE r(a + (j + 1)) = j + 1
    OBVIOUS
  <2>1. CASE j = 0
    <3>1. a + (j + 1) = a + 1 /\ a + 1 \in 1 .. m
      BY <1>2, <2>1
    <3>2. QED
      BY <1>3, <1>6, <2>1, <3>1
  <2>2. CASE j # 0
    <3>1. j \in 1 .. b - a /\ a + j \in 1 .. m - 1 /\ a + (j + 1) = (a + j) + 1
          /\ (a + j) + 1 \in a + 2 .. b /\ (a + j) + 1 \in 1 .. m
      BY <1>2, <2>2
    <3>2. r(a + j) = j
      BY <1>8, <3>1
    <3>3. r((a + j) + 1) # 1
      BY <1>4, <1>6, <3>1
    <3>4. r((a + j) + 1) = j + 1
      BY <1>5, <3>1, <3>2, <3>3
    <3>5. QED
      BY <3>1, <3>4
  <2>3. QED
    BY <2>1, <2>2
<1>9. Nat \subseteq S
  <2> HIDE DEF S
  <2> QED BY <1>7, <1>8, NatSetInduction
<1>10. \A j \in 1 .. b - a : r(a + j) = j
  BY <1>9
<1>11. \A j \in 1 .. b - a : a + j - 1 = (a + j) - 1
  BY <1>2
<1>12. QED
  BY <1>10, <1>11 DEF r, a, b

(* A chunk that is not full ends with a unit that closes it.               *)
LEMMA ChunkCloses ==
  ASSUME NEW d \in Seq(Char), NEW x, NEW m, NEW y, NEW g, ChunkedAt(d, x, m, y, g), NEW c \in 1 .. g - 1,
         Len(Chunks(d)[c]) < MaxChunkUnits
  PROVE  Closes(d, Units(d)[y[c]])
<1> DEFINE i == y[c]
           j == y[c] - y[c - 1]
<1>1. /\ g \in Nat /\ m \in Nat /\ c \in 1 .. g /\ c + 1 \in 1 .. g /\ (c + 1) - 1 = c
  BY ChunkMembers
<1>2. /\ y[c - 1] \in 0 .. m /\ y[c] \in 0 .. m /\ y[c - 1] < y[c]
      /\ Len(Chunks(d)[c]) = y[c] - y[c - 1]
  BY <1>1, ChunkMembers
<1>3. y[(c + 1) - 1] < y[c + 1] /\ y[c + 1] \in 0 .. m
  BY <1>1, ChunkMembers
<1>4. i \in 1 .. m - 1
  BY <1>1, <1>2, <1>3
<1>5. Cuts(x, m, UnitStarts(d), Len(d)) /\ Place(d)[x[i] + 1] = 1
  <2>1. \A k \in 1 .. g : y[k - 1] + 1 \in {k2 \in 1 .. m : Place(d)[x[k2 - 1] + 1] = 1}
    BY DEF ChunkedAt, Cuts
  <2>2. Place(d)[x[(y[c] + 1) - 1] + 1] = 1
    <3>1. y[(c + 1) - 1] + 1 \in {k2 \in 1 .. m : Place(d)[x[k2 - 1] + 1] = 1}
      BY <1>1, <2>1
    <3>2. y[c] + 1 \in {k2 \in 1 .. m : Place(d)[x[k2 - 1] + 1] = 1}
      BY <1>1, <3>1
    <3>3. QED
      BY <3>2
  <2>3. (y[c] + 1) - 1 = y[c]
    BY <1>1, <1>2
  <2>4. QED
    BY <2>2, <2>3 DEF ChunkedAt
<1>6. Place(d)[x[i - 1] + 1] = j
  <2>1. j \in 1 .. y[c] - y[c - 1] /\ y[c - 1] + j - 1 = i - 1
    BY <1>1, <1>2
  <2>2. Place(d)[x[y[c - 1] + j - 1] + 1] = j
    BY <1>1, <2>1, PlaceCounts
  <2>3. QED
    BY <2>1, <2>2
<1>7. j \in Nat /\ j # 0 /\ j < MaxChunkUnits
  BY <1>1, <1>2
<1> HIDE DEF i, j
<1>8. Place(d)[x[i] + 1] =
        IF d[x[i - 1] + 1] \in {Newline, Invalid} \/ j = MaxChunkUnits THEN 1 ELSE j + 1
  BY <1>4, <1>5, <1>6, NextPlace
<1>9. MaxChunkUnits \in Nat
  BY SegmentConstants
<1>10. d[x[i - 1] + 1] \in {Newline, Invalid}
  BY <1>5, <1>7, <1>8, <1>9
<1>11. Units(d)[i].start = x[i - 1]
  <2>1. Units(d) = PartsAt(x, m)
    BY ChunksAre
  <2>2. i \in 1 .. m
    BY <1>1, <1>4
  <2>3. QED
    BY <2>1, <2>2 DEF PartsAt
<1>12. QED
  BY <1>10, <1>11 DEF Closes, i

(* One member each.                                                        *)
LEMMA SingletonsFlatten ==
  ASSUME NEW T, NEW s \in Seq(T)
  PROVE  FlattenSeq([k \in 1 .. Len(s) |-> <<s[k]>>]) = s
<1> DEFINE m == Len(s)
           t == [k \in 1 .. m |-> <<s[k]>>]
           x == [k \in 0 .. m |-> k]
<1>1. m \in Nat /\ \A k \in 1 .. m : s[k] \in T /\ SubSeq(s, k, k) = <<s[k]>>
  BY OnePart
<1>2. t \in Seq(Seq(T)) /\ Len(t) = m /\ \A k \in 1 .. m : t[k] = <<s[k]>>
  BY <1>1
<1>3. /\ x \in [0 .. m -> 0 .. Len(s)]
      /\ \A k \in 0 .. m : x[k] = k
  BY <1>1
<1> HIDE DEF t, x
<1>4. \A k \in 1 .. m : k - 1 \in 0 .. m /\ k \in 0 .. m /\ (k - 1) + 1 = k /\ k - 1 <= k
  BY <1>1
<1>5. Tiles(t, s, x, m)
  BY <1>1, <1>2, <1>3, <1>4 DEF Tiles
<1>6. FlattenSeq(t) = SubSeq(s, x[0] + 1, x[m])
  BY <1>2, <1>5, TilesCover
<1>7. x[0] = 0 /\ x[m] = Len(s) /\ 0 + 1 = 1
  BY <1>1, <1>3
<1>8. SubSeq(s, 1, Len(s)) = s
  BY WholePart
<1>9. QED
  BY <1>6, <1>7, <1>8 DEF t

(* A unit that may be bridged is one space.                                *)
LEMMA SpaceIs ==
  ASSUME NEW d \in Seq(Char), NEW s \in Wide(Len(d)), Bytes(d, s) = <<Space>>
  PROVE  d[s.start + 1] = Space /\ s.end = s.start + 1 /\ s.start \in Nat
<1> DEFINE a == s.start
           b == s.end
<1>1. Len(d) \in Nat /\ a \in 0 .. Len(d) /\ b \in a .. Len(d) /\ a < b
  BY DEF Wide, Spans
<1>2. SubSeq(d, a + 1, b) = <<Space>>
  BY DEF Bytes
<1> HIDE DEF a, b
<1>3. /\ Len(SubSeq(d, a + 1, b)) = b - a
      /\ \A j \in 1 .. b - a : SubSeq(d, a + 1, b)[j] = d[a + j]
  BY <1>1, PartMembers
<1>4. Len(<<Space>>) = 1 /\ <<Space>>[1] = Space
  OBVIOUS
<1>5. b - a = 1 /\ 1 \in 1 .. b - a
  <2>1. Len(SubSeq(d, a + 1, b)) = Len(<<Space>>)
    BY <1>2
  <2>2. b - a = 1
    BY <1>3, <1>4, <2>1
  <2>3. QED
    BY <2>2
<1>6. d[a + 1] = Space
  BY <1>2, <1>3, <1>4, <1>5
<1>7. QED
  BY <1>1, <1>5, <1>6 DEF a, b

(* Where no bridge reaches over the end of a chunk, its segments are those *)
(* of its units in the whole document.                                     *)
LEMMA PartAlike ==
  ASSUME NEW d \in Seq(Char), NEW units, NEW chunk, NEW a \in Nat,
         Len(chunk) \in Nat, Len(units) \in Nat, a + Len(chunk) <= Len(units),
         \A k \in 1 .. Len(chunk) : chunk[k] = units[a + k],
         ~ Bridges(d, units, a), ~ Bridges(d, units, a + Len(chunk))
  PROVE  \A k \in 1 .. Len(chunk) : Part(d, chunk, k) = Part(d, units, a + k)
<1> DEFINE l == Len(chunk)
<1>1. l \in Nat /\ a + l <= Len(units) /\ Len(units) \in Nat
  OBVIOUS
<1>2. ASSUME NEW k \in 0 .. l PROVE Bridges(d, chunk, k) <=> Bridges(d, units, a + k)
  <2>1. CASE k = 0
    BY <1>1, <2>1 DEF Bridges
  <2>2. CASE k = l
    <3>1. ~ Bridges(d, chunk, l)
      BY <1>1 DEF Bridges
    <3>2. QED
      BY <2>2, <3>1
  <2>3. CASE k # 0 /\ k # l
    <3>1. k \in 1 .. l - 1 /\ k \in 1 .. l /\ k + 1 \in 1 .. l /\ a + (k + 1) = (a + k) + 1
          /\ a + k \in 1 .. Len(units) - 1
      BY <1>1, <2>3
    <3>2. chunk[k] = units[a + k] /\ chunk[k + 1] = units[(a + k) + 1]
      <4>1. chunk[k] = units[a + k] /\ chunk[k + 1] = units[a + (k + 1)]
        BY <3>1
      <4>2. QED
        BY <3>1, <4>1
    <3>3. QED
      BY <3>1, <3>2 DEF Bridges
  <2>4. QED
    BY <2>1, <2>2, <2>3
<1>3. ASSUME NEW k \in 1 .. l PROVE Part(d, chunk, k) = Part(d, units, a + k)
  <2>1. k \in 0 .. l /\ k - 1 \in 0 .. l /\ a + (k - 1) = (a + k) - 1 /\ chunk[k] = units[a + k]
    BY <1>1
  <2>2. /\ Bridges(d, chunk, k) <=> Bridges(d, units, a + k)
        /\ Bridges(d, chunk, k - 1) <=> Bridges(d, units, (a + k) - 1)
    BY <1>2, <2>1
  <2>3. Bridges(d, chunk, k) => k + 1 \in 1 .. l /\ chunk[k + 1] = units[(a + k) + 1]
    <3>1. Bridges(d, chunk, k) => k \in 1 .. l - 1
      BY DEF Bridges
    <3>2. k \in 1 .. l - 1 => k + 1 \in 1 .. l /\ a + (k + 1) = (a + k) + 1
      BY <1>1
    <3>3. QED
      BY <3>1, <3>2
  <2>4. QED
    BY <2>1, <2>2, <2>3 DEF Part
<1>4. QED
  BY <1>3

(* A document without long units whose chunks are not full is segmented    *)
(* alike by both.                                                          *)
LEMMA AlikeWithinLimits ==
  ASSUME NEW d \in Seq(Char),
         \A k \in 1 .. Len(Units(d)) : ~ RequiresSplit(Units(d)[k]),
         \A c \in 1 .. Len(Chunks(d)) : Len(Chunks(d)[c]) < MaxChunkUnits
  PROVE  FlatSegments(d) = RichSegments(d)
<1> DEFINE n == Len(d)
           units == Units(d)
           chunks == Chunks(d)
           S == Spans(n)
           all == [k \in 1 .. Len(units) |-> Part(d, units, k)]
<1>1. PICK x, m, y, g : ChunkedAt(d, x, m, y, g)
  BY ChunkedExists
<1>2. /\ m \in Nat /\ g \in Nat /\ Len(units) = m /\ Len(chunks) = g
      /\ DOMAIN chunks = 1 .. g
      /\ y[0] = 0 /\ y[g] = m
      /\ \A c \in 1 .. g :
           /\ y[c - 1] \in 0 .. m /\ y[c] \in 0 .. m /\ y[c - 1] < y[c]
           /\ chunks[c] \in Seq(Wide(n)) /\ InOrder(chunks[c])
           /\ Len(chunks[c]) = y[c] - y[c - 1]
           /\ \A k \in 1 .. y[c] - y[c - 1] : chunks[c][k] = units[y[c - 1] + k]
  BY <1>1, ChunkMembers
<1>3. n \in Nat /\ units \in Seq(Wide(n)) /\ InOrder(units) /\ \A k \in 1 .. m : units[k] \in Wide(n)
  BY <1>2, UnitsAreWide, UnitsInOrder
<1>4. RichSegments(d) = Segments(d, units)
  <2>1. RichSegments(d) = Segments(d, Sliced(units))
    BY RichAre
  <2>2. \A k \in 1 .. m : ChunkSpan(units[k]) = <<units[k]>>
    BY <1>2, <1>3, SlicesRun
  <2>3. Sliced(units) = FlattenSeq([k \in 1 .. Len(units) |-> <<units[k]>>])
    <3>1. [k \in 1 .. Len(units) |-> ChunkSpan(units[k])] = [k \in 1 .. Len(units) |-> <<units[k]>>]
      BY <1>2, <2>2
    <3>2. QED
      BY <3>1 DEF Sliced
  <2>4. Sliced(units) = units
    <3> HIDE DEF units
    <3> QED BY <1>3, <2>3, SingletonsFlatten
  <2>5. QED
    BY <2>1, <2>4
<1>5. all \in Seq(Seq(S)) /\ Segments(d, units) = FlattenSeq(all)
  <2> HIDE DEF units
  <2> QED BY <1>3, SegmentsAre
<1>6. Len(all) = m /\ \A k \in 1 .. m : all[k] = Part(d, units, k)
  BY <1>2
<1>7. ASSUME NEW c \in 0 .. g PROVE ~ Bridges(d, units, y[c])
  <2>1. CASE c = 0
    BY <1>2, <2>1 DEF Bridges
  <2>2. CASE c = g
    <3>1. ~ (m \in 1 .. Len(units) - 1)
      BY <1>2
    <3>2. QED
      BY <1>2, <2>2, <3>1 DEF Bridges
  <2>3. CASE c # 0 /\ c # g
    <3>1. c \in 1 .. g - 1 /\ c \in 1 .. g
      BY <1>2, <2>3
    <3>2. Closes(d, units[y[c]])
      <4>1. Len(Chunks(d)[c]) < MaxChunkUnits
        BY <1>2, <3>1
      <4>2. QED
        BY <1>1, <3>1, <4>1, ChunkCloses
    <3>3. ASSUME Bridges(d, units, y[c]) PROVE FALSE
      <4>1. Bytes(d, units[y[c]]) = <<Space>> /\ y[c] \in 1 .. m
        BY <1>2, <3>3 DEF Bridges
      <4>2. d[units[y[c]].start + 1] = Space
        BY <1>3, <4>1, SpaceIs
      <4>3. QED
        BY <3>2, <4>2 DEF Closes, Space, Newline, Invalid
    <3>4. QED
      BY <3>3
  <2>4. QED
    BY <2>1, <2>2, <2>3
<1> DEFINE pieces == [c \in 1 .. g |-> SubSeq(all, y[c - 1] + 1, y[c])]
           H == [a \in Seq(Seq(S)) |-> FlattenSeq(a)]
<1> HIDE DEF units, S
<1>8. ASSUME NEW c \in 1 .. g
      PROVE  pieces[c] \in Seq(Seq(S)) /\ Segments(d, chunks[c]) = FlattenSeq(pieces[c])
  <2> DEFINE a == y[c - 1]
             b == y[c]
             chunk == chunks[c]
             parts == [k \in 1 .. Len(chunk) |-> Part(d, chunk, k)]
  <2>1. /\ a \in 0 .. m /\ b \in 0 .. m /\ a < b /\ chunk \in Seq(Wide(n)) /\ InOrder(chunk)
        /\ Len(chunk) = b - a /\ \A k \in 1 .. b - a : chunk[k] = units[a + k]
    BY <1>2
  <2>2. ~ Bridges(d, units, a) /\ ~ Bridges(d, units, b)
    <3>1. c - 1 \in 0 .. g /\ c \in 0 .. g
      BY <1>2
    <3>2. QED
      BY <1>7, <3>1
  <2>3. /\ parts \in Seq(Seq(S)) /\ Segments(d, chunk) = FlattenSeq(parts)
    <3> HIDE DEF chunk
    <3> QED BY <1>3, <2>1, SegmentsAre DEF S
  <2> HIDE DEF a, b, chunk, all
  <2>4. \A k \in 1 .. Len(chunk) : Part(d, chunk, k) = Part(d, units, a + k)
    <3>1. a \in Nat /\ Len(chunk) \in Nat /\ Len(units) \in Nat /\ a + Len(chunk) <= Len(units)
          /\ a + Len(chunk) = b
      BY <1>2, <2>1
    <3>2. \A k \in 1 .. Len(chunk) : chunk[k] = units[a + k]
      BY <2>1
    <3>3. QED
      BY <2>2, <3>1, <3>2, PartAlike
  <2>5. /\ SubSeq(all, a + 1, b) \in Seq(Seq(S)) /\ Len(SubSeq(all, a + 1, b)) = b - a
        /\ \A j \in 1 .. b - a : SubSeq(all, a + 1, b)[j] = all[a + j]
    <3>1. a \in 0 .. Len(all) /\ b \in a .. Len(all)
      BY <1>2, <1>6, <2>1
    <3>2. QED
      BY <1>5, <3>1, PartMembers
  <2>6. Len(parts) = b - a /\ \A j \in 1 .. b - a : parts[j] = all[a + j]
    <3>1. b - a \in Nat /\ \A j \in 1 .. b - a : a + j \in 1 .. m
      BY <1>2, <2>1
    <3>2. QED
      BY <1>6, <2>1, <2>4, <3>1
  <2> HIDE DEF parts
  <2>7. parts = SubSeq(all, a + 1, b)
    <3> DEFINE q == SubSeq(all, a + 1, b)
    <3>1. q \in Seq(Seq(S)) /\ Len(q) = Len(parts) /\ \A j \in 1 .. Len(parts) : parts[j] = q[j]
      BY <2>5, <2>6
    <3> HIDE DEF q
    <3>2. parts = q
      BY <2>3, <3>1, SameMembers
    <3>3. QED
      BY <3>2 DEF q
  <2>8. pieces[c] = SubSeq(all, a + 1, b)
    BY DEF a, b
  <2>9. QED
    BY <2>3, <2>7, <2>8 DEF chunk
<1> HIDE DEF all
<1>9. pieces \in Seq(Seq(Seq(S))) /\ Len(pieces) = g
      /\ \A c \in 1 .. g : pieces[c] = SubSeq(all, y[c - 1] + 1, y[c])
  <2>1. \A c \in 1 .. g : pieces[c] \in Seq(Seq(S))
    BY <1>8
  <2>2. pieces = [c \in 1 .. g |-> pieces[c]] /\ \A c \in 1 .. g : pieces[c] = SubSeq(all, y[c - 1] + 1, y[c])
    OBVIOUS
  <2> HIDE DEF pieces
  <2> DEFINE X == Seq(Seq(S))
  <2>3. \A c \in 1 .. g : pieces[c] \in X
    BY <2>1
  <2>4. g \in Nat /\ pieces = [c \in 1 .. g |-> pieces[c]]
    BY <1>2, <2>2
  <2> HIDE DEF X
  <2>5. pieces \in Seq(X) /\ Len(pieces) = g
    BY <2>3, <2>4
  <2>6. QED
    BY <2>2, <2>5 DEF X
<1> HIDE DEF pieces
<1>10. FlattenSeq(pieces) = all
  <2> DEFINE z == [c \in 0 .. g |-> y[c]]
  <2>1. \A c \in 1 .. g : c - 1 \in 0 .. g /\ c \in 0 .. g /\ y[c - 1] <= y[c]
    <3>1. \A c \in 1 .. g : c - 1 \in 0 .. g /\ c \in 0 .. g /\ y[c - 1] \in Nat /\ y[c] \in Nat /\ y[c - 1] < y[c]
      BY <1>2
    <3>2. QED
      BY <3>1
  <2>2. z \in [0 .. g -> 0 .. m]
    <3>1. \A c \in 0 .. g : c = 0 \/ c \in 1 .. g
      BY <1>2
    <3>2. \A c \in 0 .. g : y[c] \in 0 .. m
      BY <1>2, <3>1
    <3>3. QED
      BY <3>2
  <2>3. \A c \in 0 .. g : z[c] = y[c]
    OBVIOUS
  <2> HIDE DEF z
  <2>4. Tiles(pieces, all, z, g)
    BY <1>2, <1>6, <1>9, <2>1, <2>2, <2>3 DEF Tiles
  <2>5. FlattenSeq(pieces) = SubSeq(all, z[0] + 1, z[g])
    BY <1>5, <1>9, <2>4, TilesCover
  <2>6. SubSeq(all, 1, Len(all)) = all
    BY <1>5, WholePart
  <2>7. z[0] + 1 = 1 /\ z[g] = Len(all)
    BY <1>2, <1>6, <2>3
  <2>8. QED
    BY <2>5, <2>6, <2>7
<1>11. KeepsJoins(H, Seq(S), S)
  <2>1. \A a \in Seq(Seq(S)) : FlattenSeq(a) \in Seq(S)
    BY FlattenHolds
  <2>2. H \in [Seq(Seq(S)) -> Seq(S)]
    BY <2>1
  <2>3. H[<<>>] = <<>>
    BY DEF FlattenSeq
  <2>4. ASSUME NEW a \in Seq(Seq(S)), NEW b \in Seq(Seq(S)) PROVE H[a \o b] = H[a] \o H[b]
    <3>1. a \o b \in Seq(Seq(S))
      BY ConcatProperties
    <3>2. FlattenSeq(a \o b) = FlattenSeq(a) \o FlattenSeq(b)
      BY FlattenConcat
    <3>3. QED
      BY <3>1, <3>2
  <2>5. QED
    BY <2>2, <2>3, <2>4 DEF KeepsJoins
<1>12. \A a \in Seq(Seq(S)) : H[a] = FlattenSeq(a)
  OBVIOUS
<1> HIDE DEF H
<1>13. H[FlattenSeq(pieces)] = FlattenSeq([c \in 1 .. Len(pieces) |-> H[pieces[c]]])
  <2>1. pieces \in Seq(Seq(Seq(S)))
    BY <1>9
  <2> QED BY ONLY <1>11, <2>1, JoinByParts
<1>14. [c \in 1 .. Len(pieces) |-> H[pieces[c]]] = [c \in DOMAIN chunks |-> Segments(d, chunks[c])]
  BY <1>2, <1>8, <1>9, <1>12
<1>15. FlatSegments(d) = FlattenSeq(all)
  <2>1. FlatSegments(d) = FlattenSeq([c \in DOMAIN chunks |-> Segments(d, chunks[c])])
    BY DEF FlatSegments
  <2> HIDE DEF chunks
  <2>2. QED
    BY <1>5, <1>10, <1>12, <1>13, <1>14, <2>1
<1>16. QED
  BY <1>4, <1>5, <1>15

-----------------------------------------------------------------------------
(* Where the segments of a unit begin: nowhere if it was bridged into, and *)
(* else where its slices do.                                               *)
LEMMA PartStarts ==
  ASSUME NEW d \in Seq(Char), NEW us \in Seq(Wide(Len(d))), NEW k \in 1 .. Len(us)
  PROVE  SegmentStarts(Part(d, us, k)) =
           IF Bridges(d, us, k - 1) THEN {} ELSE SegmentStarts(ChunkSpan(us[k]))
<1>1. Len(us) \in Nat /\ Len(d) \in Nat /\ us[k] \in Wide(Len(d)) /\ (k - 1) + 1 = k
  OBVIOUS
<1>2. CASE Bridges(d, us, k)
  <2>1. Bytes(d, us[k]) = <<Space>>
    BY <1>2 DEF Bridges
  <2>2. d[us[k].start + 1] = Space /\ us[k].end = us[k].start + 1 /\ us[k].start \in Nat
    BY <1>1, <2>1, SpaceIs
  <2>3. ~ Bridges(d, us, k - 1)
    BY <1>1, <2>2 DEF Bridges, Space, Letter, Underscore
  <2>4. ~ RequiresSplit(us[k])
    BY <2>2, SegmentConstants DEF RequiresSplit, Size
  <2>5. ChunkSpan(us[k]) = <<us[k]>>
    BY <1>1, <2>4, SlicesRun
  <2>6. SegmentStarts(<<us[k]>>) = {us[k].start}
    BY DEF SegmentStarts, ToSet
  <2> DEFINE e == us[k + 1].end
             a == us[k].start
  <2>7. Part(d, us, k) = <<[start |-> a, end |-> e]>>
    BY <1>2 DEF Part
  <2> HIDE DEF e, a
  <2>8. SegmentStarts(<<[start |-> a, end |-> e]>>) = {a}
    BY DEF SegmentStarts, ToSet
  <2>9. QED
    BY <2>3, <2>5, <2>6, <2>7, <2>8 DEF a
<1>3. CASE ~ Bridges(d, us, k) /\ Bridges(d, us, k - 1)
  <2>1. Part(d, us, k) = <<>>
    BY <1>3 DEF Part
  <2>2. SegmentStarts(<<>>) = {}
    BY DEF SegmentStarts, ToSet
  <2>3. QED
    BY <1>3, <2>1, <2>2
<1>4. CASE ~ Bridges(d, us, k) /\ ~ Bridges(d, us, k - 1)
  BY <1>4 DEF Part
<1>5. QED
  BY <1>2, <1>3, <1>4

(* Where the segments of units begin.                                      *)
LEMMA StartsAre ==
  ASSUME NEW d \in Seq(Char), NEW us \in Seq(Wide(Len(d))), InOrder(us)
  PROVE  \A i : i \in SegmentStarts(Segments(d, us)) <=>
                  \E k \in 1 .. Len(us) : /\ ~ Bridges(d, us, k - 1)
                                          /\ i \in SegmentStarts(ChunkSpan(us[k]))
<1> DEFINE parts == [k \in 1 .. Len(us) |-> Part(d, us, k)]
           S == Spans(Len(d))
<1>1. Len(d) \in Nat /\ Len(us) \in Nat
  OBVIOUS
<1>2. parts \in Seq(Seq(S)) /\ Segments(d, us) = FlattenSeq(parts)
  BY <1>1, SegmentsAre
<1>3. Len(parts) = Len(us) /\ \A k \in 1 .. Len(us) : parts[k] = Part(d, us, k)
  BY <1>1
<1> HIDE DEF parts, S
<1>4. ToSet(Segments(d, us)) = UNION {ToSet(Part(d, us, k)) : k \in 1 .. Len(us)}
  <2>1. ToSet(FlattenSeq(parts)) = UNION {ToSet(parts[k]) : k \in 1 .. Len(parts)}
    BY <1>2, FlattenHolds
  <2>2. QED
    BY <1>2, <1>3, <2>1
<1>5. \A i : i \in SegmentStarts(Segments(d, us)) <=>
               \E k \in 1 .. Len(us) : i \in SegmentStarts(Part(d, us, k))
  BY <1>4 DEF SegmentStarts
<1>6. \A k \in 1 .. Len(us) :
        SegmentStarts(Part(d, us, k)) =
          IF Bridges(d, us, k - 1) THEN {} ELSE SegmentStarts(ChunkSpan(us[k]))
  BY PartStarts
<1>7. QED
  BY <1>5, <1>6

(* In reading order an earlier unit ends before a later one begins.        *)
LEMMA EndsBefore ==
  ASSUME NEW n \in Nat, NEW us \in Seq(Wide(n)), InOrder(us)
  PROVE  \A i, j \in 1 .. Len(us) : i < j => us[i].end <= us[j].start
<1> DEFINE m == Len(us)
<1>1. m \in Nat /\ \A k \in 1 .. m : us[k].start \in Nat /\ us[k].end \in Nat /\ us[k].start < us[k].end
  <2>1. \A s \in Wide(n) : s.start \in Nat /\ s.end \in Nat /\ s.start < s.end
    BY DEF Wide, Spans
  <2>2. QED
    BY <2>1
<1>2. \A k \in 1 .. m - 1 : us[k].end = us[k + 1].start
  BY DEF InOrder
<1> SUFFICES ASSUME NEW i \in 1 .. m PROVE \A j \in 1 .. m : i < j => us[i].end <= us[j].start
  OBVIOUS
<1> DEFINE P == {j \in Nat : j \in 1 .. m /\ i < j => us[i].end <= us[j].start}
<1> HIDE DEF m
<1>3. 0 \in P
  OBVIOUS
<1>4. ASSUME NEW j \in Nat, j \in P PROVE j + 1 \in P
  <2> SUFFICES ASSUME j + 1 \in 1 .. m, i < j + 1 PROVE us[i].end <= us[j + 1].start
    OBVIOUS
  <2>1. j \in 1 .. m - 1 /\ j \in 1 .. m
    BY <1>1
  <2>2. us[j].end = us[j + 1].start /\ us[j].start < us[j].end /\ us[j].start \in Nat /\ us[j].end \in Nat
        /\ us[i].end \in Nat
    BY <1>1, <1>2, <2>1
  <2>3. CASE i = j
    BY <2>2, <2>3
  <2>4. CASE i < j
    <3>1. us[i].end <= us[j].start
      BY <1>4, <2>1, <2>4
    <3>2. us[i].end <= us[j].end
      BY <2>2, <3>1
    <3>3. QED
      BY <2>2, <3>2
  <2>5. QED
    BY <1>1, <2>3, <2>4
<1>5. Nat \subseteq P
  <2> HIDE DEF P
  <2> QED BY <1>3, <1>4, NatSetInduction
<1>6. QED
  BY <1>1, <1>5 DEF m

(* So the unit that begins where another ends is the next one.             *)
LEMMA EndsAtNext ==
  ASSUME NEW n \in Nat, NEW us \in Seq(Wide(n)), InOrder(us),
         NEW i \in 1 .. Len(us), NEW j \in 1 .. Len(us), us[i].end = us[j].start
  PROVE  j = i + 1
<1> DEFINE m == Len(us)
<1>1. m \in Nat /\ \A k \in 1 .. m : us[k].start \in Nat /\ us[k].end \in Nat /\ us[k].start < us[k].end
  <2>1. \A s \in Wide(n) : s.start \in Nat /\ s.end \in Nat /\ s.start < s.end
    BY DEF Wide, Spans
  <2>2. QED
    BY <2>1
<1>2. \A p, q \in 1 .. m : p < q => us[p].end <= us[q].start
  BY EndsBefore
<1> HIDE DEF m
<1>3. i \in 1 .. m /\ j \in 1 .. m
  BY DEF m
<1>4. ~ (j <= i)
  <2> SUFFICES ASSUME j <= i PROVE FALSE
    OBVIOUS
  <2>1. CASE j = i
    BY <1>1, <1>3, <2>1
  <2>2. CASE j < i
    <3>1. us[j].end <= us[i].start /\ us[i].start < us[i].end /\ us[j].start < us[j].end
          /\ us[i].start \in Nat /\ us[i].end \in Nat /\ us[j].start \in Nat /\ us[j].end \in Nat
      BY <1>1, <1>2, <1>3, <2>2
    <3>2. QED
      BY <3>1
  <2>3. QED
    BY <1>1, <1>3, <2>1, <2>2
<1>5. ~ (i + 1 < j)
  <2> SUFFICES ASSUME i + 1 < j PROVE FALSE
    OBVIOUS
  <2> DEFINE p == i + 1
  <2>1. p \in 1 .. m /\ i < p /\ p < j
    BY <1>1, <1>3
  <2> HIDE DEF p
  <2>2. /\ us[i].end <= us[p].start /\ us[p].start < us[p].end /\ us[p].end <= us[j].start
        /\ us[p].start \in Nat /\ us[p].end \in Nat /\ us[j].start \in Nat /\ us[i].end \in Nat
    BY <1>1, <1>2, <1>3, <2>1
  <2>3. QED
    BY <2>2
<1>6. QED
  BY <1>1, <1>3, <1>4, <1>5

(* Where the reference's segments begin: at each slice no space reaches.   *)
LEMMA RichStarts ==
  ASSUME NEW d \in Seq(Char), NEW us, us = Sliced(Units(d))
  PROVE  \A i : i \in SegmentStarts(RichSegments(d)) <=>
                  \E j \in 1 .. Len(us) : ~ Bridges(d, us, j - 1) /\ i = us[j].start
<1>1. Ordered(d, us) /\ RichSegments(d) = Segments(d, us)
  BY RichAre
<1>2. us \in Seq(Wide(Len(d))) /\ InOrder(us) /\ Len(d) \in Nat
  BY <1>1 DEF Ordered
<1>3. \A j \in 1 .. Len(us) : ~ RequiresSplit(us[j])
  BY UnitsOrdered, SlicedOrdered
<1>4. ASSUME NEW j \in 1 .. Len(us) PROVE SegmentStarts(ChunkSpan(us[j])) = {us[j].start}
  <2>1. us[j] \in Wide(Len(d))
    BY <1>2
  <2>2. ChunkSpan(us[j]) = <<us[j]>>
    BY <1>2, <1>3, <2>1, SlicesRun
  <2>3. SegmentStarts(<<us[j]>>) = {us[j].start}
    BY DEF SegmentStarts, ToSet
  <2>4. QED
    BY <2>2, <2>3
<1>5. \A i : i \in SegmentStarts(Segments(d, us)) <=>
               \E k \in 1 .. Len(us) : ~ Bridges(d, us, k - 1) /\ i \in SegmentStarts(ChunkSpan(us[k]))
  BY <1>2, StartsAre
<1>6. \A j \in 1 .. Len(us) : \A i : i \in SegmentStarts(ChunkSpan(us[j])) <=> i = us[j].start
  BY <1>4
<1>7. QED
  BY ONLY <1>1, <1>5, <1>6

(* Where the flat encoder's segments begin, chunk by chunk.                *)
LEMMA FlatStarts ==
  ASSUME NEW d \in Seq(Char), NEW chunks, chunks = Chunks(d),
         \A c \in 1 .. Len(chunks) : chunks[c] \in Seq(Wide(Len(d))) /\ InOrder(chunks[c]),
         Len(chunks) \in Nat, DOMAIN chunks = 1 .. Len(chunks)
  PROVE  \A i : i \in SegmentStarts(FlatSegments(d)) <=>
                  \E c \in 1 .. Len(chunks) : \E k \in 1 .. Len(chunks[c]) :
                    ~ Bridges(d, chunks[c], k - 1) /\ i \in SegmentStarts(ChunkSpan(chunks[c][k]))
<1> DEFINE S == Spans(Len(d))
           g == Len(chunks)
           segs == [c \in 1 .. g |-> Segments(d, chunks[c])]
<1>1. Len(d) \in Nat /\ g \in Nat
  OBVIOUS
<1>2. \A c \in 1 .. g : Segments(d, chunks[c]) \in Seq(S)
  BY <1>1, SegmentsAre
<1>3. segs \in Seq(Seq(S)) /\ Len(segs) = g /\ \A c \in 1 .. g : segs[c] = Segments(d, chunks[c])
  <2> DEFINE T == Seq(S)
             f(c) == Segments(d, chunks[c])
  <2>1. \A c \in 1 .. g : f(c) \in T
    BY <1>2
  <2> HIDE DEF T, f, g
  <2>2. [c \in 1 .. g |-> f(c)] \in Seq(T) /\ Len([c \in 1 .. g |-> f(c)]) = g
    BY <1>1, <2>1
  <2>3. QED
    BY <2>2 DEF T, f
<1>4. FlatSegments(d) = FlattenSeq(segs)
  BY DEF FlatSegments
<1> HIDE DEF segs, S, g
<1>5. ToSet(FlattenSeq(segs)) = UNION {ToSet(segs[c]) : c \in 1 .. Len(segs)}
  BY <1>3, FlattenHolds
<1>6. \A i : i \in SegmentStarts(FlatSegments(d)) <=>
               \E c \in 1 .. g : i \in SegmentStarts(Segments(d, chunks[c]))
  BY <1>3, <1>4, <1>5 DEF SegmentStarts
<1>7. ASSUME NEW c \in 1 .. g
      PROVE  \A i : i \in SegmentStarts(Segments(d, chunks[c])) <=>
                      \E k \in 1 .. Len(chunks[c]) :
                        ~ Bridges(d, chunks[c], k - 1) /\ i \in SegmentStarts(ChunkSpan(chunks[c][k]))
  <2> DEFINE chunk == chunks[c]
  <2>1. chunk \in Seq(Wide(Len(d))) /\ InOrder(chunk)
    BY <1>7 DEF g
  <2> HIDE DEF chunk
  <2>2. \A i : i \in SegmentStarts(Segments(d, chunk)) <=>
                 \E k \in 1 .. Len(chunk) :
                   ~ Bridges(d, chunk, k - 1) /\ i \in SegmentStarts(ChunkSpan(chunk[k]))
    BY <2>1, StartsAre
  <2>3. QED
    BY <2>2 DEF chunk
<1>8. QED
  BY <1>6, <1>7 DEF g

(* The slices of the units, and which unit each belongs to.                *)
LEMMA SliceStarts ==
  ASSUME NEW d \in Seq(Char), NEW us, us = Sliced(Units(d))
  PROVE  /\ us \in Seq(Wide(Len(d))) /\ InOrder(us)
         /\ \A j \in 1 .. Len(us) : ~ RequiresSplit(us[j])
         /\ \A j \in 1 .. Len(us) : \E i \in 1 .. Len(Units(d)) :
              us[j].start \in SegmentStarts(ChunkSpan(Units(d)[i]))
         /\ \A i \in 1 .. Len(Units(d)) :
              SegmentStarts(ChunkSpan(Units(d)[i])) \subseteq {us[j].start : j \in 1 .. Len(us)}
         /\ \A i \in 1 .. Len(Units(d)) :
              ~ RequiresSplit(Units(d)[i]) => \E j \in 1 .. Len(us) : us[j] = Units(d)[i]
<1> DEFINE units == Units(d)
           W == Wide(Len(d))
<1>1. Ordered(d, units) /\ Ordered(d, us) /\ \A j \in 1 .. Len(us) : ~ RequiresSplit(us[j])
  BY UnitsOrdered, SlicedOrdered
<1>2. units \in Seq(W) /\ us \in Seq(W) /\ InOrder(us) /\ Len(d) \in Nat
  BY <1>1 DEF Ordered
<1>3. ToSet(us) = UNION {ToSet(ChunkSpan(units[k])) : k \in 1 .. Len(units)}
  BY <1>1, SlicedOrdered
<1> HIDE DEF units, W
<1>4. ToSet(us) = {us[j] : j \in 1 .. Len(us)}
  <2>1. DOMAIN us = 1 .. Len(us)
    BY <1>2
  <2>2. QED
    BY <2>1 DEF ToSet
<1>5. ASSUME NEW j \in 1 .. Len(us)
      PROVE  \E i \in 1 .. Len(units) : us[j].start \in SegmentStarts(ChunkSpan(units[i]))
  <2>1. us[j] \in ToSet(us)
    BY <1>4
  <2>2. PICK i \in 1 .. Len(units) : us[j] \in ToSet(ChunkSpan(units[i]))
    BY <1>3, <2>1
  <2>3. us[j].start \in SegmentStarts(ChunkSpan(units[i]))
    BY <2>2 DEF SegmentStarts
  <2>4. QED
    BY <2>3
<1>6. ASSUME NEW i \in 1 .. Len(units), NEW s \in SegmentStarts(ChunkSpan(units[i]))
      PROVE  \E j \in 1 .. Len(us) : s = us[j].start
  <2>1. PICK slice \in ToSet(ChunkSpan(units[i])) : s = slice.start
    BY DEF SegmentStarts
  <2>2. slice \in ToSet(us)
    BY <1>3, <2>1
  <2>3. PICK j \in 1 .. Len(us) : slice = us[j]
    BY <1>4, <2>2
  <2>4. QED
    BY <2>1, <2>3
<1> DEFINE starts == {us[j].start : j \in 1 .. Len(us)}
<1>7. \A i \in 1 .. Len(units) : SegmentStarts(ChunkSpan(units[i])) \subseteq starts
  BY <1>6
<1>8. ASSUME NEW i \in 1 .. Len(units), ~ RequiresSplit(units[i])
      PROVE  \E j \in 1 .. Len(us) : us[j] = units[i]
  <2>1. units[i] \in W
    BY <1>2
  <2>2. ChunkSpan(units[i]) = <<units[i]>>
    BY <1>2, <1>8, <2>1, SlicesRun DEF W
  <2>3. units[i] \in ToSet(<<units[i]>>)
    BY DEF ToSet
  <2>4. units[i] \in ToSet(us)
    BY <1>3, <2>2, <2>3
  <2>5. QED
    BY <1>4, <2>4
<1>9. QED
  BY <1>1, <1>2, <1>5, <1>7, <1>8 DEF units, W

(* What a bridge says of the two units, each a slice of its own.           *)
LEMMA BridgeIs ==
  ASSUME NEW d \in Seq(Char), NEW us \in Seq(Wide(Len(d))), InOrder(us), NEW p, Bridges(d, us, p)
  PROVE  /\ p \in 1 .. Len(us) /\ p + 1 \in 1 .. Len(us)
         /\ d[us[p].start + 1] = Space /\ us[p].end = us[p].start + 1
         /\ us[p].end = us[p + 1].start /\ us[p].start \in Nat
         /\ d[us[p + 1].start + 1] \in {Letter, Underscore}
         /\ ~ RequiresSplit(us[p]) /\ ~ RequiresSplit(us[p + 1])
<1>1. /\ p \in 1 .. Len(us) - 1 /\ Bytes(d, us[p]) = <<Space>>
      /\ d[us[p + 1].start + 1] \in {Letter, Underscore} /\ ~ RequiresSplit(us[p + 1])
  BY DEF Bridges
<1>2. Len(us) \in Nat
  OBVIOUS
<1>3. p \in 1 .. Len(us) /\ p + 1 \in 1 .. Len(us)
  BY <1>1, <1>2
<1>4. us[p].end = us[p + 1].start /\ us[p] \in Wide(Len(d))
  BY <1>1, <1>3 DEF InOrder
<1>5. d[us[p].start + 1] = Space /\ us[p].end = us[p].start + 1 /\ us[p].start \in Nat
  BY <1>1, <1>4, SpaceIs
<1>6. ~ RequiresSplit(us[p])
  BY <1>5, SegmentConstants DEF RequiresSplit, Size
<1>7. QED
  BY <1>1, <1>3, <1>4, <1>5, <1>6

(* Every cut of the reference is one of the flat encoder: a space that     *)
(* reaches a word inside a chunk reaches it in the document too.           *)
LEMMA RichCutsFlat ==
  ASSUME NEW d \in Seq(Char)
  PROVE  SegmentStarts(RichSegments(d)) \subseteq SegmentStarts(FlatSegments(d))
<1> DEFINE n == Len(d)
           units == Units(d)
           chunks == Chunks(d)
           us == Sliced(units)
<1>1. PICK x, m, y, g : ChunkedAt(d, x, m, y, g)
  BY ChunkedExists
<1>2. /\ m \in Nat /\ g \in Nat /\ Len(units) = m /\ Len(chunks) = g
      /\ DOMAIN chunks = 1 .. g
      /\ \A c \in 1 .. g :
           /\ y[c - 1] \in 0 .. m /\ y[c] \in 0 .. m /\ y[c - 1] < y[c]
           /\ chunks[c] \in Seq(Wide(n)) /\ InOrder(chunks[c])
           /\ Len(chunks[c]) = y[c] - y[c - 1]
           /\ \A k \in 1 .. y[c] - y[c - 1] : chunks[c][k] = units[y[c - 1] + k]
      /\ \A i \in 1 .. m : \E c \in 1 .. g : i \in y[c - 1] + 1 .. y[c]
  BY <1>1, ChunkMembers
<1>3. n \in Nat /\ us \in Seq(Wide(n)) /\ InOrder(us)
  BY SliceStarts
<1>4. \A i : i \in SegmentStarts(RichSegments(d)) <=>
               \E j \in 1 .. Len(us) : ~ Bridges(d, us, j - 1) /\ i = us[j].start
  BY RichStarts
<1>5. \A i : i \in SegmentStarts(FlatSegments(d)) <=>
               \E c \in 1 .. Len(chunks) : \E k \in 1 .. Len(chunks[c]) :
                 ~ Bridges(d, chunks[c], k - 1) /\ i \in SegmentStarts(ChunkSpan(chunks[c][k]))
  BY <1>2, FlatStarts
<1>6. \A j \in 1 .. Len(us) : \E i \in 1 .. Len(units) :
        us[j].start \in SegmentStarts(ChunkSpan(units[i]))
  BY SliceStarts
<1>7. \A i \in 1 .. Len(units) : ~ RequiresSplit(units[i]) => \E j \in 1 .. Len(us) : us[j] = units[i]
  BY SliceStarts
<1>8. n \in Nat /\ units \in Seq(Wide(n)) /\ InOrder(units)
  BY UnitsAreWide, UnitsInOrder
<1> SUFFICES ASSUME NEW s \in SegmentStarts(RichSegments(d))
             PROVE  s \in SegmentStarts(FlatSegments(d))
  OBVIOUS
<1> HIDE DEF units, chunks, us, n
<1>9. PICK j \in 1 .. Len(us) : ~ Bridges(d, us, j - 1) /\ s = us[j].start
  BY <1>4
<1>10. PICK i \in 1 .. m : s \in SegmentStarts(ChunkSpan(units[i]))
  BY <1>2, <1>6, <1>9
<1>11. PICK c \in 1 .. g : i \in y[c - 1] + 1 .. y[c]
  BY <1>2
<1> DEFINE a == y[c - 1]
           l == y[c] - a
           k == i - a
           chunk == chunks[c]
<1>12. /\ chunk \in Seq(Wide(n)) /\ InOrder(chunk) /\ Len(chunk) = l
       /\ \A r \in 1 .. l : chunk[r] = units[a + r]
       /\ a \in Nat /\ l \in Nat /\ a + l \in 0 .. m
  <2> DEFINE b == y[c]
  <2>1. a \in 0 .. m /\ b \in 0 .. m /\ a < b /\ m \in Nat
    BY <1>2
  <2>2. /\ chunk \in Seq(Wide(n)) /\ InOrder(chunk) /\ Len(chunk) = l
        /\ \A r \in 1 .. l : chunk[r] = units[a + r]
    BY <1>2
  <2> HIDE DEF a, b, chunk
  <2>3. a \in Nat /\ l \in Nat /\ a + l \in 0 .. m
    BY <2>1 DEF b
  <2>4. QED
    BY <2>2, <2>3
<1>13. k \in 1 .. l /\ a + k = i
  <2> DEFINE b == y[c]
  <2>1. a \in 0 .. m /\ b \in 0 .. m /\ m \in Nat
    BY <1>2
  <2>2. i \in a + 1 .. b
    BY <1>11
  <2> HIDE DEF a, b
  <2>3. QED
    BY <2>1, <2>2 DEF b
<1> HIDE DEF a, l, k, chunk
<1>14. chunk[k] = units[i]
  BY <1>12, <1>13
<1>15. ~ Bridges(d, chunk, k - 1)
  <2> SUFFICES ASSUME Bridges(d, chunk, k - 1) PROVE FALSE
    OBVIOUS
  <2> DEFINE p == k - 1
  <2>1. /\ chunk[p].end = chunk[p + 1].start /\ p \in 1 .. Len(chunk)
        /\ d[chunk[p].start + 1] = Space /\ Bytes(d, chunk[p]) = <<Space>>
        /\ d[chunk[p + 1].start + 1] \in {Letter, Underscore}
        /\ ~ RequiresSplit(chunk[p]) /\ ~ RequiresSplit(chunk[p + 1])
    <3>1. chunk \in Seq(Wide(Len(d))) /\ InOrder(chunk) /\ Bridges(d, chunk, p)
      BY <1>12 DEF n
    <3>2. Bytes(d, chunk[p]) = <<Space>>
      BY <3>1 DEF Bridges
    <3> HIDE DEF p
    <3>3. QED
      BY <3>1, <3>2, BridgeIs
  <2>2. p + 1 = k /\ p \in 1 .. l /\ a + p \in 1 .. m
    BY <1>2, <1>12, <1>13, <2>1
  <2> HIDE DEF p
  <2>3. chunk[p] = units[a + p]
    BY <1>12, <2>2
  <2>4. PICK q \in 1 .. Len(us) : us[q] = chunk[p]
    BY <1>2, <1>7, <2>1, <2>2, <2>3
  <2>5. i \in 1 .. Len(units) /\ chunk[p + 1] = units[i] /\ ~ RequiresSplit(units[i])
    BY <1>2, <1>14, <2>1, <2>2
  <2>6. PICK r \in 1 .. Len(us) : us[r] = chunk[k]
    BY <1>7, <1>14, <2>5
  <2>7. r = q + 1
    <3>1. us[q].end = us[r].start
      BY <2>1, <2>2, <2>4, <2>6
    <3>2. QED
      BY <1>3, <3>1, EndsAtNext
  <2>8. Len(us) \in Nat /\ q \in 1 .. Len(us) - 1
    BY <1>3, <2>7
  <2>9. Bridges(d, us, q)
    <3>1. /\ Bytes(d, us[q]) = <<Space>> /\ d[us[r].start + 1] \in {Letter, Underscore}
          /\ ~ RequiresSplit(us[r])
      BY <2>1, <2>2, <2>4, <2>6
    <3>2. QED
      BY <2>7, <2>8, <3>1 DEF Bridges
  <2>10. us[j].start = us[r].start
    <3>1. units[i] \in Wide(n) /\ ~ RequiresSplit(units[i])
      BY <1>8, <2>5
    <3>2. ChunkSpan(units[i]) = <<units[i]>>
      BY <1>8, <3>1, SlicesRun
    <3>3. SegmentStarts(<<units[i]>>) = {units[i].start}
      BY DEF SegmentStarts, ToSet
    <3>4. QED
      BY <1>9, <1>10, <1>14, <2>6, <3>2, <3>3
  <2>11. j = r
    <3>1. us[q].end = us[j].start
      BY <2>1, <2>2, <2>4, <2>6, <2>10
    <3>2. j = q + 1
      BY <1>3, <3>1, EndsAtNext
    <3>3. QED
      BY <2>7, <3>2
  <2>12. j - 1 = q
    BY <2>7, <2>8, <2>11
  <2>13. QED
    BY <1>9, <2>9, <2>12
<1>16. QED
  <2>1. /\ c \in 1 .. Len(chunks) /\ k \in 1 .. Len(chunk)
        /\ ~ Bridges(d, chunk, k - 1) /\ s \in SegmentStarts(ChunkSpan(chunk[k]))
    BY <1>2, <1>10, <1>12, <1>13, <1>14, <1>15
  <2>2. QED
    BY <1>5, <2>1 DEF chunk

(* And a cut the reference does not make is right after a leading space,   *)
(* where the reference does begin a segment.                               *)
LEMMA FlatCutsRich ==
  ASSUME NEW d \in Seq(Char),
         NEW cut \in SegmentStarts(FlatSegments(d)) \ SegmentStarts(RichSegments(d))
  PROVE  /\ d[cut] = Space /\ d[cut + 1] \in {Letter, Underscore}
         /\ cut - 1 \in SegmentStarts(RichSegments(d))
<1> DEFINE n == Len(d)
           units == Units(d)
           chunks == Chunks(d)
           us == Sliced(units)
<1>1. PICK x, m, y, g : ChunkedAt(d, x, m, y, g)
  BY ChunkedExists
<1>2. /\ m \in Nat /\ g \in Nat /\ Len(units) = m /\ Len(chunks) = g
      /\ DOMAIN chunks = 1 .. g
      /\ \A c \in 1 .. g :
           /\ y[c - 1] \in 0 .. m /\ y[c] \in 0 .. m /\ y[c - 1] < y[c]
           /\ chunks[c] \in Seq(Wide(n)) /\ InOrder(chunks[c])
           /\ Len(chunks[c]) = y[c] - y[c - 1]
           /\ \A k \in 1 .. y[c] - y[c - 1] : chunks[c][k] = units[y[c - 1] + k]
  BY <1>1, ChunkMembers
<1>3. n \in Nat /\ us \in Seq(Wide(n)) /\ InOrder(us)
  BY SliceStarts
<1>4. \A i : i \in SegmentStarts(RichSegments(d)) <=>
               \E j \in 1 .. Len(us) : ~ Bridges(d, us, j - 1) /\ i = us[j].start
  BY RichStarts
<1>5. \A i : i \in SegmentStarts(FlatSegments(d)) <=>
               \E c \in 1 .. Len(chunks) : \E k \in 1 .. Len(chunks[c]) :
                 ~ Bridges(d, chunks[c], k - 1) /\ i \in SegmentStarts(ChunkSpan(chunks[c][k]))
  BY <1>2, FlatStarts
<1>6. \A i \in 1 .. Len(units) :
        SegmentStarts(ChunkSpan(units[i])) \subseteq {us[j].start : j \in 1 .. Len(us)}
  BY SliceStarts, ZenonT(30)
<1> HIDE DEF units, chunks, us, n
<1>7. PICK c \in 1 .. g : \E k \in 1 .. Len(chunks[c]) : cut \in SegmentStarts(ChunkSpan(chunks[c][k]))
  BY <1>2, <1>5
<1>8. PICK k \in 1 .. Len(chunks[c]) : cut \in SegmentStarts(ChunkSpan(chunks[c][k]))
  BY <1>7
<1>9. PICK j \in 1 .. Len(us) : cut = us[j].start
  <2> DEFINE i == y[c - 1] + k
  <2>1. chunks[c][k] = units[i] /\ i \in 1 .. m
    <3>1. /\ y[c - 1] \in 0 .. m /\ y[c] \in 0 .. m /\ y[c - 1] < y[c] /\ k \in 1 .. y[c] - y[c - 1]
      BY <1>2, <1>8
    <3>2. y[c - 1] + k \in 1 .. m
      <4> DEFINE u == y[c - 1]
                 t == y[c]
      <4>1. u \in 0 .. m /\ t \in 0 .. m /\ k \in 1 .. t - u /\ m \in Nat
        BY <1>2, <3>1
      <4> HIDE DEF u, t
      <4>2. u + k \in 1 .. m
        BY <4>1
      <4>3. QED
        BY <4>2 DEF u
    <3>3. QED
      BY <1>2, <3>1, <3>2
  <2> HIDE DEF i
  <2>2. QED
    BY <1>2, <1>6, <1>8, <2>1
<1> DEFINE p == j - 1
<1>10. Bridges(d, us, p)
  BY <1>4, <1>9
<1>11. Len(us) \in Nat /\ p + 1 = j
  BY <1>3
<1> HIDE DEF p
<1>12. /\ p \in 1 .. Len(us) /\ d[us[p].start + 1] = Space /\ us[p].end = us[p].start + 1
       /\ us[p].end = us[p + 1].start /\ us[p].start \in Nat
       /\ d[us[p + 1].start + 1] \in {Letter, Underscore}
  <2>1. us \in Seq(Wide(Len(d))) /\ InOrder(us) /\ Bridges(d, us, p)
    BY <1>3, <1>10 DEF n
  <2>2. QED
    BY <2>1, BridgeIs
<1>13. us[p].start + 1 = cut /\ d[cut + 1] \in {Letter, Underscore} /\ us[p].start = cut - 1
  BY <1>9, <1>11, <1>12
<1>14. ~ Bridges(d, us, p - 1)
  <2> SUFFICES ASSUME Bridges(d, us, p - 1) PROVE FALSE
    OBVIOUS
  <2> DEFINE r == p - 1
  <2>1. us \in Seq(Wide(Len(d))) /\ InOrder(us) /\ Bridges(d, us, r) /\ r + 1 = p
    BY <1>3, <1>11, <1>12 DEF n
  <2> HIDE DEF r
  <2>2. d[us[r + 1].start + 1] \in {Letter, Underscore}
    BY <2>1, BridgeIs
  <2>3. QED
    <3>1. d[us[p].start + 1] = Space /\ d[us[p].start + 1] \in {Letter, Underscore}
      BY <1>12, <2>1, <2>2
    <3>2. QED
      BY <3>1 DEF Space, Letter, Underscore
<1>15. QED
  BY <1>4, <1>12, <1>13, <1>14

-----------------------------------------------------------------------------
(* What the segmentations have in common, whatever document is explored.   *)
ParityInv ==
  /\ document \in Seq(Char)
  /\ richSegments = RichSegments(document)
  /\ flatSegments = FlatSegments(document)

(* An empty document has no segments.                                      *)
LEMMA NoSegments ==
  ASSUME NEW d \in Seq(Char), Len(d) = 0
  PROVE  RichSegments(d) = <<>> /\ FlatSegments(d) = <<>>
<1> DEFINE units == Units(d)
           us == Sliced(units)
<1>1. FlattenSeq(<<>>) = <<>>
  <2>1. <<>> \in Seq(Seq(Char)) /\ Len(<<>>) = 0
    OBVIOUS
  <2>2. QED
    BY <2>1, FlattenNone
<1>2. Wide(Len(d)) = {}
  BY DEF Wide, Spans
<1>3. \A s \in Seq({}) : Len(s) = 0 /\ s = <<>>
  <2>1. \A s \in Seq({}) : Len(s) \in Nat /\ \A k \in 1 .. Len(s) : s[k] \in {}
    OBVIOUS
  <2>2. \A s \in Seq({}) : Len(s) = 0
    <3> SUFFICES ASSUME NEW s \in Seq({}) PROVE Len(s) = 0
      OBVIOUS
    <3>1. Len(s) \in Nat /\ ~ (1 \in 1 .. Len(s))
      BY <2>1
    <3>2. QED
      BY <3>1
  <2>3. QED
    BY <2>2
<1>4. RichSegments(d) = <<>>
  <2>1. us \in Seq({}) /\ InOrder(us) /\ RichSegments(d) = Segments(d, us)
    BY <1>2, RichAre DEF Ordered
  <2> HIDE DEF us
  <2>2. us = <<>>
    BY <1>3, <2>1
  <2>3. Segments(d, us) = FlattenSeq(<<>>)
    BY <2>2 DEF Segments
  <2>4. QED
    BY <2>1, <2>3, <1>1
<1>5. FlatSegments(d) = <<>>
  <2>1. PICK x, m, y, g : ChunkedAt(d, x, m, y, g)
    BY ChunkedExists
  <2>2. /\ g \in Nat /\ DOMAIN Chunks(d) = 1 .. g /\ Len(units) = m
        /\ \A c \in 1 .. g : y[c - 1] \in 0 .. m /\ y[c] \in 0 .. m /\ y[c - 1] < y[c]
    <3>1. d \in Seq(Char) /\ ChunkedAt(d, x, m, y, g)
      BY <2>1
    <3>2. g \in Nat /\ DOMAIN Chunks(d) = 1 .. g /\ Len(Units(d)) = m
      BY ONLY <3>1, ChunkMembers
    <3>3. \A c \in 1 .. g : y[c - 1] \in 0 .. m /\ y[c] \in 0 .. m /\ y[c - 1] < y[c]
      BY ONLY <3>1, ChunkMembers
    <3>4. QED
      BY <3>2, <3>3
  <2>3. m = 0
    <3>1. units \in Seq({})
      BY <1>2, UnitsAreWide
    <3>2. QED
      BY <1>3, <2>2, <3>1
  <2>4. \A c \in 1 .. g : FALSE
    BY <2>2, <2>3
  <2>5. g = 0
    <3>1. ~ (1 \in 1 .. g)
      BY <2>4
    <3>2. QED
      BY <2>2, <3>1
  <2>6. FlatSegments(d) = FlattenSeq(<<>>)
    BY <2>2, <2>5 DEF FlatSegments
  <2>7. QED
    BY <1>1, <2>6
<1>6. QED
  BY <1>4, <1>5

(* The segmentations on record are those of the document.                  *)
LEMMA SpecParityInv == ParitySpec => []ParityInv
<1>1. ParityInit => ParityInv
  <2>1. <<>> \in Seq(Char) /\ Len(<<>>) = 0
    OBVIOUS
  <2>2. QED
    BY <2>1, NoSegments DEF ParityInit, ParityInv
<1>2. ParityInv /\ [ParityNext]_parityVars => ParityInv'
  <2> SUFFICES ASSUME ParityInv, [ParityNext]_parityVars
               PROVE  ParityInv'
    OBVIOUS
  <2>1. ASSUME NEW char \in Char, Extend(char) PROVE ParityInv'
    <3>1. document \in Seq(Char) /\ document' = Append(document, char)
      BY <2>1 DEF ParityInv, Extend
    <3>2. document' \in Seq(Char)
      BY <3>1
    <3>3. QED
      BY <2>1, <3>2 DEF ParityInv, Extend
  <2>2. CASE UNCHANGED parityVars
    BY <2>2 DEF ParityInv, parityVars
  <2>3. QED
    BY <2>1, <2>2 DEF ParityNext
<1>3. QED
  BY <1>1, <1>2, PTL DEF ParitySpec

(* For every length explored and every vocabulary: whichever of the two    *)
(* cuts the document, its IDs decode to it and their lengths add up.       *)
THEOREM SegmentationsRoundTrip == ParitySpec => []RoundTrips
<1>1. ParityInv => RoundTrips
  <2> SUFFICES ASSUME ParityInv, NEW v \in Vocabularies, NEW segments \in {richSegments, flatSegments}
               PROVE  RoundTrip(v, document, EncodeSegments(v, document, segments))
    BY DEF RoundTrips, RoundTrip
  <2>1. IsVocabulary(v) /\ document \in Seq(Char)
    BY VocabularyConstants DEF ParityInv
  <2>2. /\ RoundTrip(v, document, EncodeSegments(v, document, RichSegments(document)))
        /\ RoundTrip(v, document, EncodeSegments(v, document, FlatSegments(document)))
    BY <2>1, BothRoundTrip
  <2>3. segments = RichSegments(document) \/ segments = FlatSegments(document)
    BY DEF ParityInv
  <2>4. QED
    BY <2>2, <2>3
<1>2. QED
  BY <1>1, SpecParityInv, PTL

(* For all limits: without a full chunk and without a unit to split the    *)
(* two segmentations are one.                                              *)
THEOREM SegmentationsAgreeWithinLimits == ParitySpec => []ParityWithinLimits
<1>1. ParityInv => ParityWithinLimits
  <2> SUFFICES ASSUME ParityInv,
                      \A k \in DOMAIN Units(document) : ~ RequiresSplit(Units(document)[k]),
                      \A c \in DOMAIN Chunks(document) : Len(Chunks(document)[c]) < MaxChunkUnits
               PROVE  flatSegments = richSegments
    BY DEF ParityWithinLimits
  <2>1. document \in Seq(Char)
    BY DEF ParityInv
  <2>2. PICK x, m, y, g : ChunkedAt(document, x, m, y, g)
    BY <2>1, ChunkedExists
  <2>3. DOMAIN Chunks(document) = 1 .. Len(Chunks(document))
    BY <2>1, <2>2, ChunkMembers
  <2>4. DOMAIN Units(document) = 1 .. Len(Units(document))
    BY <2>1, UnitsAreWide
  <2>5. FlatSegments(document) = RichSegments(document)
    BY <2>1, <2>3, <2>4, AlikeWithinLimits
  <2>6. QED
    BY <2>5 DEF ParityInv
<1>2. QED
  BY <1>1, SpecParityInv, PTL

(* For all limits: where the two differ the flat encoder lost a bridge and *)
(* nothing else, one reference segment cut right after its leading space.  *)
THEOREM FlatEncoderOnlyLosesBridges == ParitySpec => []FlatOnlyLosesBridges
<1>1. ParityInv => FlatOnlyLosesBridges
  BY RichCutsFlat, FlatCutsRich DEF ParityInv, FlatOnlyLosesBridges
<1>2. QED
  BY <1>1, SpecParityInv, PTL

=============================================================================
