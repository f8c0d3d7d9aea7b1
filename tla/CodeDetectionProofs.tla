------------------------- MODULE CodeDetectionProofs -------------------------
(***************************************************************************)
(* Theorems about CodeDetection, for documents of any length over any      *)
(* characters.  First the scan: a unit is a run of steps, and what its     *)
(* steps look at beyond the unit never decides how far they go, so that    *)
(* the bytes of the unit alone are scanned to the same unit.  Then the     *)
(* detection: the lines tile a document, blocks are runs of lines, and     *)
(* merging never bridges the gap between two blocks, so that what keeps a  *)
(* line of prose out of the blocks keeps it out of the spans.  Last the    *)
(* hints: what the byte scan accepts as an artifact leaves a unit that     *)
(* gives it away, and the tracker of units is told of each of those.       *)
(***************************************************************************)
EXTENDS CodeDetection, TokenizerLemmas

(* A run over n characters: it ends at the first step of zero.             *)
IsRun(f, n, step) ==
  /\ f \in [1 .. n + 2 -> Nat]
  /\ \A j \in 1 .. n + 2 : f[j] = IF j > n \/ step[j] = 0 THEN j ELSE f[j + step[j]]

(* Steps that do not leave the document. *)
StepsWithin(n, step) == \A j \in 1 .. n : step[j] \in Nat /\ j + step[j] <= n + 1

(* A run ends where it began or later, and no later than the document.     *)
LEMMA RunForward ==
  ASSUME NEW n \in Nat, NEW step, StepsWithin(n, step), NEW f, IsRun(f, n, step)
  PROVE  \A j \in 1 .. n + 1 : f[j] \in j .. n + 1
<1> DEFINE S == {k \in Nat : \A j \in 1 .. n + 1 : n + 1 - j <= k => f[j] \in j .. n + 1}
<1>1. \A j \in 1 .. n + 1 : f[j] = IF j > n \/ step[j] = 0 THEN j ELSE f[j + step[j]]
  BY DEF IsRun
<1>2. \A j \in 1 .. n : step[j] \in Nat /\ j + step[j] <= n + 1
  BY DEF StepsWithin
<1>3. 0 \in S
  <2> SUFFICES ASSUME NEW j \in 1 .. n + 1, n + 1 - j <= 0 PROVE f[j] \in j .. n + 1
    OBVIOUS
  <2>1. j = n + 1
    OBVIOUS
  <2>2. f[j] = j
    BY <1>1, <2>1
  <2>3. QED
    BY <2>1, <2>2
<1>4. \A k \in Nat : k \in S => k + 1 \in S
  <2> SUFFICES ASSUME NEW k \in Nat, k \in S, NEW j \in 1 .. n + 1, n + 1 - j <= k + 1
               PROVE  f[j] \in j .. n + 1
    OBVIOUS
  <2>1. CASE j > n \/ step[j] = 0
    <3>1. f[j] = j
      BY <1>1, <2>1
    <3>2. QED
      BY <3>1
  <2>2. CASE ~ (j > n \/ step[j] = 0)
    <3> DEFINE next == j + step[j]
    <3>1. next \in Nat /\ j < next /\ next <= n + 1
      BY <1>2, <2>2
    <3>2. f[j] = f[next]
      BY <1>1, <2>2
    <3> HIDE DEF next
    <3>3. next \in 1 .. n + 1 /\ n + 1 - next <= k
      BY <3>1
    <3>4. f[next] \in next .. n + 1
      BY <3>3
    <3>5. QED
      BY <3>1, <3>2, <3>4
  <2>3. QED
    BY <2>1, <2>2
<1>5. Nat \subseteq S
  <2> HIDE DEF S
  <2> QED BY <1>3, <1>4, NatSetInduction
<1> SUFFICES ASSUME NEW j \in 1 .. n + 1 PROVE f[j] \in j .. n + 1
  OBVIOUS
<1>6. n + 1 - j \in Nat
  OBVIOUS
<1>7. n + 1 - j \in S
  BY <1>5, <1>6
<1>8. QED
  BY <1>7

(* There is such a run: it is built from the end of the document.          *)
LEMMA RunExists ==
  ASSUME NEW n \in Nat, NEW step, StepsWithin(n, step)
  PROVE  \E f : IsRun(f, n, step)
<1> DEFINE T == [1 .. n + 2 -> Nat]
           first == [j \in 1 .. n + 2 |-> j]
           next(g, p) == IF step[p] = 0 THEN p ELSE g[p + step[p]]
           Step == [z \in T \X (1 .. n) |->
                      [j \in 1 .. n + 2 |->
                         IF j = n + 1 - z[2] THEN next(z[1], j) ELSE z[1][j]]]
<1>1. \A j \in 1 .. n : step[j] \in Nat /\ j + step[j] <= n + 1
  BY DEF StepsWithin
<1>2. first \in T
  OBVIOUS
<1>3. Step \in [T \X (1 .. n) -> T]
  <2> SUFFICES ASSUME NEW g \in T, NEW k \in 1 .. n, NEW j \in 1 .. n + 2
               PROVE  (IF j = n + 1 - k THEN next(g, j) ELSE g[j]) \in Nat
    OBVIOUS
  <2>1. CASE j = n + 1 - k
    <3>1. j \in 1 .. n /\ step[j] \in Nat /\ j + step[j] \in 1 .. n + 2
      BY <1>1, <2>1
    <3>2. QED
      BY <2>1, <3>1
  <2>2. CASE j # n + 1 - k
    BY <2>2
  <2>3. QED
    BY <2>1, <2>2
<1> HIDE DEF T
<1>4. PICK h : IsRecursion(h, n, T, first, Step)
  <2> HIDE DEF Step, first
  <2> QED BY <1>2, <1>3, RecursionExists
<1>5. h \in [0 .. n -> T] /\ h[0] = first /\ \A k \in 1 .. n : h[k] = Step[<<h[k - 1], k>>]
  BY <1>4 DEF IsRecursion
<1>6. \A k \in 1 .. n : \A j \in 1 .. n + 2 :
        h[k][j] = IF j = n + 1 - k THEN next(h[k - 1], j) ELSE h[k - 1][j]
  <2> SUFFICES ASSUME NEW k \in 1 .. n, NEW j \in 1 .. n + 2
               PROVE  h[k][j] = IF j = n + 1 - k THEN next(h[k - 1], j) ELSE h[k - 1][j]
    OBVIOUS
  <2> DEFINE g == h[k - 1]
  <2>1. g \in T
    BY <1>5
  <2>2. h[k] = Step[<<g, k>>]
    BY <1>5
  <2> HIDE DEF g
  <2>3. Step[<<g, k>>][j] = IF j = n + 1 - k THEN next(g, j) ELSE g[j]
    BY <2>1
  <2>4. QED
    BY <2>2, <2>3 DEF g
<1> HIDE DEF Step
<1> DEFINE Right(k) == \A j \in 1 .. n + 2 :
             /\ j < n + 1 - k => h[k][j] = j
             /\ j >= n + 1 - k => h[k][j] = IF j > n THEN j ELSE next(h[k], j)
           S == {k \in Nat : k <= n => Right(k)}
<1>7. 0 \in S
  BY <1>5
<1>8. \A k \in Nat : k \in S => k + 1 \in S
  <2> SUFFICES ASSUME NEW k \in Nat, k \in S, k + 1 <= n PROVE Right(k + 1)
    OBVIOUS
  <2>1. Right(k) /\ k + 1 \in 1 .. n /\ (k + 1) - 1 = k
    OBVIOUS
  <2> DEFINE p == n + 1 - (k + 1)
  <2>2. p \in 1 .. n /\ p = n - k
    OBVIOUS
  <2>3. \A j \in 1 .. n + 2 : h[k + 1][j] = IF j = p THEN next(h[k], j) ELSE h[k][j]
    BY <1>6, <2>1
  <2> HIDE DEF p
  <2> SUFFICES ASSUME NEW j \in 1 .. n + 2
               PROVE  /\ j < p => h[k + 1][j] = j
                      /\ j >= p => h[k + 1][j] = IF j > n THEN j ELSE next(h[k + 1], j)
    BY DEF p
  <2>4. CASE j < p
    BY <2>1, <2>2, <2>3, <2>4
  <2>5. CASE j >= p /\ j > n
    <3>1. j # p /\ j >= n + 1 - k
      BY <2>2, <2>5
    <3>2. h[k + 1][j] = h[k][j] /\ h[k][j] = j
      BY <2>1, <2>3, <2>5, <3>1
    <3>3. QED
      BY <2>5, <3>2
  <2>6. CASE j >= p /\ ~ (j > n)
    <3> DEFINE far == j + step[j]
    <3>1. j \in 1 .. n /\ step[j] \in Nat /\ far \in 1 .. n + 2 /\ (step[j] # 0 => far > j)
      BY <1>1, <2>6
    <3>2. step[j] # 0 => h[k + 1][far] = h[k][far]
      BY <2>2, <2>3, <2>6, <3>1
    <3>3. next(h[k + 1], j) = next(h[k], j)
      BY <3>2
    <3>4. h[k + 1][j] = next(h[k], j)
      <4>1. j # p => j >= n + 1 - k
        BY <2>2, <2>6
      <4>2. QED
        BY <2>1, <2>3, <2>6, <4>1
    <3> HIDE DEF next
    <3>5. ~ (j < p)
      BY <2>2, <2>6
    <3>6. QED
      BY <2>6, <3>3, <3>4, <3>5
  <2>7. j < p \/ (j >= p /\ j > n) \/ (j >= p /\ ~ (j > n))
    BY <2>2
  <2> HIDE DEF next
  <2>8. QED
    BY ONLY <2>4, <2>5, <2>6, <2>7, Zenon
<1>9. Right(n)
  <2>1. Nat \subseteq S
    <3> HIDE DEF S
    <3> QED BY <1>7, <1>8, NatSetInduction
  <2>2. n \in S
    BY <2>1
  <2>3. QED
    BY <2>2
<1>10. IsRun(h[n], n, step)
  <2>1. h[n] \in [1 .. n + 2 -> Nat]
    BY <1>5 DEF T
  <2>2. \A j \in 1 .. n + 2 : h[n][j] = IF j > n \/ step[j] = 0 THEN j ELSE h[n][j + step[j]]
    BY <1>9
  <2>3. QED
    BY <2>1, <2>2 DEF IsRun
<1>11. QED
  BY <1>10

(* RunEnd is that run, wherever it is begun.                               *)
LEMMA RunEndIs ==
  ASSUME NEW text \in Seq(STRING), NEW step, StepsWithin(Len(text), step),
         NEW f, IsRun(f, Len(text), step), NEW i \in 1 .. Len(text) + 1
  PROVE  RunEnd(text, i, step) = f[i]
<1> DEFINE n == Len(text)
           Law(g) == g = [j \in i .. n + 2 |->
                            IF j > n \/ step[j] = 0 THEN j ELSE g[j + step[j]]]
           c == CHOOSE g : Law(g)
           g == [j \in i .. n + 2 |-> f[j]]
<1>1. n \in Nat /\ i \in 1 .. n + 1
  OBVIOUS
<1>2. \A j \in 1 .. n : step[j] \in Nat /\ j + step[j] <= n + 1
  BY DEF StepsWithin
<1>3. \A j \in 1 .. n + 2 : f[j] = IF j > n \/ step[j] = 0 THEN j ELSE f[j + step[j]]
  BY DEF IsRun
<1>4. RunEnd(text, i, step) = c[i]
  BY DEF RunEnd
<1> HIDE DEF n
<1>5. \A j \in i .. n + 2 :
        g[j] = IF j > n \/ step[j] = 0 THEN j ELSE g[j + step[j]]
  <2> SUFFICES ASSUME NEW j \in i .. n + 2
               PROVE  g[j] = IF j > n \/ step[j] = 0 THEN j ELSE g[j + step[j]]
    OBVIOUS
  <2>1. j \in 1 .. n + 2 /\ g[j] = f[j]
    BY <1>1
  <2>2. CASE j > n \/ step[j] = 0
    BY <1>3, <2>1, <2>2
  <2>3. CASE ~ (j > n \/ step[j] = 0)
    <3> DEFINE next == j + step[j]
    <3>1. next \in i .. n + 2
      BY <1>1, <1>2, <2>1, <2>3
    <3>2. g[next] = f[next]
      BY <3>1
    <3>3. f[j] = f[next]
      BY <1>3, <2>1, <2>3
    <3>4. QED
      BY <2>1, <2>3, <3>2, <3>3
  <2>4. QED
    BY <2>2, <2>3
<1>6. Law(c)
  <2>1. Law(g)
    <3>1. g = [j \in i .. n + 2 |-> IF j > n \/ step[j] = 0 THEN j ELSE g[j + step[j]]]
      BY <1>5
    <3>2. QED
      BY <3>1
  <2> HIDE DEF Law, g
  <2>2. QED
    BY <2>1
<1>7. \A j \in i .. n + 2 : c[j] = IF j > n \/ step[j] = 0 THEN j ELSE c[j + step[j]]
  <2>1. c = [j \in i .. n + 2 |-> IF j > n \/ step[j] = 0 THEN j ELSE c[j + step[j]]]
    BY <1>6
  <2> HIDE DEF c
  <2>2. QED
    BY <2>1
<1> HIDE DEF c, g, Law
<1> DEFINE S == {k \in Nat : \A j \in i .. n + 1 : n + 1 - j <= k => c[j] = f[j]}
<1>8. 0 \in S
  <2> SUFFICES ASSUME NEW j \in i .. n + 1, n + 1 - j <= 0 PROVE c[j] = f[j]
    OBVIOUS
  <2>1. j = n + 1
    BY <1>1
  <2>2. QED
    BY <1>1, <1>3, <1>7, <2>1
<1>9. \A k \in Nat : k \in S => k + 1 \in S
  <2> SUFFICES ASSUME NEW k \in Nat, k \in S, NEW j \in i .. n + 1, n + 1 - j <= k + 1
               PROVE  c[j] = f[j]
    OBVIOUS
  <2>1. j \in 1 .. n + 2 /\ j \in i .. n + 2
    BY <1>1
  <2>2. CASE j > n \/ step[j] = 0
    BY <1>3, <1>7, <2>1, <2>2
  <2>3. CASE ~ (j > n \/ step[j] = 0)
    <3> DEFINE next == j + step[j]
    <3>1. next \in Nat /\ j < next /\ next <= n + 1
      BY <1>1, <1>2, <2>1, <2>3
    <3>2. f[j] = f[next] /\ c[j] = c[next]
      BY <1>3, <1>7, <2>1, <2>3
    <3> HIDE DEF next
    <3>3. next \in i .. n + 1 /\ n + 1 - next <= k
      BY <1>1, <2>1, <3>1
    <3>4. QED
      BY <3>2, <3>3
  <2>4. QED
    BY <2>2, <2>3
<1>10. Nat \subseteq S
  <2> HIDE DEF S
  <2> QED BY <1>8, <1>9, NatSetInduction
<1>11. n + 1 - i \in S
  <2>1. n + 1 - i \in Nat
    BY <1>1
  <2> HIDE DEF S
  <2>2. QED
    BY <1>10, <2>1
<1>12. c[i] = f[i]
  BY <1>1, <1>11
<1>13. QED
  BY <1>4, <1>12

(* Where the runs of n characters end: a run goes forward, step by step.   *)
Runs(f, n, step) ==
  \A j \in 1 .. n + 1 : /\ f[j] \in j .. n + 1
                        /\ f[j] = IF j > n \/ step[j] = 0 THEN j ELSE f[j + step[j]]

(* What the runs of a document do, in one place.                           *)
LEMMA RunLaw ==
  ASSUME NEW text \in Seq(STRING), NEW step, StepsWithin(Len(text), step)
  PROVE  \E f : /\ Runs(f, Len(text), step)
                /\ \A i \in 1 .. Len(text) + 1 : RunEnd(text, i, step) = f[i]
<1>1. Len(text) \in Nat
  OBVIOUS
<1>2. PICK f : IsRun(f, Len(text), step)
  BY <1>1, RunExists
<1>3. \A j \in 1 .. Len(text) + 1 : f[j] \in j .. Len(text) + 1
  BY <1>1, <1>2, RunForward
<1>4. \A i \in 1 .. Len(text) + 1 : RunEnd(text, i, step) = f[i]
  BY <1>2, RunEndIs
<1>5. \A j \in 1 .. Len(text) + 1 :
        f[j] = IF j > Len(text) \/ step[j] = 0 THEN j ELSE f[j + step[j]]
  BY <1>1, <1>2 DEF IsRun
<1>6. Runs(f, Len(text), step)
  BY <1>3, <1>5 DEF Runs
<1>7. QED
  BY <1>4, <1>6

(* The two runs from the places before p take the same steps.              *)
StepsAlike(f, p, step, s, part) == \A j \in s + 1 .. p - 1 : f[j] = p => part[j - s] = step[j]

(* A run of a longer document and one of a part of it, s characters in:    *)
(* when they take the same steps on the way, they end at the same place.   *)
LEMMA RunShift ==
  ASSUME NEW n \in Nat, NEW m \in Nat, NEW s \in Nat, s + m <= n,
         NEW step, StepsWithin(n, step), NEW part, StepsWithin(m, part),
         NEW f, Runs(f, n, step), NEW g, Runs(g, m, part),
         NEW p \in s + 1 .. s + m + 1, p = s + m + 1 \/ part[p - s] = 0,
         StepsAlike(f, p, step, s, part)
  PROVE  \A j \in s + 1 .. p : f[j] = p => g[j - s] = p - s
<1> DEFINE S == {k \in Nat : \A j \in s + 1 .. p : p - j <= k /\ f[j] = p => g[j - s] = p - s}
<1>1. \A j \in 1 .. n : step[j] \in Nat /\ j + step[j] <= n + 1
  BY DEF StepsWithin
<1>0. /\ \A j \in 1 .. n + 1 : /\ f[j] \in j .. n + 1
                               /\ f[j] = IF j > n \/ step[j] = 0 THEN j ELSE f[j + step[j]]
      /\ \A j \in 1 .. m + 1 : g[j] = IF j > m \/ part[j] = 0 THEN j ELSE g[j + part[j]]
      /\ \A j \in s + 1 .. p - 1 : f[j] = p => part[j - s] = step[j]
  BY DEF Runs, StepsAlike
<1>2. g[p - s] = p - s
  <2>1. p - s \in 1 .. m + 1 /\ (p = s + m + 1 => p - s > m)
    OBVIOUS
  <2>2. QED
    BY <1>0, <2>1
<1>3. 0 \in S
  <2> SUFFICES ASSUME NEW j \in s + 1 .. p, p - j <= 0 PROVE g[j - s] = p - s
    OBVIOUS
  <2>1. j = p
    OBVIOUS
  <2>2. QED
    BY <1>2, <2>1
<1>4. \A k \in Nat : k \in S => k + 1 \in S
  <2> TAKE k \in Nat
  <2> HAVE k \in S
  <2>0. \A j \in s + 1 .. p : p - j <= k /\ f[j] = p => g[j - s] = p - s
    OBVIOUS
  <2> SUFFICES \A j \in s + 1 .. p : p - j <= k + 1 /\ f[j] = p => g[j - s] = p - s
    OBVIOUS
  <2> TAKE j \in s + 1 .. p
  <2> HAVE p - j <= k + 1 /\ f[j] = p
  <2> HIDE DEF S
  <2>1. CASE j = p
    BY <1>2, <2>1
  <2>2. CASE j # p
    <3> DEFINE next == j + step[j]
    <3>1. j \in s + 1 .. p - 1 /\ j \in 1 .. n /\ ~ (j > n)
      BY <2>2
    <3>2. step[j] # 0 /\ f[j] = f[next]
      BY <1>0, <2>2, <3>1
    <3>3. part[j - s] = step[j]
      BY <1>0, <3>1
    <3>4. next \in 1 .. n + 1 /\ j < next
      BY <1>1, <3>1, <3>2
    <3>5. next <= p
      <4>1. f[next] \in next .. n + 1
        BY <1>0, <3>4
      <4>2. f[next] = p
        BY <3>2
      <4>3. QED
        BY <3>4, <4>1, <4>2
    <3>6. g[j - s] = g[next - s]
      <4>1. j - s \in 1 .. m + 1 /\ ~ (j - s > m)
        BY <3>1
      <4>2. step[j] \in Nat /\ (j - s) + step[j] = next - s
        BY <1>1, <3>1
      <4>3. g[j - s] = g[(j - s) + part[j - s]]
        BY <1>0, <3>2, <3>3, <4>1
      <4>4. QED
        BY <3>3, <4>2, <4>3
    <3>7. f[next] = p
      BY <3>2
    <3> HIDE DEF next
    <3>8. next \in s + 1 .. p /\ p - next <= k
      BY <3>1, <3>4, <3>5
    <3>9. QED
      BY <2>0, <3>6, <3>7, <3>8
  <2>3. QED
    BY <2>1, <2>2
<1>5. Nat \subseteq S
  <2> HIDE DEF S
  <2> QED BY <1>3, <1>4, NatSetInduction
<1> SUFFICES ASSUME NEW j \in s + 1 .. p, f[j] = p PROVE g[j - s] = p - s
  OBVIOUS
<1>6. p - j \in S
  BY <1>5
<1>7. QED
  BY <1>6


-----------------------------------------------------------------------------
(* A part of a text: the characters after the first a, up to the b-th.     *)
Part(text, a, b) == SubSeq(text, a + 1, b)

LEMMA PartIs ==
  ASSUME NEW text \in Seq(STRING), NEW a \in Nat, NEW b \in a .. Len(text)
  PROVE  /\ Part(text, a, b) \in Seq(STRING) /\ Len(Part(text, a, b)) = b - a
         /\ \A k \in 1 .. b - a : /\ Part(text, a, b)[k] = text[a + k]
                                  /\ At(Part(text, a, b), k) = At(text, a + k)
                                  /\ At(text, a + k) = text[a + k]
         /\ \A k \in Nat : k > b - a => At(Part(text, a, b), k) = "none"
<1> DEFINE e == Part(text, a, b)
<1>1. e \in Seq(STRING) /\ Len(e) = b - a /\ \A k \in 1 .. b - a : e[k] = text[a + k]
  <2>1. a + 1 \in 1 .. Len(text) + 1 /\ b \in a .. Len(text)
    OBVIOUS
  <2>2. QED
    BY <2>1 DEF Part
<1>2. DOMAIN e = 1 .. b - a /\ DOMAIN text = 1 .. Len(text)
  BY <1>1
<1> HIDE DEF e
<1>3. \A k \in 1 .. b - a : a + k \in 1 .. Len(text)
  OBVIOUS
<1>4. \A k \in 1 .. b - a : At(e, k) = At(text, a + k) /\ At(text, a + k) = text[a + k]
  BY <1>1, <1>2, <1>3 DEF At
<1>5. \A k \in Nat : k > b - a => At(e, k) = "none"
  BY <1>2 DEF At
<1>6. QED
  BY <1>1, <1>4, <1>5 DEF e

(* Two characters that are one operator. *)
LEMMA OperatorsHaveTwo ==
  /\ \A char : <<char, "none">> \notin Operators
  /\ \A char, other : <<char, other>> \in Operators => char \in OperatorStart
BY DEF Operators, Lengthened, OperatorStart

(* An operator lies within the text. *)
LEMMA OperatorFits ==
  ASSUME NEW text \in Seq(STRING), NEW i \in 1 .. Len(text)
  PROVE  /\ OperatorAt(text, i) \in {0, 2, 3}
         /\ i + OperatorAt(text, i) <= Len(text) + 1
<1> DEFINE pair == <<At(text, i), At(text, i + 1)>>
<1>1. OperatorAt(text, i) = 0 \/
        /\ pair \in Operators
        /\ OperatorAt(text, i) = IF pair \in Lengthened /\ At(text, i + 2) = "=" THEN 3 ELSE 2
  BY DEF OperatorAt, OperatorWidth
<1>2. \A k \in Nat : k > Len(text) => At(text, k) = "none"
  BY DEF At
<1>3. pair \in Operators => At(text, i + 1) # "none"
  BY OperatorsHaveTwo
<1>4. pair \in Operators => i + 1 <= Len(text)
  BY <1>2, <1>3
<1>5. At(text, i + 2) = "=" => i + 2 <= Len(text)
  BY <1>2
<1> HIDE DEF pair
<1>6. QED
  BY <1>1, <1>4, <1>5

(* What a character is classified as. *)
LEMMA ClassIs ==
  ASSUME NEW text, NEW i
  PROVE  ClassifyAt(text, i) =
           IF OperatorAt(text, i) > 0
           THEN [kind |-> "Symbol", width |-> OperatorAt(text, i)]
           ELSE IF ~ Ascii(text[i]) THEN [kind |-> UnicodeKind[text[i]], width |-> 1]
           ELSE [kind |-> AsciiKind(text[i]),
                 width |-> IF text[i] = "\r" /\ At(text, i + 1) = "\n" THEN 2 ELSE 1]
BY DEF ClassifyAt

AllKinds ==
  {"Word", "Number", "Whitespace", "LineBreak", "Control", "Punctuation", "Symbol", "Opaque"}

(* The classes of scalars beyond ASCII. *)
LEMMA UnicodeKinds ==
  /\ DOMAIN UnicodeKind =
       {"turkish", "dotless", "dotted", "circumflex", "acute", "foreign", "mark", "numeral",
        "nbsp", "separator", "control", "apostrophe", "decimal", "hyphen", "pictograph",
        "joiner", "invalid"}
  /\ \A char \in DOMAIN UnicodeKind : UnicodeKind[char] \in AllKinds
  /\ UnicodeKind["apostrophe"] = "Punctuation"
  /\ UnicodeKind["joiner"] = "Punctuation"
BY DEF UnicodeKind, AllKinds

(* A class: its kind, and how many characters it takes.                    *)
LEMMA ClassFits ==
  ASSUME NEW text \in Seq(STRING), NEW i \in 1 .. Len(text)
  PROVE  /\ ClassifyAt(text, i).kind \in AllKinds
         /\ ClassifyAt(text, i).width \in 1 .. 3
         /\ i + ClassifyAt(text, i).width <= Len(text) + 1
         /\ ClassifyAt(text, i).kind \in {"Word", "Number"} => ClassifyAt(text, i).width = 1
<1>1. OperatorAt(text, i) \in {0, 2, 3} /\ i + OperatorAt(text, i) <= Len(text) + 1
  BY OperatorFits
<1>2. CASE OperatorAt(text, i) > 0
  <2>1. ClassifyAt(text, i) = [kind |-> "Symbol", width |-> OperatorAt(text, i)]
    BY <1>2, ClassIs
  <2>2. QED
    BY <1>1, <1>2, <2>1 DEF AllKinds
<1>3. CASE ~ (OperatorAt(text, i) > 0) /\ ~ Ascii(text[i])
  <2>1. ClassifyAt(text, i) = [kind |-> UnicodeKind[text[i]], width |-> 1]
    BY <1>3, ClassIs
  <2>2. UnicodeKind[text[i]] \in AllKinds
    BY <1>3, UnicodeKinds DEF Ascii
  <2>3. QED
    BY <2>1, <2>2
<1>4. CASE ~ (OperatorAt(text, i) > 0) /\ Ascii(text[i])
  <2> DEFINE w == IF text[i] = "\r" /\ At(text, i + 1) = "\n" THEN 2 ELSE 1
  <2>1. ClassifyAt(text, i) = [kind |-> AsciiKind(text[i]), width |-> w]
    BY <1>4, ClassIs
  <2>2. AsciiKind(text[i]) \in AllKinds
    BY DEF AsciiKind, AllKinds
  <2>3. AsciiKind(text[i]) \in {"Word", "Number"} => w = 1
    BY DEF AsciiKind
  <2>4. w \in 1 .. 2 /\ i + w <= Len(text) + 1
    BY DEF At
  <2> HIDE DEF w
  <2>5. QED
    BY <2>1, <2>2, <2>3, <2>4
<1>5. QED
  BY <1>2, <1>3, <1>4


(* An operator that ends within a part is the same operator there.         *)
LEMMA OperatorSlice ==
  ASSUME NEW text \in Seq(STRING), NEW a \in Nat, NEW b \in a .. Len(text), NEW j \in 1 .. b - a,
         a + j + OperatorAt(text, a + j) <= b + 1
  PROVE  OperatorAt(Part(text, a, b), j) = OperatorAt(text, a + j)
<1> DEFINE e == Part(text, a, b)
           i == a + j
           pair == <<At(text, i), At(text, i + 1)>>
           part == <<At(e, j), At(e, j + 1)>>
           third == At(text, i + 2)
           last == At(e, j + 2)
           op == OperatorAt(text, i)
<1>1. i \in 1 .. Len(text) /\ i + 1 = a + (j + 1) /\ i + 2 = a + (j + 2)
  OBVIOUS
<1>2. e[j] = text[i] /\ At(e, j) = At(text, i)
  BY PartIs
<1>3. \A k \in {j + 1, j + 2} : IF k <= b - a THEN At(e, k) = At(text, a + k) ELSE At(e, k) = "none"
  BY PartIs
<1>4. op \in {0, 2, 3} /\ i + op <= b + 1
  BY <1>1, OperatorFits
<1>5. /\ op = IF text[i] \notin OperatorStart \/ pair \notin Operators THEN 0
              ELSE IF pair \in Lengthened /\ third = "=" THEN 3 ELSE 2
      /\ OperatorAt(e, j) = IF e[j] \notin OperatorStart \/ part \notin Operators THEN 0
                            ELSE IF part \in Lengthened /\ last = "=" THEN 3 ELSE 2
  BY DEF OperatorAt, OperatorWidth
<1>6. part = pair \/ part = <<At(e, j), "none">>
  BY <1>1, <1>2, <1>3
<1>7. part \in Operators => part = pair
  BY <1>6, OperatorsHaveTwo
<1>8. j + 1 <= b - a => part = pair
  BY <1>1, <1>2, <1>3
<1>9. last = third \/ (last = "none" /\ ~ (j + 2 <= b - a))
  BY <1>1, <1>3
<1>10. CASE op = 0
  <2>1. text[i] \notin OperatorStart \/ pair \notin Operators
    BY <1>5, <1>10
  <2>2. QED
    BY <1>2, <1>5, <1>7, <1>10, <2>1
<1>11. CASE op # 0
  <2>1. part = pair
    BY <1>1, <1>4, <1>8, <1>11
  <2>2. text[i] \in OperatorStart /\ pair \in Operators
    BY <1>5, <1>11
  <2>3. CASE op = 3
    <3>1. pair \in Lengthened /\ third = "=" /\ j + 2 <= b - a
      BY <1>1, <1>4, <1>5, <2>3
    <3>2. last = "="
      BY <1>9, <3>1
    <3>3. QED
      BY <1>2, <1>5, <2>1, <2>2, <2>3, <3>1, <3>2
  <2>4. CASE op = 2
    <3>1. ~ (pair \in Lengthened /\ third = "=")
      BY <1>5, <2>2, <2>4
    <3>2. last = "=" => third = "="
      BY <1>9
    <3>3. QED
      BY <1>2, <1>5, <2>1, <2>2, <2>4, <3>1, <3>2
  <2>5. QED
    BY <1>4, <1>11, <2>3, <2>4
<1>12. QED
  BY <1>10, <1>11

(* A class that ends within a part is the same class there.                *)
LEMMA ClassSlice ==
  ASSUME NEW text \in Seq(STRING), NEW a \in Nat, NEW b \in a .. Len(text), NEW j \in 1 .. b - a,
         a + j + ClassifyAt(text, a + j).width <= b + 1
  PROVE  ClassifyAt(Part(text, a, b), j) = ClassifyAt(text, a + j)
<1> DEFINE e == Part(text, a, b)
           i == a + j
<1>1. i \in 1 .. Len(text) /\ i + 1 = a + (j + 1)
  OBVIOUS
<1>2. e[j] = text[i]
  BY PartIs
<1>3. IF j + 1 <= b - a THEN At(e, j + 1) = At(text, i + 1) ELSE At(e, j + 1) = "none"
  <2>1. \A k \in 1 .. b - a : At(e, k) = At(text, a + k)
    BY PartIs
  <2>2. \A k \in Nat : k > b - a => At(e, k) = "none"
    BY PartIs
  <2> HIDE DEF e
  <2>3. QED
    BY <1>1, <2>1, <2>2
<1>4. OperatorAt(text, i) \in {0, 2, 3}
  BY <1>1, OperatorFits
<1>5. a + j + OperatorAt(text, i) <= b + 1
  <2>1. OperatorAt(text, i) > 0 => ClassifyAt(text, i).width = OperatorAt(text, i)
    BY ClassIs
  <2>2. CASE OperatorAt(text, i) > 0
    BY <1>4, <2>1, <2>2
  <2>3. CASE OperatorAt(text, i) = 0
    BY <2>3
  <2>4. QED
    BY <1>4, <2>2, <2>3
<1>6. OperatorAt(e, j) = OperatorAt(text, i)
  BY <1>5, OperatorSlice
<1> DEFINE w == IF text[i] = "\r" /\ At(text, i + 1) = "\n" THEN 2 ELSE 1
           v == IF e[j] = "\r" /\ At(e, j + 1) = "\n" THEN 2 ELSE 1
<1>7. CASE OperatorAt(text, i) > 0 \/ ~ Ascii(text[i])
  BY <1>2, <1>6, <1>7, ClassIs
<1>8. CASE ~ (OperatorAt(text, i) > 0) /\ Ascii(text[i])
  <2>1. ClassifyAt(text, i) = [kind |-> AsciiKind(text[i]), width |-> w]
    BY <1>8, ClassIs
  <2>2. ClassifyAt(e, j) = [kind |-> AsciiKind(e[j]), width |-> v]
    BY <1>2, <1>6, <1>8, ClassIs
  <2>3. v = w
    <3>1. w = 2 => j + 1 <= b - a
      BY <1>1, <2>1
    <3>2. QED
      BY <1>2, <1>3, <3>1
  <2>4. QED
    BY <1>2, <2>1, <2>2, <2>3
<1>9. QED
  BY <1>7, <1>8

(* Letters and digits of a text are those of its part.                     *)
LEMMA KindSlice ==
  ASSUME NEW text \in Seq(STRING), NEW a \in Nat, NEW b \in a .. Len(text), NEW j \in 1 .. b - a,
         KindAt(text, a + j) \in {"Word", "Number"}
  PROVE  KindAt(Part(text, a, b), j) = KindAt(text, a + j)
<1> DEFINE e == Part(text, a, b)
           i == a + j
<1>1. i \in 1 .. Len(text) /\ DOMAIN text = 1 .. Len(text)
  OBVIOUS
<1>2. j \in DOMAIN e
  <2>1. e \in Seq(STRING) /\ Len(e) = b - a
    BY PartIs
  <2> HIDE DEF e
  <2>2. QED
    BY <2>1
<1>3. KindAt(text, i) = ClassifyAt(text, i).kind /\ KindAt(e, j) = ClassifyAt(e, j).kind
  BY <1>1, <1>2 DEF KindAt
<1>4. ClassifyAt(text, i).width = 1
  BY <1>1, <1>3, ClassFits
<1>5. ClassifyAt(e, j) = ClassifyAt(text, i)
  <2>1. a + j + ClassifyAt(text, a + j).width <= b + 1
    BY <1>4
  <2>2. QED
    BY <2>1, ClassSlice
<1>6. QED
  BY <1>3, <1>5

(* The steps of a word and of the digits of a number.                      *)
WordStep(text) ==
  [j \in DOMAIN text |->
    IF \/ KindAt(text, j) \in {"Word", "Number"}
       \/ text[j] \in WordConnector /\ KindAt(text, j + 1) \in {"Word", "Number"}
    THEN 1 ELSE 0]
NumberStep(text) ==
  [j \in DOMAIN text |->
    IF \/ KindAt(text, j) = "Number"
       \/ text[j] \in NumberSeparator /\ KindAt(text, j + 1) = "Number"
    THEN 1 ELSE 0]

LEMMA WordSteps ==
  ASSUME NEW text \in Seq(STRING)
  PROVE  StepsWithin(Len(text), WordStep(text)) /\ StepsWithin(Len(text), NumberStep(text))
BY DEF StepsWithin, WordStep, NumberStep

(* What is no character is no letter and no digit.                         *)
LEMMA NoKindBeyond ==
  ASSUME NEW text \in Seq(STRING), NEW j \in Nat, KindAt(text, j) \in {"Word", "Number"}
  PROVE  j \in 1 .. Len(text)
BY DEF KindAt

(* A word that ends with a part is a word of the part.                     *)
LEMMA WordSlice ==
  ASSUME NEW text \in Seq(STRING), NEW a \in Nat, NEW b \in a .. Len(text), NEW i \in a + 1 .. b + 1,
         ConsumeWord(text, i) = b + 1
  PROVE  ConsumeWord(Part(text, a, b), i - a) = (b - a) + 1
<1> DEFINE n == Len(text)
           m == b - a
           e == Part(text, a, b)
           step == WordStep(text)
           part == WordStep(e)
<1>1. n \in Nat /\ m \in Nat /\ a + m <= n /\ b + 1 \in a + 1 .. a + m + 1 /\ b + 1 = a + m + 1
  OBVIOUS
<1>2. /\ e \in Seq(STRING) /\ Len(e) = m /\ DOMAIN e = 1 .. m /\ DOMAIN text = 1 .. n
      /\ \A k \in 1 .. m : e[k] = text[a + k]
  <2>1. e \in Seq(STRING) /\ Len(e) = m /\ \A k \in 1 .. m : e[k] = text[a + k]
    BY PartIs
  <2>2. QED
    BY <2>1
<1>3. StepsWithin(n, step) /\ StepsWithin(m, part)
  BY <1>2, WordSteps
<1>4a. PICK f : Runs(f, n, step) /\ \A k \in 1 .. n + 1 : RunEnd(text, k, step) = f[k]
  BY <1>3, RunLaw
<1>4. /\ \A k \in 1 .. n + 1 : RunEnd(text, k, step) = f[k]
      /\ \A j \in 1 .. n + 1 : /\ f[j] \in j .. n + 1
                               /\ f[j] = IF j > n \/ step[j] = 0 THEN j ELSE f[j + step[j]]
  BY <1>4a DEF Runs
<1>5. PICK g : Runs(g, m, part) /\ \A k \in 1 .. m + 1 : RunEnd(e, k, part) = g[k]
  <2>1. StepsWithin(Len(e), part)
    BY <1>2, <1>3
  <2> HIDE DEF e, part, m
  <2>2. \E g : /\ Runs(g, Len(e), part)
              /\ \A k \in 1 .. Len(e) + 1 : RunEnd(e, k, part) = g[k]
    BY <1>2, <2>1, RunLaw
  <2>3. QED
    BY <1>2, <2>2
<1>6. f[i] = b + 1
  <2>1. ConsumeWord(text, i) = RunEnd(text, i, step)
    BY DEF ConsumeWord, WordStep
  <2>2. i \in 1 .. n + 1
    OBVIOUS
  <2>3. QED
    BY <1>4, <2>1, <2>2
<1>7. /\ \A j \in 1 .. n : step[j] = IF \/ KindAt(text, j) \in {"Word", "Number"}
                                        \/ /\ text[j] \in WordConnector
                                           /\ KindAt(text, j + 1) \in {"Word", "Number"}
                                     THEN 1 ELSE 0
      /\ \A j \in 1 .. m : part[j] = IF \/ KindAt(e, j) \in {"Word", "Number"}
                                        \/ /\ e[j] \in WordConnector
                                           /\ KindAt(e, j + 1) \in {"Word", "Number"}
                                     THEN 1 ELSE 0
  BY <1>2 DEF WordStep
<1>8. \A j \in 1 .. m : KindAt(text, a + j) \in {"Word", "Number"} => KindAt(e, j) = KindAt(text, a + j)
  BY KindSlice
<1> HIDE DEF step, part, e
<1>9. \A j \in a + 1 .. b : f[j] = b + 1 => part[j - a] = step[j]
  <2> SUFFICES ASSUME NEW j \in a + 1 .. b, f[j] = b + 1 PROVE part[j - a] = step[j]
    OBVIOUS
  <2> DEFINE k == j - a
  <2>1. j \in 1 .. n /\ j \in 1 .. n + 1 /\ j + 1 \in 1 .. n + 1 /\ k \in 1 .. m /\ a + k = j /\ j # b + 1
    OBVIOUS
  <2> HIDE DEF k
  <2>2. step[j] # 0
    BY <1>4, <2>1
  <2>3. step[j] = 1
    BY <1>7, <2>1, <2>2
  <2>4. f[j + 1] = b + 1
    BY <1>4, <2>1, <2>3
  <2>5. CASE KindAt(text, j) \in {"Word", "Number"}
    BY <1>7, <1>8, <2>1, <2>3, <2>5
  <2>6. CASE text[j] \in WordConnector /\ KindAt(text, j + 1) \in {"Word", "Number"}
    <3>1. j + 1 \in 1 .. n
      BY <2>1, <2>6, NoKindBeyond
    <3>2. step[j + 1] = 1
      BY <1>7, <2>6, <3>1
    <3>3. f[j + 1] = f[j + 2] /\ f[j + 2] \in j + 2 .. n + 1
      <4>1. f[j + 1] = f[(j + 1) + 1]
        <5> DEFINE q == j + 1
        <5>1. q \in Nat /\ q \in 1 .. n + 1 /\ ~(q > n) /\ step[q] = 1
          BY <3>1, <3>2
        <5> HIDE DEF q, n
        <5>2. f[q] = IF q > n \/ step[q] = 0 THEN q ELSE f[q + step[q]]
          BY <1>4, <5>1
        <5>3. f[q] = f[q + 1]
          BY <5>1, <5>2
        <5>4. QED
          BY <5>3 DEF q
      <4>2. (j + 1) + 1 = j + 2 /\ j + 2 \in 1 .. n + 1
        BY <2>1, <3>1
      <4>3. QED
        BY <1>4, <4>1, <4>2
    <3>4. k + 1 \in 1 .. m /\ a + (k + 1) = j + 1
      BY <2>1, <2>4, <3>3
    <3>5. KindAt(e, k + 1) \in {"Word", "Number"} /\ e[k] = text[j]
      BY <1>2, <1>8, <2>1, <2>6, <3>4
    <3>6. QED
      BY <1>7, <2>1, <2>3, <2>6, <3>5 DEF k
  <2>7. QED
    BY <1>7, <2>1, <2>2, <2>5, <2>6
<1>10. g[i - a] = (b + 1) - a
  <2> DEFINE p == b + 1
  <2>1. p \in a + 1 .. a + m + 1 /\ p = a + m + 1 /\ i \in a + 1 .. p /\ p - 1 = b
    OBVIOUS
  <2>2. \A j \in a + 1 .. p - 1 : f[j] = p => part[j - a] = step[j]
    BY <1>9, <2>1
  <2>3. f[i] = p
    BY <1>6
  <2> HIDE DEF p, m, n
  <2>4. /\ n \in Nat /\ m \in Nat /\ a \in Nat /\ a + m <= n
        /\ StepsWithin(n, step) /\ StepsWithin(m, part)
        /\ Runs(f, n, step) /\ Runs(g, m, part)
        /\ p \in a + 1 .. a + m + 1 /\ (p = a + m + 1 \/ part[p - a] = 0)
        /\ StepsAlike(f, p, step, a, part)
    BY <1>1, <1>3, <1>4a, <1>5, <2>1, <2>2 DEF StepsAlike
  <2>5. \A j \in a + 1 .. p : f[j] = p => g[j - a] = p - a
    BY <2>4, RunShift
  <2>6. QED
    BY <2>1, <2>3, <2>5 DEF p
<1>11. ConsumeWord(e, i - a) = g[i - a]
  <2>1. ConsumeWord(e, i - a) = RunEnd(e, i - a, part)
    BY DEF ConsumeWord, WordStep, part
  <2>2. i - a \in 1 .. m + 1
    OBVIOUS
  <2>3. QED
    BY <1>5, <2>1, <2>2
<1>12. QED
  BY <1>10, <1>11 DEF e

(* The digits of a number that end within a part, or with it.              *)
LEMMA DigitSlice ==
  ASSUME NEW text \in Seq(STRING), NEW a \in Nat, NEW b \in a .. Len(text), NEW i \in a + 1 .. b + 1,
         NEW p \in a + 1 .. b + 1, RunEnd(text, i, NumberStep(text)) = p,
         p = b + 1 \/ NumberStep(Part(text, a, b))[p - a] = 0
  PROVE  RunEnd(Part(text, a, b), i - a, NumberStep(Part(text, a, b))) = p - a
<1> DEFINE n == Len(text)
           m == b - a
           e == Part(text, a, b)
           step == NumberStep(text)
           part == NumberStep(e)
<1>1. n \in Nat /\ m \in Nat /\ a + m <= n /\ p \in a + 1 .. a + m + 1 /\ b + 1 = a + m + 1
  OBVIOUS
<1>2. /\ e \in Seq(STRING) /\ Len(e) = m /\ DOMAIN e = 1 .. m /\ DOMAIN text = 1 .. n
      /\ \A k \in 1 .. m : e[k] = text[a + k]
  <2>1. e \in Seq(STRING) /\ Len(e) = m /\ \A k \in 1 .. m : e[k] = text[a + k]
    BY PartIs
  <2>2. QED
    BY <2>1
<1>3. StepsWithin(n, step) /\ StepsWithin(m, part)
  BY <1>2, WordSteps
<1>4a. PICK f : Runs(f, n, step) /\ \A k \in 1 .. n + 1 : RunEnd(text, k, step) = f[k]
  BY <1>3, RunLaw
<1>4. /\ \A k \in 1 .. n + 1 : RunEnd(text, k, step) = f[k]
      /\ \A j \in 1 .. n + 1 : /\ f[j] \in j .. n + 1
                               /\ f[j] = IF j > n \/ step[j] = 0 THEN j ELSE f[j + step[j]]
  BY <1>4a DEF Runs
<1>5. PICK g : Runs(g, m, part) /\ \A k \in 1 .. m + 1 : RunEnd(e, k, part) = g[k]
  <2>1. StepsWithin(Len(e), part)
    BY <1>2, <1>3
  <2> HIDE DEF e, part, m
  <2>2. \E g : /\ Runs(g, Len(e), part)
              /\ \A k \in 1 .. Len(e) + 1 : RunEnd(e, k, part) = g[k]
    BY <1>2, <2>1, RunLaw
  <2>3. QED
    BY <1>2, <2>2
<1>6. f[i] = p /\ i <= p
  <2>1. i \in 1 .. n + 1
    OBVIOUS
  <2>2. f[i] = p /\ f[i] \in i .. n + 1
    BY <1>4, <2>1
  <2>3. QED
    BY <2>2
<1>7. /\ \A j \in 1 .. n : step[j] = IF \/ KindAt(text, j) = "Number"
                                        \/ /\ text[j] \in NumberSeparator
                                           /\ KindAt(text, j + 1) = "Number"
                                     THEN 1 ELSE 0
      /\ \A j \in 1 .. m : part[j] = IF \/ KindAt(e, j) = "Number"
                                        \/ /\ e[j] \in NumberSeparator
                                           /\ KindAt(e, j + 1) = "Number"
                                     THEN 1 ELSE 0
  BY <1>2 DEF NumberStep
<1>8. \A j \in 1 .. m : KindAt(text, a + j) \in {"Word", "Number"} => KindAt(e, j) = KindAt(text, a + j)
  BY KindSlice
<1> HIDE DEF step, part, e
<1>9. \A j \in a + 1 .. p - 1 : f[j] = p => part[j - a] = step[j]
  <2> SUFFICES ASSUME NEW j \in a + 1 .. p - 1, f[j] = p PROVE part[j - a] = step[j]
    OBVIOUS
  <2> DEFINE k == j - a
  <2>1. j \in 1 .. n /\ j \in 1 .. n + 1 /\ j + 1 \in 1 .. n + 1 /\ k \in 1 .. m /\ a + k = j /\ j # p
    OBVIOUS
  <2> HIDE DEF k
  <2>2. step[j] # 0
    BY <1>4, <2>1
  <2>3. step[j] = 1
    BY <1>7, <2>1, <2>2
  <2>4. f[j + 1] = p
    BY <1>4, <2>1, <2>3
  <2>5. CASE KindAt(text, j) = "Number"
    BY <1>7, <1>8, <2>1, <2>3, <2>5
  <2>6. CASE text[j] \in NumberSeparator /\ KindAt(text, j + 1) = "Number"
    <3>1. j + 1 \in 1 .. n
      BY <2>1, <2>6, NoKindBeyond
    <3>2. step[j + 1] = 1
      BY <1>7, <2>6, <3>1
    <3>3. f[j + 1] = f[j + 2] /\ f[j + 2] \in j + 2 .. n + 1
      <4>1. f[j + 1] = f[(j + 1) + 1]
        <5> DEFINE q == j + 1
        <5>1. q \in Nat /\ q \in 1 .. n + 1 /\ ~(q > n) /\ step[q] = 1
          BY <3>1, <3>2
        <5> HIDE DEF q, n
        <5>2. f[q] = IF q > n \/ step[q] = 0 THEN q ELSE f[q + step[q]]
          BY <1>4, <5>1
        <5>3. f[q] = f[q + 1]
          BY <5>1, <5>2
        <5>4. QED
          BY <5>3 DEF q
      <4>2. (j + 1) + 1 = j + 2 /\ j + 2 \in 1 .. n + 1
        BY <2>1, <3>1
      <4>3. QED
        BY <1>4, <4>1, <4>2
    <3>4. k + 1 \in 1 .. m /\ a + (k + 1) = j + 1
      BY <2>1, <2>4, <3>3
    <3>5. KindAt(e, k + 1) = "Number" /\ e[k] = text[j]
      BY <1>2, <1>8, <2>1, <2>6, <3>4
    <3>6. QED
      BY <1>7, <2>1, <2>3, <2>6, <3>5 DEF k
  <2>7. QED
    BY <1>7, <2>1, <2>2, <2>5, <2>6
<1>10. g[i - a] = p - a
  <2>1. p = a + m + 1 \/ part[p - a] = 0
    BY DEF part, e
  <2> HIDE DEF m, n
  <2>2. /\ n \in Nat /\ m \in Nat /\ a \in Nat /\ a + m <= n
        /\ StepsWithin(n, step) /\ StepsWithin(m, part)
        /\ Runs(f, n, step) /\ Runs(g, m, part)
        /\ p \in a + 1 .. a + m + 1 /\ (p = a + m + 1 \/ part[p - a] = 0)
        /\ StepsAlike(f, p, step, a, part)
    BY <1>1, <1>3, <1>4a, <1>5, <1>9, <2>1 DEF StepsAlike
  <2>3. \A j \in a + 1 .. p : f[j] = p => g[j - a] = p - a
    BY <2>2, RunShift
  <2>4. i \in a + 1 .. p
    BY <1>6
  <2>5. QED
    BY <1>6, <2>3, <2>4
<1>11. RunEnd(e, i - a, part) = g[i - a]
  <2>1. i - a \in 1 .. m + 1
    OBVIOUS
  <2>2. QED
    BY <1>5, <2>1
<1>12. QED
  BY <1>10, <1>11 DEF e, part

(* A number that ends with a part is a number of the part.                 *)
LEMMA NumberSlice ==
  ASSUME NEW text \in Seq(STRING), NEW a \in Nat, NEW b \in a .. Len(text), NEW i \in a + 1 .. b + 1,
         ConsumeNumber(text, i) = b + 1
  PROVE  ConsumeNumber(Part(text, a, b), i - a) = (b - a) + 1
<1> DEFINE n == Len(text)
           m == b - a
           e == Part(text, a, b)
           p == RunEnd(text, i, NumberStep(text))
           Suffixed(t, d) == At(t, d) \in SuffixConnector /\ KindAt(t, d + 1) = "Word"
           Finished(t, d) == IF Suffixed(t, d) THEN ConsumeWord(t, d + 1) ELSE d
<1>1. /\ ConsumeNumber(text, i) = Finished(text, p)
      /\ ConsumeNumber(e, i - a) = Finished(e, RunEnd(e, i - a, NumberStep(e)))
  BY DEF ConsumeNumber, NumberStep
<1>2. p \in i .. n + 1
  <2>1. StepsWithin(n, NumberStep(text)) /\ i \in 1 .. n + 1
    BY WordSteps
  <2>2. QED
    BY <2>1, RunLaw DEF Runs
<1> HIDE DEF p
<1>3. CASE Suffixed(text, p)
  <2>1. p \in 1 .. n /\ p + 1 \in 1 .. n
    <3>1. p \in Nat /\ p + 1 \in Nat /\ KindAt(text, p + 1) \in {"Word", "Number"}
      BY <1>2, <1>3
    <3>2. p + 1 \in 1 .. n
      BY <3>1, NoKindBeyond
    <3>3. QED
      BY <1>2, <3>2
  <2>2. ConsumeWord(text, p + 1) = b + 1
    BY <1>1, <1>3
  <2>3. p + 1 <= b
    <3>1. StepsWithin(n, WordStep(text))
      BY WordSteps
    <3>2. PICK f : Runs(f, n, WordStep(text)) /\ \A k \in 1 .. n + 1 : RunEnd(text, k, WordStep(text)) = f[k]
      BY <3>1, RunLaw
    <3>3. f[p + 1] = b + 1
      BY <2>1, <2>2, <3>2 DEF ConsumeWord, WordStep
    <3>4. WordStep(text)[p + 1] = 1
      BY <1>3, <2>1 DEF WordStep
    <3>5. f[p + 1] = f[(p + 1) + 1] /\ f[(p + 1) + 1] \in (p + 1) + 1 .. n + 1
      BY <2>1, <3>2, <3>4 DEF Runs
    <3>6. QED
      BY <2>1, <3>3, <3>5
  <2> DEFINE d == p - a
  <2>4. d \in 1 .. m /\ d + 1 \in 1 .. m /\ a + d = p /\ a + (d + 1) = p + 1
    BY <1>2, <2>3
  <2>5. e[d] = text[p] /\ At(e, d) = At(text, p) /\ At(text, p) = text[p]
    <3>1. \A k \in 1 .. m : e[k] = text[a + k] /\ At(e, k) = At(text, a + k) /\ At(text, a + k) = text[a + k]
      BY PartIs
    <3>2. QED
      BY <2>4, <3>1
  <2>6. KindAt(e, d + 1) = "Word"
    <3>1. KindAt(text, a + (d + 1)) \in {"Word", "Number"}
      BY <1>3, <2>4
    <3>2. KindAt(e, d + 1) = KindAt(text, a + (d + 1))
      BY <2>4, <3>1, KindSlice
    <3>3. QED
      BY <1>3, <2>4, <3>2
  <2>7. NumberStep(e)[d] = 0
    <3>1. e[d] \in SuffixConnector
      BY <1>3, <2>5
    <3>2. e[d] \notin NumberSeparator /\ OperatorAt(e, d) = 0
      BY <3>1 DEF SuffixConnector, NumberSeparator, OperatorStart, OperatorAt
    <3>3. ClassifyAt(e, d).kind = "Punctuation"
      <4>1. CASE e[d] = "'"
        <5>1. Ascii(e[d])
          BY <4>1, UnicodeKinds DEF Ascii
        <5>2. AsciiKind(e[d]) = "Punctuation"
          BY <4>1 DEF AsciiKind, AsciiBlank, AsciiControl, AsciiLetter, AsciiLower, AsciiUpper,
                      Digit, AsciiPunctuation
        <5>3. QED
          BY <3>2, <5>1, <5>2, ClassIs
      <4>2. CASE e[d] = "apostrophe"
        <5>1. ~ Ascii(e[d]) /\ UnicodeKind[e[d]] = "Punctuation"
          BY <4>2, UnicodeKinds DEF Ascii
        <5>2. QED
          BY <3>2, <5>1, ClassIs
      <4>3. QED
        BY <3>1, <4>1, <4>2 DEF SuffixConnector
    <3>4. d \in DOMAIN e
      <4>1. e \in Seq(STRING) /\ Len(e) = m
        BY PartIs
      <4> HIDE DEF e, m, d
      <4>2. QED
        BY <2>4, <4>1
    <3>5. KindAt(e, d) = "Punctuation"
      BY <3>3, <3>4 DEF KindAt
    <3> HIDE DEF d, e
    <3>6. QED
      BY <3>2, <3>4, <3>5 DEF NumberStep
  <2>8. RunEnd(e, i - a, NumberStep(e)) = d
    <3>1. p \in a + 1 .. b + 1
      BY <1>2, <2>3
    <3>2. RunEnd(text, i, NumberStep(text)) = p
      BY DEF p
    <3>3. QED
      BY <2>7, <3>1, <3>2, DigitSlice
  <2>9. ConsumeWord(e, d + 1) = m + 1
    <3>1. p + 1 \in a + 1 .. b + 1
      BY <1>2, <2>3
    <3>2. ConsumeWord(e, (p + 1) - a) = m + 1
      BY <2>2, <3>1, WordSlice
    <3>3. (p + 1) - a = d + 1
      BY <1>2
    <3>4. QED
      BY <3>2, <3>3
  <2>10. Suffixed(e, d)
    BY <1>3, <2>5, <2>6
  <2> HIDE DEF d, e, m
  <2>11. QED
    BY <1>1, <2>8, <2>9, <2>10 DEF e, m
<1>4. CASE ~ Suffixed(text, p)
  <2>1. p = b + 1
    BY <1>1, <1>4
  <2>2. RunEnd(e, i - a, NumberStep(e)) = m + 1
    <3>1. p \in a + 1 .. b + 1 /\ p - a = m + 1
      BY <2>1
    <3>2. RunEnd(text, i, NumberStep(text)) = p
      BY DEF p
    <3>3. RunEnd(e, i - a, NumberStep(e)) = p - a
      BY <2>1, <3>1, <3>2, DigitSlice
    <3>4. QED
      BY <3>1, <3>3
  <2>3. At(e, m + 1) = "none"
    <3>1. \A k \in Nat : k > m => At(e, k) = "none"
      BY PartIs
    <3>2. m + 1 \in Nat /\ m + 1 > m
      OBVIOUS
    <3> HIDE DEF e, m
    <3>3. QED
      BY <3>1, <3>2
  <2>4. ~ Suffixed(e, m + 1)
    BY <2>3 DEF SuffixConnector
  <2> HIDE DEF e, m
  <2>5. QED
    BY <1>1, <2>2, <2>4 DEF e, m
<1>5. QED
  BY <1>3, <1>4

(* What a specialised run does with an ASCII character.                    *)
LEMMA AsciiStepIs ==
  ASSUME NEW text, NEW j, NEW kind
  PROVE  AsciiStep(text, j, kind) =
           CASE kind = "Whitespace" -> IF text[j] \in AsciiBlank THEN 1 ELSE 0
             [] kind = "LineBreak" ->
                  IF text[j] = "\r" THEN 1 + (IF At(text, j + 1) = "\n" THEN 1 ELSE 0)
                  ELSE IF text[j] = "\n" THEN 1 ELSE 0
             [] kind = "Control" -> IF text[j] \in AsciiControl THEN 1 ELSE 0
             [] kind = "Punctuation" ->
                  IF OperatorAt(text, j) = 0 /\ text[j] \in AsciiPunctuation THEN 1 ELSE 0
             [] kind = "Symbol" ->
                  IF OperatorAt(text, j) > 0 THEN OperatorAt(text, j)
                  ELSE IF AsciiKind(text[j]) = "Symbol" THEN 1 ELSE 0
             [] OTHER -> IF AsciiKind(text[j]) = kind THEN 1 ELSE 0
BY DEF AsciiStep

(* The three ways a specialised run steps. *)
LEMMA SpecialisedStepIs ==
  ASSUME NEW text, NEW kind, NEW j \in DOMAIN text
  PROVE  /\ GenericStep(text, kind)[j] =
              IF ClassifyAt(text, j).kind = kind THEN ClassifyAt(text, j).width ELSE 0
         /\ JoinerStep(text, j) =
              IF j < Len(text) /\ ClassifyAt(text, j + 1).kind = "Symbol"
              THEN 1 + ClassifyAt(text, j + 1).width ELSE 0
         /\ SpecialisedStep(text, kind)[j] =
              IF Ascii(text[j]) /\ kind # "Opaque" THEN AsciiStep(text, j, kind)
              ELSE IF kind = "Symbol" /\ text[j] = "joiner" THEN JoinerStep(text, j)
              ELSE GenericStep(text, kind)[j]
BY DEF GenericStep, JoinerStep, SpecialisedStep

(* Neither kind of step leaves the document. *)
LEMMA KindSteps ==
  ASSUME NEW text \in Seq(STRING), NEW kind
  PROVE  /\ StepsWithin(Len(text), GenericStep(text, kind))
         /\ StepsWithin(Len(text), SpecialisedStep(text, kind))
<1> DEFINE n == Len(text)
<1>1. DOMAIN text = 1 .. n
  OBVIOUS
<1>2. ASSUME NEW j \in 1 .. n
      PROVE  GenericStep(text, kind)[j] \in Nat /\ j + GenericStep(text, kind)[j] <= n + 1
  <2>1. ClassifyAt(text, j).width \in 1 .. 3 /\ j + ClassifyAt(text, j).width <= n + 1
    BY ClassFits
  <2>2. GenericStep(text, kind)[j] \in {0, ClassifyAt(text, j).width}
    BY <1>1, SpecialisedStepIs
  <2>3. QED
    BY <2>1, <2>2
<1>3. ASSUME NEW j \in 1 .. n
      PROVE  JoinerStep(text, j) \in Nat /\ j + JoinerStep(text, j) <= n + 1
  <2>1. CASE j < n /\ ClassifyAt(text, j + 1).kind = "Symbol"
    <3>1. j + 1 \in 1 .. n
      BY <2>1
    <3>2. /\ ClassifyAt(text, j + 1).width \in 1 .. 3
          /\ (j + 1) + ClassifyAt(text, j + 1).width <= n + 1
      BY <3>1, ClassFits
    <3>3. JoinerStep(text, j) = 1 + ClassifyAt(text, j + 1).width
      BY <1>1, <2>1, SpecialisedStepIs
    <3>4. QED
      BY <3>2, <3>3
  <2>2. CASE ~ (j < n /\ ClassifyAt(text, j + 1).kind = "Symbol")
    <3>1. JoinerStep(text, j) = 0
      BY <1>1, <2>2, SpecialisedStepIs
    <3>2. QED
      BY <3>1
  <2>3. QED
    BY <2>1, <2>2
<1>4. ASSUME NEW j \in 1 .. n
      PROVE  AsciiStep(text, j, kind) \in Nat /\ j + AsciiStep(text, j, kind) <= n + 1
  <2>1. OperatorAt(text, j) \in {0, 2, 3} /\ j + OperatorAt(text, j) <= n + 1
    BY OperatorFits
  <2>2. At(text, j + 1) = "\n" => j + 2 <= n + 1
    BY DEF At
  <2>3. \/ AsciiStep(text, j, kind) \in {0, 1, OperatorAt(text, j)}
        \/ AsciiStep(text, j, kind) = 2 /\ At(text, j + 1) = "\n"
    BY AsciiStepIs
  <2>4. QED
    BY <2>1, <2>2, <2>3
<1>5. ASSUME NEW j \in 1 .. n
      PROVE  SpecialisedStep(text, kind)[j] \in
               {AsciiStep(text, j, kind), JoinerStep(text, j), GenericStep(text, kind)[j]}
  BY <1>1, SpecialisedStepIs
<1>6. QED
  BY <1>2, <1>3, <1>4, <1>5 DEF StepsWithin

(* A step of a run that ends within a part is the same step there.         *)
LEMMA StepSlice ==
  ASSUME NEW text \in Seq(STRING), NEW a \in Nat, NEW b \in a .. Len(text), NEW k \in 1 .. b - a,
         NEW kind, SpecialisedStep(text, kind)[a + k] # 0,
         a + k + SpecialisedStep(text, kind)[a + k] <= b + 1
  PROVE  SpecialisedStep(Part(text, a, b), kind)[k] = SpecialisedStep(text, kind)[a + k]
<1> DEFINE n == Len(text)
           m == b - a
           e == Part(text, a, b)
           j == a + k
           st == SpecialisedStep(text, kind)[j]
<1>1. j \in 1 .. n /\ j + 1 = a + (k + 1)
  OBVIOUS
<1>2. /\ e \in Seq(STRING) /\ Len(e) = m /\ DOMAIN e = 1 .. m /\ DOMAIN text = 1 .. n
      /\ e[k] = text[j]
  <2>1. e \in Seq(STRING) /\ Len(e) = m /\ e[k] = text[j]
    BY PartIs
  <2>2. QED
    BY <2>1
<1>3. IF k + 1 <= m THEN At(e, k + 1) = At(text, j + 1) ELSE At(e, k + 1) = "none"
  <2>1. \A i \in 1 .. m : At(e, i) = At(text, a + i)
    BY PartIs
  <2>2. \A i \in Nat : i > m => At(e, i) = "none"
    BY PartIs
  <2> HIDE DEF e
  <2>3. QED
    BY <1>1, <2>1, <2>2
<1>4. st # 0 /\ st \in Nat /\ j + st <= b + 1
  <2>1. st \in Nat
    BY <1>1, KindSteps DEF StepsWithin
  <2>2. QED
    BY <2>1
<1>5. CASE Ascii(text[j]) /\ kind # "Opaque"
  <2>1. st = AsciiStep(text, j, kind)
    BY <1>1, <1>2, <1>5, SpecialisedStepIs
  <2>2. SpecialisedStep(e, kind)[k] = AsciiStep(e, k, kind)
    BY <1>2, <1>5, SpecialisedStepIs
  <2>3. CASE kind \in {"Punctuation", "Symbol"}
    <3>1. OperatorAt(text, j) \in {0, 2, 3}
      BY <1>1, OperatorFits
    <3>2. a + k + OperatorAt(text, a + k) <= b + 1
      <4>1. OperatorAt(text, j) = 0 \/ OperatorAt(text, j) = st
        BY <1>4, <2>1, <2>3, <3>1, AsciiStepIs
      <4>2. QED
        BY <1>4, <4>1
    <3>3. OperatorAt(e, k) = OperatorAt(text, j)
      BY <3>2, OperatorSlice
    <3> HIDE DEF e, st
    <3>4. AsciiStep(e, k, kind) = AsciiStep(text, j, kind)
      BY <1>2, <2>3, <3>3, AsciiStepIs
    <3>5. QED
      BY <2>1, <2>2, <3>4 DEF e, st
  <2>4. CASE kind = "LineBreak"
    <3>1. text[j] = "\r" /\ At(text, j + 1) = "\n" => k + 1 <= m
      <4>1. text[j] = "\r" /\ At(text, j + 1) = "\n" => st = 2
        BY <2>1, <2>4, AsciiStepIs
      <4>2. QED
        BY <1>4, <4>1
    <3>2. text[j] = "\r" => (At(e, k + 1) = "\n" <=> At(text, j + 1) = "\n")
      BY <1>3, <3>1
    <3> HIDE DEF e, st
    <3>3. AsciiStep(e, k, kind) = AsciiStep(text, j, kind)
      BY <1>2, <2>4, <3>2, AsciiStepIs
    <3>4. QED
      BY <2>1, <2>2, <3>3 DEF e, st
  <2>5. CASE kind \notin {"Punctuation", "Symbol", "LineBreak"}
    <3> HIDE DEF e, st
    <3>1. AsciiStep(e, k, kind) = AsciiStep(text, j, kind)
      BY <1>2, <2>5, AsciiStepIs
    <3>2. QED
      BY <2>1, <2>2, <3>1 DEF e, st
  <2>6. QED
    BY <2>3, <2>4, <2>5
<1>6. CASE ~ (Ascii(text[j]) /\ kind # "Opaque") /\ kind = "Symbol" /\ text[j] = "joiner"
  <2>1. st = JoinerStep(text, j)
    BY <1>1, <1>2, <1>6, SpecialisedStepIs
  <2>2. SpecialisedStep(e, kind)[k] = JoinerStep(e, k)
    BY <1>2, <1>6, SpecialisedStepIs
  <2>3. j < n /\ ClassifyAt(text, j + 1).kind = "Symbol" /\ st = 1 + ClassifyAt(text, j + 1).width
    BY <1>1, <1>2, <1>4, <2>1, SpecialisedStepIs
  <2>4. ClassifyAt(text, j + 1).width \in 1 .. 3
    BY <1>1, <2>3, ClassFits
  <2>5. k + 1 \in 1 .. m /\ a + (k + 1) + ClassifyAt(text, a + (k + 1)).width <= b + 1
    BY <1>1, <1>4, <2>3, <2>4
  <2>6. ClassifyAt(e, k + 1) = ClassifyAt(text, j + 1)
    BY <1>1, <2>5, ClassSlice
  <2>7. k < Len(e)
    BY <1>2, <2>5
  <2> HIDE DEF e, st
  <2>8. JoinerStep(e, k) = st
    <3>1. k \in DOMAIN e
      BY <1>2
    <3>2. JoinerStep(e, k) = IF k < Len(e) /\ ClassifyAt(e, k + 1).kind = "Symbol"
                             THEN 1 + ClassifyAt(e, k + 1).width ELSE 0
      BY <3>1, SpecialisedStepIs
    <3>3. QED
      BY <2>3, <2>6, <2>7, <3>2
  <2>9. QED
    BY <2>2, <2>8 DEF e, st
<1>7. CASE ~ (Ascii(text[j]) /\ kind # "Opaque") /\ ~ (kind = "Symbol" /\ text[j] = "joiner")
  <2>1. st = GenericStep(text, kind)[j]
    BY <1>1, <1>2, <1>7, SpecialisedStepIs
  <2>2. SpecialisedStep(e, kind)[k] = GenericStep(e, kind)[k]
    BY <1>2, <1>7, SpecialisedStepIs
  <2>3. ClassifyAt(text, j).kind = kind /\ st = ClassifyAt(text, j).width
    BY <1>1, <1>2, <1>4, <2>1, SpecialisedStepIs
  <2>4. ClassifyAt(e, k) = ClassifyAt(text, j)
    <3>1. a + k + ClassifyAt(text, a + k).width <= b + 1
      BY <1>4, <2>3
    <3>2. QED
      BY <3>1, ClassSlice
  <2> HIDE DEF e, st
  <2>5. GenericStep(e, kind)[k] = st
    BY <1>2, <2>3, <2>4, SpecialisedStepIs
  <2>6. QED
    BY <2>2, <2>5 DEF e, st
<1>8. QED
  BY <1>5, <1>6, <1>7

(* A run of one kind that ends with a part is a run of the part.           *)
LEMMA SameKindSlice ==
  ASSUME NEW text \in Seq(STRING), NEW a \in Nat, NEW b \in a .. Len(text), NEW i \in a + 1 .. b + 1,
         NEW kind, ConsumeSameKind(text, i, kind) = b + 1
  PROVE  ConsumeSameKind(Part(text, a, b), i - a, kind) = (b - a) + 1
<1> DEFINE n == Len(text)
           m == b - a
           e == Part(text, a, b)
           step == SpecialisedStep(text, kind)
           part == SpecialisedStep(e, kind)
           p == b + 1
<1>1. /\ n \in Nat /\ m \in Nat /\ a + m <= n /\ p \in a + 1 .. a + m + 1 /\ p = a + m + 1
      /\ p - 1 = b
  OBVIOUS
<1>2. e \in Seq(STRING) /\ Len(e) = m
  BY PartIs
<1>3. StepsWithin(n, step) /\ StepsWithin(m, part)
  BY <1>2, KindSteps
<1>4a. PICK f : Runs(f, n, step) /\ \A k \in 1 .. n + 1 : RunEnd(text, k, step) = f[k]
  BY <1>3, RunLaw
<1>4. /\ \A k \in 1 .. n + 1 : RunEnd(text, k, step) = f[k]
      /\ \A j \in 1 .. n + 1 : /\ f[j] \in j .. n + 1
                               /\ f[j] = IF j > n \/ step[j] = 0 THEN j ELSE f[j + step[j]]
  BY <1>4a DEF Runs
<1>5. PICK g : Runs(g, m, part) /\ \A k \in 1 .. m + 1 : RunEnd(e, k, part) = g[k]
  <2>1. StepsWithin(Len(e), part)
    BY <1>2, <1>3
  <2> HIDE DEF e, part, m
  <2>2. \E g : /\ Runs(g, Len(e), part)
              /\ \A k \in 1 .. Len(e) + 1 : RunEnd(e, k, part) = g[k]
    BY <1>2, <2>1, RunLaw
  <2>3. QED
    BY <1>2, <2>2
<1>6. f[i] = p
  <2>1. ConsumeSameKind(text, i, kind) = RunEnd(text, i, step)
    BY DEF ConsumeSameKind
  <2>2. i \in 1 .. n + 1
    OBVIOUS
  <2>3. QED
    BY <1>4, <2>1, <2>2
<1>7. \A j \in a + 1 .. p - 1 : f[j] = p => part[j - a] = step[j]
  <2> SUFFICES ASSUME NEW j \in a + 1 .. b, f[j] = p PROVE part[j - a] = step[j]
    BY <1>1
  <2> DEFINE k == j - a
             st == step[j]
  <2>1. j \in 1 .. n /\ k \in 1 .. m /\ a + k = j /\ j # p
    OBVIOUS
  <2>2. st \in Nat /\ j + st <= n + 1
    BY <1>3, <2>1 DEF StepsWithin
  <2>3. st # 0 /\ f[j + st] = p
    BY <1>4, <2>1
  <2>4. j + st <= b + 1
    <3> HIDE DEF st
    <3>1. j + st \in 1 .. n + 1
      BY <2>1, <2>2
    <3>2. f[j + st] \in j + st .. n + 1
      BY <1>4, <3>1
    <3>3. QED
      BY <2>3, <3>2
  <2>5. SpecialisedStep(text, kind)[a + k] # 0 /\ a + k + SpecialisedStep(text, kind)[a + k] <= b + 1
    BY <2>1, <2>3, <2>4
  <2>6. SpecialisedStep(Part(text, a, b), kind)[k] = SpecialisedStep(text, kind)[a + k]
    BY <2>1, <2>5, StepSlice
  <2>7. QED
    BY <2>1, <2>6
<1>8. g[i - a] = p - a
  <2> HIDE DEF m, n, step, part, p
  <2>1. /\ n \in Nat /\ m \in Nat /\ a \in Nat /\ a + m <= n
        /\ StepsWithin(n, step) /\ StepsWithin(m, part)
        /\ Runs(f, n, step) /\ Runs(g, m, part)
        /\ p \in a + 1 .. a + m + 1 /\ (p = a + m + 1 \/ part[p - a] = 0)
        /\ StepsAlike(f, p, step, a, part)
    BY <1>1, <1>3, <1>4a, <1>5, <1>7 DEF StepsAlike
  <2>2. \A j \in a + 1 .. p : f[j] = p => g[j - a] = p - a
    BY <2>1, RunShift
  <2>3. i \in a + 1 .. p
    BY DEF p
  <2>4. QED
    BY <1>6, <2>2, <2>3
<1>9. ConsumeSameKind(e, i - a, kind) = g[i - a]
  <2>1. ConsumeSameKind(e, i - a, kind) = RunEnd(e, i - a, part)
    BY DEF ConsumeSameKind
  <2>2. i - a \in 1 .. m + 1
    OBVIOUS
  <2> HIDE DEF e, part, m
  <2>3. QED
    BY <1>5, <2>1, <2>2
<1>10. QED
  BY <1>8, <1>9

(* What follows the first step of a unit. *)
LEMMA ConsumeIs ==
  ASSUME NEW text, NEW i, NEW kind
  PROVE  /\ kind = "Word" => Consume(text, i, kind) = ConsumeWord(text, i)
         /\ kind = "Number" => Consume(text, i, kind) = ConsumeNumber(text, i)
         /\ kind \notin {"Word", "Number"} => Consume(text, i, kind) = ConsumeSameKind(text, i, kind)
BY DEF Consume

(* A unit ends where its first step does or later, within the document.    *)
LEMMA ConsumeForward ==
  ASSUME NEW text \in Seq(STRING), NEW i \in 1 .. Len(text) + 1, NEW kind
  PROVE  Consume(text, i, kind) \in i .. Len(text) + 1
<1> DEFINE n == Len(text)
<1>1. \A step : StepsWithin(n, step) => \A k \in 1 .. n + 1 : RunEnd(text, k, step) \in k .. n + 1
  <2> SUFFICES ASSUME NEW step, StepsWithin(n, step)
               PROVE  \A k \in 1 .. n + 1 : RunEnd(text, k, step) \in k .. n + 1
    OBVIOUS
  <2>1. PICK f : Runs(f, n, step) /\ \A k \in 1 .. n + 1 : RunEnd(text, k, step) = f[k]
    BY RunLaw
  <2>2. QED
    BY <2>1 DEF Runs
<1>2. \A k \in 1 .. n + 1 : ConsumeWord(text, k) \in k .. n + 1
  BY <1>1, WordSteps DEF ConsumeWord, WordStep
<1>3. \A k \in 1 .. n + 1 : RunEnd(text, k, NumberStep(text)) \in k .. n + 1
  BY <1>1, WordSteps
<1>4. ConsumeSameKind(text, i, kind) \in i .. n + 1
  <2>1. StepsWithin(n, SpecialisedStep(text, kind))
    BY KindSteps
  <2>2. QED
    BY <1>1, <2>1 DEF ConsumeSameKind
<1>5. ConsumeNumber(text, i) \in i .. n + 1
  <2> DEFINE p == RunEnd(text, i, NumberStep(text))
             suffixed == At(text, p) \in SuffixConnector /\ KindAt(text, p + 1) = "Word"
  <2>1. p \in i .. n + 1
    BY <1>3
  <2>2. ConsumeNumber(text, i) = IF suffixed THEN ConsumeWord(text, p + 1) ELSE p
    BY DEF ConsumeNumber, NumberStep
  <2> HIDE DEF p
  <2>3. suffixed => p + 1 \in 1 .. n
    <3> SUFFICES ASSUME suffixed PROVE p + 1 \in 1 .. n
      OBVIOUS
    <3>1. p + 1 \in Nat /\ KindAt(text, p + 1) \in {"Word", "Number"}
      BY <2>1
    <3>2. QED
      BY <3>1, NoKindBeyond
  <2> HIDE DEF suffixed
  <2>4. CASE suffixed
    <3>1. ConsumeWord(text, p + 1) \in p + 1 .. n + 1
      BY <1>2, <2>3, <2>4
    <3>2. QED
      BY <2>1, <2>2, <2>4, <3>1
  <2>5. CASE ~ suffixed
    BY <2>1, <2>2, <2>5
  <2>6. QED
    BY <2>4, <2>5
<1>6. QED
  BY <1>2, <1>4, <1>5, ConsumeIs

(* A unit: where it ends, and that its bytes alone are the same unit.      *)
LEMMA UnitAlone ==
  ASSUME NEW text \in Seq(STRING), NEW a \in 0 .. Len(text) - 1
  PROVE  /\ NextUnit(text, a).start = a
         /\ NextUnit(text, a).kind = ClassifyAt(text, a + 1).kind
         /\ NextUnit(text, a).end =
              Consume(text, a + 1 + ClassifyAt(text, a + 1).width, ClassifyAt(text, a + 1).kind) - 1
         /\ NextUnit(text, a).end \in a + 1 .. Len(text)
         /\ NextUnit(Part(text, a, NextUnit(text, a).end), 0) =
              [start |-> 0, end |-> NextUnit(text, a).end - a, kind |-> NextUnit(text, a).kind]
<1> DEFINE n == Len(text)
           class == ClassifyAt(text, a + 1)
           w == class.width
           kind == class.kind
           i == a + 1 + w
           b == Consume(text, i, kind) - 1
           e == Part(text, a, b)
<1>1. NextUnit(text, a) = [start |-> a, end |-> b, kind |-> kind]
  BY DEF NextUnit, UnitOf
<1>2. w \in 1 .. 3 /\ i \in 1 .. n + 1 /\ kind \in AllKinds
  <2>1. a + 1 \in 1 .. n
    OBVIOUS
  <2>2. w \in 1 .. 3 /\ (a + 1) + w <= n + 1 /\ kind \in AllKinds
    BY <2>1, ClassFits
  <2>3. QED
    BY <2>1, <2>2
<1>3. Consume(text, i, kind) \in i .. n + 1
  BY <1>2, ConsumeForward
<1> HIDE DEF class, w, kind
<1>4. b + 1 = Consume(text, i, kind) /\ b \in a .. n /\ b \in a + 1 .. n /\ i \in a + 1 .. b + 1
  BY <1>2, <1>3
<1> HIDE DEF b
<1>5. ClassifyAt(e, 1) = class
  <2>1. 1 \in 1 .. b - a /\ a + 1 + ClassifyAt(text, a + 1).width <= b + 1
    BY <1>4 DEF w, class
  <2>2. QED
    BY <1>4, <2>1, ClassSlice DEF class
<1>6. Consume(e, 1 + w, kind) = (b - a) + 1
  <2>1. i - a = 1 + w
    BY <1>2
  <2> HIDE DEF i
  <2>2. CASE kind = "Word"
    <3>1. ConsumeWord(e, i - a) = (b - a) + 1
      BY <1>4, <2>2, ConsumeIs, WordSlice
    <3>2. QED
      BY <2>1, <2>2, <3>1, ConsumeIs
  <2>3. CASE kind = "Number"
    <3>1. ConsumeNumber(e, i - a) = (b - a) + 1
      BY <1>4, <2>3, ConsumeIs, NumberSlice
    <3>2. QED
      BY <2>1, <2>3, <3>1, ConsumeIs
  <2>4. CASE kind \notin {"Word", "Number"}
    <3>1. ConsumeSameKind(text, i, kind) = b + 1
      BY <1>4, <2>4, ConsumeIs
    <3>2. ConsumeSameKind(e, i - a, kind) = (b - a) + 1
      BY <1>4, <3>1, SameKindSlice
    <3>3. QED
      BY <2>1, <2>4, <3>2, ConsumeIs
  <2>5. QED
    BY <2>2, <2>3, <2>4
<1>7. NextUnit(e, 0) = [start |-> 0, end |-> b - a, kind |-> kind]
  <2>1. NextUnit(e, 0) = [start |-> 0, end |-> Consume(e, 0 + 1 + class.width, class.kind) - 1,
                          kind |-> class.kind]
    BY <1>5 DEF NextUnit, UnitOf
  <2>2. 0 + 1 + class.width = 1 + w
    BY DEF w
  <2>3. ((b - a) + 1) - 1 = b - a
    BY <1>4
  <2>4. QED
    BY <1>6, <2>1, <2>2, <2>3 DEF kind
<1>8. QED
  BY <1>1, <1>4, <1>7 DEF b, i, w, kind, class

-----------------------------------------------------------------------------
(* An ASCII character ends a specialised run where the classifier, asked,  *)
(* would have ended it.                                                    *)
LEMMA AsciiAgrees ==
  ASSUME NEW text \in Seq(STRING), NEW j \in 1 .. Len(text), Ascii(text[j]),
         NEW kind \in AllKinds \ {"Word", "Number", "Opaque"}
  PROVE  AsciiStep(text, j, kind) = GenericStep(text, kind)[j]
<1> DEFINE char == text[j]
           op == OperatorAt(text, j)
           w == IF char = "\r" /\ At(text, j + 1) = "\n" THEN 2 ELSE 1
<1>1. GenericStep(text, kind)[j] =
        IF ClassifyAt(text, j).kind = kind THEN ClassifyAt(text, j).width ELSE 0
  <2>1. j \in DOMAIN text
    OBVIOUS
  <2>2. QED
    BY <2>1, SpecialisedStepIs
<1>2. op \in {0, 2, 3}
  BY OperatorFits
<1>3. op > 0 => char \in OperatorStart
  BY DEF OperatorAt
<1>4. CASE op > 0
  <2>1. ClassifyAt(text, j) = [kind |-> "Symbol", width |-> op]
    BY <1>4, ClassIs
  <2>2. char \notin AsciiBlank \cup AsciiControl \cup {"\r", "\n"}
    BY <1>3, <1>4 DEF OperatorStart, AsciiBlank, AsciiControl
  <2>3. GenericStep(text, kind)[j] = IF kind = "Symbol" THEN op ELSE 0
    BY <1>1, <2>1
  <2>4. AsciiStep(text, j, kind) = IF kind = "Symbol" THEN op ELSE 0
    BY <1>4, <2>2, AsciiStepIs DEF AllKinds
  <2>5. QED
    BY <2>3, <2>4
<1>5. CASE op = 0
  <2>1. ClassifyAt(text, j) = [kind |-> AsciiKind(char), width |-> w]
    BY <1>5, ClassIs
  <2>2. GenericStep(text, kind)[j] = IF AsciiKind(char) = kind THEN w ELSE 0
    BY <1>1, <2>1
  <2>3. /\ AsciiKind(char) = "LineBreak" <=> char \in {"\n", "\r"}
        /\ AsciiKind(char) = "Whitespace" <=> char \in AsciiBlank
        /\ AsciiKind(char) = "Control" <=> char \in AsciiControl
        /\ AsciiKind(char) = "Punctuation" <=> char \in AsciiPunctuation
        /\ char = "\r" => AsciiKind(char) = "LineBreak"
    BY DEF AsciiKind, AsciiBlank, AsciiControl, AsciiLetter, AsciiLower, AsciiUpper, Digit,
           AsciiPunctuation
  <2>4. AsciiStep(text, j, kind) = IF AsciiKind(char) = kind THEN w ELSE 0
    <3>1. CASE kind = "LineBreak"
      BY <2>3, <3>1, AsciiStepIs
    <3>2. CASE kind \in {"Whitespace", "Control", "Punctuation"}
      BY <1>5, <2>3, <3>2, AsciiStepIs
    <3>3. CASE kind = "Symbol"
      BY <1>5, <2>3, <3>3, AsciiStepIs
    <3>4. QED
      BY <3>1, <3>2, <3>3 DEF AllKinds
  <2>5. QED
    BY <2>2, <2>4
<1>6. QED
  BY <1>2, <1>4, <1>5

(* Only at a joiner do the specialised and the generic step differ.        *)
LEMMA StepsAgree ==
  ASSUME NEW text \in Seq(STRING), NEW j \in 1 .. Len(text),
         NEW kind \in AllKinds \ {"Word", "Number"}
  PROVE  \/ SpecialisedStep(text, kind)[j] = GenericStep(text, kind)[j]
         \/ kind = "Symbol" /\ text[j] = "joiner" /\ GenericStep(text, kind)[j] = 0
<1>1. j \in DOMAIN text
  OBVIOUS
<1>2. CASE Ascii(text[j]) /\ kind # "Opaque"
  BY <1>1, <1>2, AsciiAgrees, SpecialisedStepIs
<1>3. CASE ~ (Ascii(text[j]) /\ kind # "Opaque") /\ kind = "Symbol" /\ text[j] = "joiner"
  <2>1. ~ Ascii(text[j]) /\ UnicodeKind[text[j]] = "Punctuation"
    BY <1>3, UnicodeKinds
  <2>2. OperatorAt(text, j) = 0
    BY <1>3 DEF OperatorAt, OperatorStart
  <2>3. ClassifyAt(text, j).kind = "Punctuation"
    BY <2>1, <2>2, ClassIs
  <2>4. GenericStep(text, kind)[j] = 0
    BY <1>1, <1>3, <2>3, SpecialisedStepIs
  <2>5. QED
    BY <1>3, <2>4
<1>4. CASE ~ (Ascii(text[j]) /\ kind # "Opaque") /\ ~ (kind = "Symbol" /\ text[j] = "joiner")
  BY <1>1, <1>4, SpecialisedStepIs
<1>5. QED
  BY <1>2, <1>3, <1>4

(* So they end together, or the generic run at a joiner before the other.  *)
LEMMA RunsAgree ==
  ASSUME NEW text \in Seq(STRING), NEW i \in 1 .. Len(text) + 1,
         NEW kind \in AllKinds \ {"Word", "Number"}, NEW stop, NEW early,
         stop = ConsumeSameKind(text, i, kind), early = RunEnd(text, i, GenericStep(text, kind))
  PROVE  \/ early = stop
         \/ kind = "Symbol" /\ early < stop /\ text[early] = "joiner"
<1> DEFINE n == Len(text)
           step == SpecialisedStep(text, kind)
           generic == GenericStep(text, kind)
<1>1. n \in Nat /\ StepsWithin(n, step) /\ StepsWithin(n, generic)
  BY KindSteps
<1>2. PICK f : Runs(f, n, step) /\ \A k \in 1 .. n + 1 : RunEnd(text, k, step) = f[k]
  BY <1>1, RunLaw
<1>3. PICK g : Runs(g, n, generic) /\ \A k \in 1 .. n + 1 : RunEnd(text, k, generic) = g[k]
  BY <1>1, RunLaw
<1>4. \A j \in 1 .. n : \/ step[j] = generic[j]
                        \/ kind = "Symbol" /\ text[j] = "joiner" /\ generic[j] = 0
  BY StepsAgree
<1>5. \A j \in 1 .. n : step[j] \in Nat /\ j + step[j] <= n + 1
  BY <1>1 DEF StepsWithin
<1>6. /\ \A j \in 1 .. n + 1 : /\ f[j] \in j .. n + 1
                               /\ f[j] = IF j > n \/ step[j] = 0 THEN j ELSE f[j + step[j]]
      /\ \A j \in 1 .. n + 1 : /\ g[j] \in j .. n + 1
                               /\ g[j] = IF j > n \/ generic[j] = 0 THEN j ELSE g[j + generic[j]]
  BY <1>2, <1>3 DEF Runs
<1>7. stop = f[i] /\ early = g[i]
  BY <1>2, <1>3 DEF ConsumeSameKind
<1> HIDE DEF n, step, generic
<1> DEFINE Agree(j) == \/ g[j] = f[j]
                       \/ kind = "Symbol" /\ g[j] < f[j] /\ text[g[j]] = "joiner"
           S == {k \in Nat : \A j \in 1 .. n + 1 : n + 1 - j <= k => Agree(j)}
<1>8. 0 \in S
  <2> SUFFICES ASSUME NEW j \in 1 .. n + 1, n + 1 - j <= 0 PROVE Agree(j)
    OBVIOUS
  <2>1. j = n + 1 /\ j > n
    BY <1>1
  <2>2. QED
    BY <1>6, <2>1
<1>9. \A k \in Nat : k \in S => k + 1 \in S
  <2> TAKE k \in Nat
  <2> HAVE k \in S
  <2>1. \A j \in 1 .. n + 1 : n + 1 - j <= k => Agree(j)
    OBVIOUS
  <2> SUFFICES ASSUME NEW j \in 1 .. n + 1, n + 1 - j <= k + 1 PROVE Agree(j)
    OBVIOUS
  <2> HIDE DEF S, Agree
  <2>2. CASE j > n
    BY <1>6, <2>2 DEF Agree
  <2>3. CASE ~ (j > n) /\ step[j] = generic[j] /\ step[j] = 0
    BY <1>6, <2>3 DEF Agree
  <2>4. CASE ~ (j > n) /\ step[j] = generic[j] /\ step[j] # 0
    <3> DEFINE next == j + step[j]
    <3>1. j \in 1 .. n /\ next \in 1 .. n + 1 /\ j < next
      BY <1>1, <1>5, <2>4
    <3>2. f[j] = f[next] /\ g[j] = g[next]
      BY <1>6, <2>4
    <3> HIDE DEF next
    <3>3. n + 1 - next <= k
      BY <1>1, <3>1
    <3>4. Agree(next)
      BY <2>1, <3>1, <3>3
    <3>5. QED
      BY <3>2, <3>4 DEF Agree
  <2>5. CASE /\ ~ (j > n) /\ step[j] # generic[j]
             /\ kind = "Symbol" /\ text[j] = "joiner" /\ generic[j] = 0
    <3>1. g[j] = j /\ f[j] \in j .. n + 1
      BY <1>6, <2>5
    <3>2. CASE f[j] = j
      BY <3>1, <3>2 DEF Agree
    <3>3. CASE f[j] # j
      <4>1. g[j] < f[j]
        BY <1>1, <3>1, <3>3
      <4>2. QED
        BY <2>5, <3>1, <4>1 DEF Agree
    <3>4. QED
      BY <3>2, <3>3
  <2>6. ~ (j > n) => j \in 1 .. n
    BY <1>1
  <2>7. QED
    BY <1>4, <2>2, <2>3, <2>4, <2>5, <2>6
<1>10. Nat \subseteq S
  <2> HIDE DEF S
  <2> QED BY <1>8, <1>9, NatSetInduction
<1>11. n + 1 - i \in S
  <2>1. n + 1 - i \in Nat
    BY <1>1 DEF n
  <2> HIDE DEF S
  <2>2. QED
    BY <1>10, <2>1
<1>12. i \in 1 .. n + 1
  BY DEF n
<1>13. Agree(i)
  BY <1>1, <1>11, <1>12
<1>14. QED
  BY <1>7, <1>13
-----------------------------------------------------------------------------
(* The units that scanning can give. *)
ScannedUnits(text) == {NextUnit(text, a) : a \in 0 .. Len(text) - 1}

(* What every step of a scan keeps: each unit is the one that the scanner  *)
(* gives at the place where it begins.                                     *)
ScanInv == raw \in Seq(STRING) /\ units \in Seq(ScannedUnits(raw))

(* ScanInv holds at first, and every step of the scan keeps it.            *)
LEMMA SpecScanInv == Spec => []ScanInv
<1>1. Init => ScanInv
  BY DocumentConstants DEF Init, ScanInv
<1>2. ScanInv /\ [Next]_vars => ScanInv'
  <2> SUFFICES ASSUME ScanInv, [Next]_vars PROVE ScanInv'
    OBVIOUS
  <2>1. raw \in Seq(STRING) /\ units \in Seq(ScannedUnits(raw)) /\ Len(raw) \in Nat
    BY DEF ScanInv
  <2>2. CASE ScanUnit
    <3>1. raw' = raw /\ units' = Append(units, NextUnit(raw, Scanned)) /\ Scanned < Len(raw)
      BY <2>2 DEF ScanUnit
    <3>2. Scanned \in Nat
      <4>1. CASE units = <<>>
        BY <4>1 DEF Scanned
      <4>2. CASE units # <<>>
        <5>1. Last(units) \in ScannedUnits(raw)
          BY <2>1, <4>2 DEF Last
        <5>2. PICK a \in 0 .. Len(raw) - 1 : Last(units) = NextUnit(raw, a)
          BY <5>1 DEF ScannedUnits
        <5>3. NextUnit(raw, a).end \in a + 1 .. Len(raw)
          BY <2>1, UnitAlone
        <5>4. Last(units).end \in Nat
          BY <2>1, <5>2, <5>3
        <5>5. QED
          BY <4>2, <5>4 DEF Scanned
      <4>3. QED
        BY <4>1, <4>2
    <3>3. Scanned \in 0 .. Len(raw) - 1
      BY <2>1, <3>1, <3>2
    <3> HIDE DEF Scanned
    <3>4. NextUnit(raw, Scanned) \in ScannedUnits(raw)
      BY <3>3 DEF ScannedUnits
    <3> DEFINE U == ScannedUnits(raw)
               unit == NextUnit(raw, Scanned)
    <3> HIDE DEF U, unit
    <3>5. Append(units, unit) \in Seq(U)
      BY <2>1, <3>4 DEF U, unit
    <3>6. QED
      BY <2>1, <3>1, <3>5 DEF ScanInv, U, unit
  <2>3. CASE FinishScan \/ Detect \/ UNCHANGED vars
    <3>1. raw' = raw /\ units' = units
      BY <2>3 DEF FinishScan, Detect, vars
    <3>2. QED
      BY <2>1, <3>1 DEF ScanInv
  <2>4. QED
    BY <2>2, <2>3 DEF Next
<1>3. QED
  BY <1>1, <1>2, PTL DEF Spec

(* What a unit of the scan is. *)
LEMMA UnitsScanned ==
  ASSUME ScanInv, NEW unit \in ToSet(units)
  PROVE  /\ raw \in Seq(STRING) /\ unit.start \in 0 .. Len(raw) - 1
         /\ unit = NextUnit(raw, unit.start)
<1>1. raw \in Seq(STRING) /\ units \in Seq(ScannedUnits(raw))
  BY DEF ScanInv
<1>2. unit \in ScannedUnits(raw)
  <2>1. PICK k \in DOMAIN units : unit = units[k]
    BY DEF ToSet
  <2> DEFINE U == ScannedUnits(raw)
  <2> HIDE DEF U
  <2>2. units \in Seq(U)
    BY <1>1 DEF U
  <2>3. unit \in U
    BY <2>1, <2>2
  <2>4. QED
    BY <2>3 DEF U
<1>3. PICK a \in 0 .. Len(raw) - 1 : unit = NextUnit(raw, a)
  BY <1>2 DEF ScannedUnits
<1>4. NextUnit(raw, a).start = a
  BY <1>1, UnitAlone
<1>5. QED
  BY <1>1, <1>3, <1>4

(* A unit does not depend on what surrounds it (UnitsAreContextFree): the  *)
(* caches that key analyses and programs by the bytes of units may replay  *)
(* them wherever those bytes come again.                                   *)
THEOREM ScannedUnitsAreContextFree == Spec => []UnitsAreContextFree
<1>1. ScanInv => UnitsAreContextFree
  <2> SUFFICES ASSUME ScanInv, NEW unit \in ToSet(units)
               PROVE  NextUnit(Bytes(raw, unit), 0) =
                        [start |-> 0, end |-> unit.end - unit.start, kind |-> unit.kind]
    BY DEF UnitsAreContextFree
  <2> DEFINE a == unit.start
  <2>1. raw \in Seq(STRING) /\ a \in 0 .. Len(raw) - 1 /\ unit = NextUnit(raw, a)
    BY UnitsScanned
  <2>2. Bytes(raw, unit) = Part(raw, a, unit.end)
    BY DEF Bytes, Part
  <2>3. NextUnit(Part(raw, a, NextUnit(raw, a).end), 0) =
          [start |-> 0, end |-> NextUnit(raw, a).end - a, kind |-> NextUnit(raw, a).kind]
    BY <2>1, UnitAlone
  <2> HIDE DEF a
  <2>4. QED
    BY <2>1, <2>2, <2>3 DEF a
<1>2. QED
  BY <1>1, SpecScanInv, PTL

(* The specialised run consumers end a run where the generic one does, but *)
(* for symbols that go on through a joiner (SpecialisedRunsAgree).         *)
THEOREM SpecialisedRunsAreExact == Spec => []SpecialisedRunsAgree
<1>1. ScanInv => SpecialisedRunsAgree
  <2> SUFFICES ASSUME ScanInv, NEW unit \in ToSet(units), unit.kind \notin {"Word", "Number"}
               PROVE  \E width \in {ClassifyAt(raw, unit.start + 1).width} :
                        \E generic \in {RunEnd(raw, unit.start + 1 + width,
                                               GenericStep(raw, unit.kind)) - 1} :
                          \/ generic = unit.end
                          \/ /\ unit.kind = "Symbol" /\ generic < unit.end
                             /\ raw[generic + 1] = "joiner"
    BY DEF SpecialisedRunsAgree
  <2> DEFINE a == unit.start
             kind == unit.kind
             i == a + 1 + ClassifyAt(raw, a + 1).width
             stop == ConsumeSameKind(raw, i, kind)
             early == RunEnd(raw, i, GenericStep(raw, kind))
  <2>1. raw \in Seq(STRING) /\ a \in 0 .. Len(raw) - 1 /\ unit = NextUnit(raw, a)
    BY UnitsScanned
  <2>2. kind = ClassifyAt(raw, a + 1).kind /\ unit.end = Consume(raw, i, kind) - 1
    <3>1. /\ NextUnit(raw, a).kind = ClassifyAt(raw, a + 1).kind
          /\ NextUnit(raw, a).end = Consume(raw, i, ClassifyAt(raw, a + 1).kind) - 1
      BY <2>1, UnitAlone
    <3> HIDE DEF a, i
    <3>2. QED
      BY <2>1, <3>1
  <2>3. i \in 1 .. Len(raw) + 1 /\ kind \in AllKinds
    <3>1. a + 1 \in 1 .. Len(raw)
      BY <2>1
    <3>2. /\ ClassifyAt(raw, a + 1).width \in 1 .. 3
          /\ (a + 1) + ClassifyAt(raw, a + 1).width <= Len(raw) + 1
          /\ ClassifyAt(raw, a + 1).kind \in AllKinds
      BY <2>1, <3>1, ClassFits
    <3>3. QED
      BY <2>2, <3>1, <3>2
  <2> HIDE DEF a, i, kind
  <2>4. unit.end = stop - 1
    BY <2>2, ConsumeIs DEF kind
  <2>5. stop \in Nat /\ early \in Nat
    <3>1. StepsWithin(Len(raw), GenericStep(raw, kind)) /\ StepsWithin(Len(raw), SpecialisedStep(raw, kind))
      BY <2>1, KindSteps
    <3>2. early \in i .. Len(raw) + 1
      BY <2>1, <2>3, <3>1, RunLaw DEF Runs
    <3>3. stop \in i .. Len(raw) + 1
      BY <2>1, <2>3, <3>1, RunLaw DEF Runs, ConsumeSameKind
    <3>4. QED
      BY <2>3, <3>2, <3>3
  <2>6. \/ early = stop
        \/ kind = "Symbol" /\ early < stop /\ raw[early] = "joiner"
    <3>1. kind \in AllKinds \ {"Word", "Number"}
      BY <2>3 DEF kind
    <3>2. QED
      BY <2>1, <2>3, <3>1, RunsAgree
  <2> HIDE DEF stop, early
  <2>7. /\ (early - 1) + 1 = early
        /\ early = stop => early - 1 = unit.end
        /\ early < stop => early - 1 < unit.end
    BY <2>4, <2>5
  <2>8. QED
    BY <2>6, <2>7 DEF a, i, kind, early
<1>2. QED
  BY <1>1, SpecScanInv, PTL

-----------------------------------------------------------------------------
(* The lines a text can have. *)
Lines(text) == {ReadLine(text, s, e) : s \in Nat, e \in Nat}

(* A line goes on with a block only when it is not prose.                  *)
LEMMA SafeIsNotProse ==
  ASSUME NEW text, NEW line \in Lines(text)
  PROVE  /\ line.start \in Nat /\ line.end \in Nat
         /\ line.safe => ~line.prose
<1>1. PICK s \in Nat, e \in Nat : line = ReadLine(text, s, e)
  BY DEF Lines
<1>2. ReadLine(text, s, e).start = s /\ ReadLine(text, s, e).end = e
  BY DEF ReadLine, CodeLine
<1>3. ReadLine(text, s, e).safe => ~ReadLine(text, s, e).prose
  BY DEF ReadLine, CodeLine
<1>4. QED
  BY <1>1, <1>2, <1>3

(* Lines one after the other, from the beginning of a text to place e.     *)
Tiled(text, lines, e) ==
  /\ lines \in Seq(Lines(text))
  /\ \A k \in 1 .. Len(lines) :
       /\ lines[k].start = IF k = 1 THEN 0 ELSE lines[k - 1].end
       /\ lines[k].start < lines[k].end
       /\ lines[k].end <= e

(* A line that is added begins where the last one ended.                   *)
LEMMA AddLineTiles ==
  ASSUME NEW text \in Seq(STRING), NEW i \in 1 .. Len(text), NEW lines, Tiled(text, lines, i - 1)
  PROVE  Tiled(text, AddLine(text, lines, i), i)
<1>1. /\ lines \in Seq(Lines(text)) /\ i \in Nat /\ i - 1 \in Nat
      /\ Len(lines) \in Nat
      /\ \A k \in 1 .. Len(lines) : lines[k] \in Lines(text)
  BY DEF Tiled
<1>2. \A k \in 1 .. Len(lines) : /\ lines[k].start \in Nat /\ lines[k].end \in Nat
                                 /\ lines[k].start = IF k = 1 THEN 0 ELSE lines[k - 1].end
                                 /\ lines[k].start < lines[k].end
                                 /\ lines[k].end <= i - 1 /\ lines[k].end <= i
  BY <1>1, SafeIsNotProse DEF Tiled
<1>3. CASE ~(text[i] = "\n" \/ i = Len(text))
  BY <1>1, <1>2, <1>3 DEF Tiled, AddLine
<1>4. CASE text[i] = "\n" \/ i = Len(text)
  <2> DEFINE m == Len(lines)
             s == IF lines = <<>> THEN 0 ELSE lines[m].end
             line == ReadLine(text, s, i)
             longer == Append(lines, line)
  <2>1. s \in Nat /\ s <= i - 1
    <3>1. CASE lines = <<>>
      BY <1>1, <3>1
    <3>2. CASE lines # <<>>
      <4>1. m \in 1 .. m
        BY <1>1, <3>2
      <4>2. QED
        BY <1>2, <3>2, <4>1
    <3>3. QED
      BY <3>1, <3>2
  <2>2. line \in Lines(text) /\ line.start = s /\ line.end = i
    <3>1. line \in Lines(text)
      BY <1>1, <2>1 DEF Lines
    <3>2. line.start = s /\ line.end = i
      BY DEF ReadLine, CodeLine
    <3>3. QED
      BY <3>1, <3>2
  <2>3. s = IF m + 1 = 1 THEN 0 ELSE lines[m].end
    BY <1>1
  <2>4. AddLine(text, lines, i) = longer
    BY <1>4 DEF AddLine
  <2> HIDE DEF s, line
  <2>5. /\ longer \in Seq(Lines(text)) /\ Len(longer) = m + 1 /\ longer[m + 1] = line
        /\ \A k \in 1 .. m : longer[k] = lines[k]
    BY <1>1, <2>2
  <2> HIDE DEF longer, m
  <2>6. ASSUME NEW k \in 1 .. m + 1
        PROVE  /\ longer[k].start = IF k = 1 THEN 0 ELSE longer[k - 1].end
               /\ longer[k].start < longer[k].end /\ longer[k].end <= i
    <3>1. CASE k = m + 1
      <4>1. m \in Nat /\ (k = 1 <=> m + 1 = 1) /\ k - 1 = m /\ (m # 0 => m \in 1 .. m)
        BY <1>1, <3>1 DEF m
      <4>2. k # 1 => longer[k - 1] = lines[m]
        BY <2>5, <4>1
      <4>3. s = IF k = 1 THEN 0 ELSE longer[k - 1].end
        BY <2>3, <4>1, <4>2
      <4>4. s < i
        BY <1>1, <2>1
      <4>5. QED
        BY <1>1, <2>2, <2>5, <3>1, <4>3, <4>4
    <3>2. CASE k \in 1 .. m
      <4>1. m \in Nat /\ (k # 1 => k - 1 \in 1 .. m)
        BY <1>1, <3>2 DEF m
      <4>2. longer[k] = lines[k] /\ (k # 1 => longer[k - 1] = lines[k - 1])
        BY <2>5, <3>2, <4>1
      <4>3. /\ lines[k].start = IF k = 1 THEN 0 ELSE lines[k - 1].end
            /\ lines[k].start < lines[k].end /\ lines[k].end <= i
        BY <1>2, <3>2 DEF m
      <4>4. QED
        BY <4>2, <4>3
    <3>3. m \in Nat
      BY <1>1 DEF m
    <3>4. QED
      BY <3>1, <3>2, <3>3
  <2>7. Tiled(text, longer, i)
    BY <2>5, <2>6 DEF Tiled
  <2>8. QED
    BY <2>4, <2>7
<1>5. QED
  BY <1>3, <1>4

(* The lines of a text tile it. *)
LEMMA CodeLinesTile ==
  ASSUME NEW text \in Seq(STRING)
  PROVE  Tiled(text, CodeLines(text), Len(text))
<1> DEFINE n == Len(text)
           T == Seq(Lines(text))
           Law(f) == f = [i \in 0 .. n |-> IF i = 0 THEN <<>> ELSE AddLine(text, f[i - 1], i)]
           Step == [x \in T \X (1 .. n) |-> AddLine(text, x[1], x[2])]
<1>1. n \in Nat /\ <<>> \in T
  OBVIOUS
<1>2. \E f : Law(f)
  <2>1. ASSUME NEW lines \in T, NEW i \in 1 .. n PROVE AddLine(text, lines, i) \in T
    <3>1. i \in Nat /\ Len(lines) \in Nat
          /\ (lines # <<>> => Len(lines) \in 1 .. Len(lines) /\ lines[Len(lines)] \in Lines(text))
      OBVIOUS
    <3> DEFINE s == IF lines = <<>> THEN 0 ELSE lines[Len(lines)].end
    <3>2. s \in Nat
      <4>1. lines # <<>> => lines[Len(lines)].end \in Nat
        BY <3>1, SafeIsNotProse
      <4>2. QED
        BY <4>1
    <3>3. ReadLine(text, s, i) \in Lines(text)
      BY <3>1, <3>2 DEF Lines
    <3>4. AddLine(text, lines, i) =
            IF text[i] = "\n" \/ i = Len(text) THEN Append(lines, ReadLine(text, s, i)) ELSE lines
      BY DEF AddLine
    <3> HIDE DEF s
    <3>5. QED
      BY <3>3, <3>4
  <2>2. Step \in [T \X (1 .. n) -> T]
    <3> HIDE DEF T
    <3> QED BY <2>1
  <2>3. PICK h : IsRecursion(h, n, T, <<>>, Step)
    <3> HIDE DEF Step, T
    <3> QED BY <1>1, <2>2, RecursionExists
  <2>4. /\ h \in [0 .. n -> T] /\ h[0] = <<>>
        /\ \A k \in 1 .. n : h[k] = Step[<<h[k - 1], k>>]
    BY <2>3 DEF IsRecursion
  <2> HIDE DEF n, T
  <2>5. \A k \in 1 .. n : h[k] = AddLine(text, h[k - 1], k)
    <3>1. \A k \in 1 .. n : k - 1 \in 0 .. n
      BY <1>1
    <3>2. \A k \in 1 .. n : h[k - 1] \in T
      BY <2>4, <3>1
    <3>3. QED
      BY <2>4, <3>2
  <2>6. \A i \in 0 .. n : h[i] = IF i = 0 THEN <<>> ELSE AddLine(text, h[i - 1], i)
    <3>1. \A i \in 0 .. n : i = 0 \/ (i \in 1 .. n /\ i # 0)
      BY <1>1
    <3>2. h[0] = <<>>
      BY <2>4
    <3>3. QED
      BY ONLY <2>5, <3>1, <3>2
  <2>7. h = [i \in 0 .. n |-> h[i]]
    BY <2>4
  <2>8. Law(h)
    BY <2>6, <2>7
  <2> HIDE DEF Law
  <2>9. QED
    BY <2>8
<1> DEFINE f == CHOOSE f : Law(f)
<1>3. Law(f)
  <2> HIDE DEF Law
  <2> QED BY <1>2
<1>4. CodeLines(text) = f[n]
  BY DEF CodeLines
<1> HIDE DEF f, Step, T
<1>5. f[0] = <<>> /\ \A i \in 1 .. n : f[i] = AddLine(text, f[i - 1], i)
  <2>1. \A i \in 0 .. n : f[i] = IF i = 0 THEN <<>> ELSE AddLine(text, f[i - 1], i)
    BY <1>3
  <2>2. 0 \in 0 .. n /\ \A i \in 1 .. n : i \in 0 .. n /\ i # 0
    BY <1>1
  <2> HIDE DEF Law, n
  <2>3. QED
    BY <2>1, <2>2
<1> HIDE DEF Law
<1> DEFINE S == {i \in Nat : i <= n => Tiled(text, f[i], i)}
<1>6. 0 \in S
  <2>1. Tiled(text, <<>>, 0)
    BY DEF Tiled
  <2>2. QED
    BY <1>5, <2>1
<1>7. ASSUME NEW i \in Nat, i \in S PROVE i + 1 \in S
  <2> SUFFICES ASSUME i + 1 <= n PROVE Tiled(text, f[i + 1], i + 1)
    OBVIOUS
  <2>1. i + 1 \in 1 .. n /\ (i + 1) - 1 = i /\ i <= n
    BY <1>1
  <2>2. Tiled(text, f[i], (i + 1) - 1)
    BY <1>7, <2>1
  <2>3. f[i + 1] = AddLine(text, f[i], i + 1)
    BY <1>5, <2>1
  <2>4. QED
    BY <2>1, <2>2, <2>3, AddLineTiles
<1> HIDE DEF S
<1>8. Nat \subseteq S
  BY <1>6, <1>7, NatSetInduction
<1>9. Tiled(text, f[n], n)
  BY <1>1, <1>8 DEF S
<1>10. QED
  BY <1>4, <1>9

(* Earlier lines end before later ones begin.                              *)
LEMMA LinesInOrder ==
  ASSUME NEW text, NEW e \in Nat, NEW lines, Tiled(text, lines, e)
  PROVE  \A j, k \in 1 .. Len(lines) : j < k => lines[j].end <= lines[k].start
<1>1. /\ Len(lines) \in Nat
      /\ \A k \in 1 .. Len(lines) : lines[k] \in Lines(text)
  BY DEF Tiled
<1>2. \A k \in 1 .. Len(lines) : /\ lines[k].start \in Nat /\ lines[k].end \in Nat
                                 /\ lines[k].start = IF k = 1 THEN 0 ELSE lines[k - 1].end
                                 /\ lines[k].start < lines[k].end
  BY <1>1, SafeIsNotProse DEF Tiled
<1> DEFINE m == Len(lines)
           S == {d \in Nat : \A j \in 1 .. m : j + d + 1 <= m => lines[j].end <= lines[j + d + 1].start}
<1> HIDE DEF m
<1>3. 0 \in S
  <2>1. \A j \in 1 .. m : j + 0 + 1 <= m =>
          j + 0 + 1 \in 1 .. m /\ j + 0 + 1 # 1 /\ (j + 0 + 1) - 1 = j
    BY <1>1 DEF m
  <2>2. \A j \in 1 .. m : j + 0 + 1 <= m => lines[j + 0 + 1].start = lines[j].end /\ lines[j].end \in Nat
    BY <1>2, <2>1 DEF m
  <2>3. \A j \in 1 .. m : j + 0 + 1 <= m => lines[j].end <= lines[j + 0 + 1].start
    BY <2>2
  <2>4. QED
    BY <2>3
<1>4. ASSUME NEW d \in Nat, d \in S PROVE d + 1 \in S
  <2> SUFFICES ASSUME NEW j \in 1 .. m, j + (d + 1) + 1 <= m
               PROVE  lines[j].end <= lines[j + (d + 1) + 1].start
    OBVIOUS
  <2> DEFINE a == j + d + 1
             b == j + (d + 1) + 1
  <2>1. a \in 1 .. m /\ b \in 1 .. m /\ b - 1 = a /\ b # 1 /\ j + d + 1 <= m
    BY <1>1 DEF m
  <2>2. lines[j].end <= lines[a].start
    BY <1>4, <2>1
  <2> HIDE DEF a, b
  <2>3. lines[b].start = lines[a].end
    BY <1>2, <2>1 DEF m
  <2>4. /\ lines[j].end \in Nat /\ lines[a].start \in Nat /\ lines[a].end \in Nat
        /\ lines[a].start < lines[a].end
    BY <1>2, <2>1 DEF m
  <2>5. lines[j].end <= lines[b].start
    BY <2>2, <2>3, <2>4
  <2>6. QED
    BY <2>5 DEF b
<1>5. Nat \subseteq S
  <2> HIDE DEF S
  <2> QED BY <1>3, <1>4, NatSetInduction
<1>6. ASSUME NEW j \in 1 .. m, NEW k \in 1 .. m, j < k
      PROVE  lines[j].end <= lines[k].start
  <2>1. k - j - 1 \in Nat /\ j + (k - j - 1) + 1 = k /\ k <= m
    BY <1>1, <1>6 DEF m
  <2>2. k - j - 1 \in S
    BY <1>5, <2>1
  <2>3. QED
    BY <2>1, <2>2
<1>7. QED
  BY <1>6 DEF m

-----------------------------------------------------------------------------
(* What goes along with a line is safe to take along.                      *)
LEMMA ContinuationsAreSafe ==
  ASSUME NEW lines, NEW n \in Nat, DOMAIN lines = 1 .. n, NEW k \in Nat,
         NEW j \in Continuations(lines, k)
  PROVE  j \in DOMAIN lines /\ lines[j].safe
<1>1. /\ j \in 1 .. n
      /\ j - k \in 1 .. ContinuationDistance \/ k - j \in 1 .. ContinuationDistance
      /\ \A between \in (j .. k - 1) \cup (k + 1 .. j) : lines[between].safe
  BY DEF Continuations
<1>2. ContinuationDistance \in Nat
  BY CodeSpanConstants
<1>3. j \in (j .. k - 1) \cup (k + 1 .. j)
  BY <1>1, <1>2
<1>4. QED
  BY <1>1, <1>3

(* The pass adds only lines that are safe to take along. *)
LEMMA PassAddsSafe ==
  ASSUME NEW lines, NEW n \in Nat, DOMAIN lines = 1 .. n, Len(lines) = n,
         NEW selected \in SUBSET (DOMAIN lines)
  PROVE  \A j \in WithContinuations(lines, selected) :
           j \in DOMAIN lines /\ (j \in selected \/ lines[j].safe)
<1> DEFINE T == SUBSET (1 .. n)
           More(s, k) == s \cup IF k \in s THEN Continuations(lines, k) ELSE {}
           Law(f) == f = [k \in 0 .. n |-> IF k = 0 THEN selected ELSE
                            f[k - 1] \cup IF k \in f[k - 1] THEN Continuations(lines, k) ELSE {}]
           Step == [x \in T \X (1 .. n) |-> More(x[1], x[2])]
<1>1. \E f : Law(f)
  <2>1. ASSUME NEW s \in T, NEW k \in 1 .. n PROVE More(s, k) \in T
    <3>1. k \in Nat
      OBVIOUS
    <3>2. Continuations(lines, k) \subseteq 1 .. n
      BY <3>1, ContinuationsAreSafe
    <3>3. QED
      BY <3>2
  <2> HIDE DEF More
  <2>2. Step \in [T \X (1 .. n) -> T]
    <3> HIDE DEF T
    <3> QED BY <2>1
  <2>3. selected \in T
    OBVIOUS
  <2>4. PICK h : IsRecursion(h, n, T, selected, Step)
    <3> HIDE DEF Step, T
    <3> QED BY <2>2, <2>3, RecursionExists
  <2>5. /\ h \in [0 .. n -> T] /\ h[0] = selected
        /\ \A k \in 1 .. n : h[k] = Step[<<h[k - 1], k>>]
    BY <2>4 DEF IsRecursion
  <2> HIDE DEF T
  <2>6. \A k \in 1 .. n : h[k] = More(h[k - 1], k)
    <3>1. \A k \in 1 .. n : k - 1 \in 0 .. n
      OBVIOUS
    <3>2. \A k \in 1 .. n : h[k - 1] \in T
      BY <2>5, <3>1
    <3>3. QED
      BY <2>5, <3>2
  <2>7. \A k \in 0 .. n : h[k] = IF k = 0 THEN selected ELSE
          h[k - 1] \cup IF k \in h[k - 1] THEN Continuations(lines, k) ELSE {}
    <3>1. \A k \in 0 .. n : k = 0 \/ (k \in 1 .. n /\ k # 0)
      OBVIOUS
    <3>2. h[0] = selected
      BY <2>5
    <3>3. QED
      BY <2>6, <3>1, <3>2 DEF More
  <2>8. h = [k \in 0 .. n |-> h[k]]
    BY <2>5
  <2>9. Law(h)
    BY <2>7, <2>8
  <2> HIDE DEF Law
  <2>10. QED
    BY <2>9
<1> DEFINE f == CHOOSE f : Law(f)
<1>2. Law(f)
  <2> HIDE DEF Law
  <2> QED BY <1>1
<1>3. WithContinuations(lines, selected) = f[n]
  BY DEF WithContinuations
<1> HIDE DEF f, Step, T, More
<1>4. f[0] = selected
      /\ \A k \in 1 .. n :
           f[k] = f[k - 1] \cup IF k \in f[k - 1] THEN Continuations(lines, k) ELSE {}
  <2>1. 0 \in 0 .. n /\ \A k \in 1 .. n : k \in 0 .. n /\ k # 0
    OBVIOUS
  <2>2. \A k \in 0 .. n : f[k] = IF k = 0 THEN selected ELSE
          f[k - 1] \cup IF k \in f[k - 1] THEN Continuations(lines, k) ELSE {}
    BY <1>2
  <2> HIDE DEF Law
  <2>3. QED
    BY <2>1, <2>2
<1> HIDE DEF Law
<1> DEFINE Fine(s) == \A j \in s : j \in DOMAIN lines /\ (j \in selected \/ lines[j].safe)
           S == {k \in Nat : k <= n => Fine(f[k])}
<1>5. 0 \in S
  BY <1>4
<1>6. ASSUME NEW k \in Nat, k \in S PROVE k + 1 \in S
  <2> SUFFICES ASSUME k + 1 <= n PROVE Fine(f[k + 1])
    OBVIOUS
  <2>1. k + 1 \in 1 .. n /\ (k + 1) - 1 = k /\ k <= n /\ k + 1 \in Nat
    OBVIOUS
  <2>2. Fine(f[k])
    BY <1>6, <2>1
  <2>3. f[k + 1] \subseteq f[k] \cup Continuations(lines, k + 1)
    BY <1>4, <2>1
  <2>4. \A j \in Continuations(lines, k + 1) : j \in DOMAIN lines /\ lines[j].safe
    BY <2>1, ContinuationsAreSafe
  <2>5. QED
    BY <2>2, <2>3, <2>4
<1>7. Nat \subseteq S
  <2> HIDE DEF S
  <2> QED BY <1>5, <1>6, NatSetInduction
<1>8. Fine(f[n])
  BY <1>7
<1>9. QED
  BY <1>3, <1>8

(* The lines that a dense document takes along are lines of it.            *)
LEMMA FilledAreLines ==
  ASSUME NEW lines, NEW n \in Nat, DOMAIN lines = 1 .. n
  PROVE  \A k \in Filled(lines) : k \in DOMAIN lines /\ (lines[k].safe \/ ~lines[k].prose)
<1> SUFFICES ASSUME NEW k \in Filled(lines)
             PROVE  k \in DOMAIN lines /\ (lines[k].safe \/ ~lines[k].prose)
  OBVIOUS
<1>1. /\ Dense(lines)
      /\ k \in Min(Anchors(lines)) .. Max(Anchors(lines))
      /\ lines[k].safe \/ ~lines[k].prose
  BY DEF Filled
<1>2. Anchors(lines) \in SUBSET (1 .. n)
  BY DEF Anchors
<1>3. Anchors(lines) # {}
  <2>1. Cardinality(Anchors(lines)) >= 3
    BY <1>1 DEF Dense
  <2>2. Cardinality({}) = 0
    BY FS_EmptySet
  <2>3. QED
    BY <2>1, <2>2
<1>4. Min(Anchors(lines)) \in Anchors(lines)
  <2>1. Anchors(lines) \in SUBSET Nat
    BY <1>2
  <2>2. QED
    BY <1>3, <2>1, MinOfNaturals
<1>5. Max(Anchors(lines)) \in Anchors(lines)
  BY <1>2, <1>3, MaxOfNaturals
<1>6. k \in 1 .. n
  BY <1>1, <1>2, <1>4, <1>5
<1>7. QED
  BY <1>1, <1>6

(* A line of prose that is no code line is in no block.                    *)
LEMMA ProseInNoBlock ==
  ASSUME NEW text \in Seq(STRING), NEW lines, lines = CodeLines(text),
         NEW k \in DOMAIN lines \ SelectedLines(lines), lines[k].prose
  PROVE  k \notin WithContinuations(lines, SelectedLines(lines) \cup Filled(lines))
<1> DEFINE n == Len(lines)
           selected == SelectedLines(lines) \cup Filled(lines)
<1>1. n \in Nat /\ DOMAIN lines = 1 .. n /\ lines \in Seq(Lines(text))
  BY CodeLinesTile DEF Tiled
<1>2. selected \in SUBSET (DOMAIN lines)
  <2>1. Filled(lines) \subseteq DOMAIN lines
    BY <1>1, FilledAreLines
  <2>2. SelectedLines(lines) \subseteq DOMAIN lines
    BY DEF SelectedLines
  <2>3. QED
    BY <2>1, <2>2
<1>3. lines[k] \in Lines(text)
  BY <1>1
<1>4. ~lines[k].safe
  BY <1>3, SafeIsNotProse
<1>5. k \notin Filled(lines)
  BY <1>1, <1>4, FilledAreLines
<1> HIDE DEF n
<1>6. \A j \in WithContinuations(lines, selected) : j \in selected \/ lines[j].safe
  <2> HIDE DEF selected
  <2> QED BY <1>1, <1>2, PassAddsSafe DEF n
<1>7. QED
  BY <1>4, <1>5, <1>6

-----------------------------------------------------------------------------
(* The last line of the block that begins with line k. *)
BlockEnd(selected, k) == Min({j \in selected : j >= k /\ j + 1 \notin selected})

(* A block is an unbroken run of selected lines.                           *)
LEMMA BlockIs ==
  ASSUME NEW n \in Nat, NEW selected \in SUBSET (1 .. n), NEW k \in selected
  PROVE  /\ BlockEnd(selected, k) \in selected /\ BlockEnd(selected, k) >= k
         /\ BlockEnd(selected, k) + 1 \notin selected
         /\ \A j \in k .. BlockEnd(selected, k) : j \in selected
<1> DEFINE Ends == {j \in selected : j >= k /\ j + 1 \notin selected}
           last == BlockEnd(selected, k)
<1>0. selected \in SUBSET Nat /\ Ends \in SUBSET Nat
  <2>1. \A j \in selected : j \in 1 .. n
    OBVIOUS
  <2>2. \A j \in 1 .. n : j \in Nat
    OBVIOUS
  <2>3. QED
    BY <2>1, <2>2
<1>1. Max(selected) \in Ends
  <2>1. Max(selected) \in selected /\ \A y \in selected : Max(selected) >= y
    BY MaxOfNaturals
  <2> DEFINE top == Max(selected)
  <2>2. top \in selected /\ \A y \in selected : top >= y
    BY <2>1
  <2> HIDE DEF top
  <2>3. top \in Nat /\ ~(top >= top + 1)
    BY <1>0, <2>2
  <2>4. top >= k /\ top + 1 \notin selected
    BY <2>2, <2>3
  <2>5. QED
    BY <2>2, <2>4 DEF top
<1>2. last \in Ends
  <2>1. Ends \in SUBSET Nat /\ Ends # {}
    BY <1>0, <1>1
  <2>2. last = Min(Ends)
    BY DEF BlockEnd
  <2> HIDE DEF Ends, last
  <2>3. QED
    BY <2>1, <2>2, MinOfNaturals
<1> HIDE DEF last
<1>3. last \in Nat /\ last \in selected /\ last >= k /\ last + 1 \notin selected /\ k \in Nat
  BY <1>2
<1>4. \A j \in Ends : last <= j
  <2>1. Ends \in SUBSET Nat /\ Ends # {}
    BY <1>0, <1>1
  <2>2. last = Min(Ends)
    BY DEF BlockEnd, last
  <2> HIDE DEF Ends
  <2>3. QED
    BY <2>1, <2>2, MinOfNaturals
<1> DEFINE S == {d \in Nat : k + d <= last => k + d \in selected}
<1>5. 0 \in S
  BY <1>3
<1>6. ASSUME NEW d \in Nat, d \in S PROVE d + 1 \in S
  <2> SUFFICES ASSUME k + (d + 1) <= last, k + (d + 1) \notin selected PROVE FALSE
    OBVIOUS
  <2>1. k + d \in selected
    BY <1>3, <1>6
  <2>2. (k + d) + 1 \notin selected /\ k + d >= k
    BY <1>3
  <2>3. k + d \in Ends
    BY <2>1, <2>2
  <2>4. last <= k + d
    BY <1>4, <2>3
  <2>5. QED
    BY <1>3, <2>4
<1>7. Nat \subseteq S
  <2> HIDE DEF S
  <2> QED BY <1>5, <1>6, NatSetInduction
<1>8. ASSUME NEW j \in k .. last PROVE j \in selected
  <2>1. j - k \in Nat /\ k + (j - k) = j /\ j <= last
    BY <1>3
  <2>2. j - k \in S
    BY <1>7, <2>1
  <2>3. QED
    BY <2>1, <2>2
<1>9. QED
  BY <1>3, <1>8 DEF last

(* Spans up to place e. *)
SpansUpto(set, e) == \A s \in set : s.start \in Nat /\ s.end \in 1 .. e /\ s.start < s.end

(* What a merged span is made of: it ends with a span that begins in it,   *)
(* and between the two beginnings every span is touched by an earlier one. *)
LEMMA MergedFrom ==
  ASSUME NEW set, NEW e \in Nat, SpansUpto(set, e), NEW merged \in MergeSpans(set)
  PROVE  \E t \in set :
           /\ merged.start \in Nat /\ merged.start <= t.start /\ merged.end = t.end
           /\ \A s \in set : merged.start < s.start /\ s.start <= t.start =>
                \E u \in set : u.start < s.start /\ s.start <= u.end
<1> DEFINE proper == {s \in set : s.start < s.end}
           first == {s \in proper : \A t \in proper : ~(t.start < s.start /\ s.start <= t.end)}
           heads == {s.start : s \in first}
           of(head) == {s \in proper : s.start >= head
                                       /\ ~\E other \in heads : other > head /\ other <= s.start}
           ends(head) == {s.end : s \in of(head)}
<1>1. proper = set
  BY DEF SpansUpto
<1>2. \E head \in heads : merged = [start |-> head, end |-> Max(ends(head))]
  BY DEF MergeSpans
<1> HIDE DEF proper
<1>3. PICK head \in heads : merged = [start |-> head, end |-> Max(ends(head))]
  BY <1>2
<1>4. PICK h \in first : h.start = head
  OBVIOUS
<1>5. head \in Nat /\ h \in set
  BY <1>1, <1>4 DEF SpansUpto
<1>6. h \in of(head)
  <2>1. ~\E other \in heads : other > head /\ other <= head
    <3>1. \A other \in heads : other \in Nat
      BY <1>1 DEF SpansUpto
    <3> HIDE DEF heads
    <3>2. QED
      BY <1>5, <3>1
  <2> HIDE DEF heads
  <2>2. h \in proper /\ h.start >= head
    BY <1>1, <1>4, <1>5
  <2>3. QED
    BY <1>4, <2>1, <2>2
<1>7. PICK t \in of(head) : t.end = Max(ends(head))
  <2>1. ends(head) \in SUBSET (1 .. e)
    BY <1>1 DEF SpansUpto
  <2>2. ends(head) # {}
    BY <1>6
  <2>3. Max(ends(head)) \in ends(head)
    <3> HIDE DEF ends
    <3> QED BY <2>1, <2>2, MaxOfNaturals
  <2> HIDE DEF of
  <2>4. QED
    BY <2>3
<1>8. t \in set /\ t.start >= head /\ ~\E other \in heads : other > head /\ other <= t.start
  BY <1>1
<1>9. ASSUME NEW s \in set, head < s.start, s.start <= t.start
      PROVE  \E u \in set : u.start < s.start /\ s.start <= u.end
  <2>1. s.start \notin heads
    BY <1>8, <1>9, <1>5 DEF SpansUpto
  <2>2. s \notin first
    BY <2>1
  <2>3. QED
    BY <1>1, <2>2
<1>10. merged.start = head /\ merged.end = t.end
  BY <1>3, <1>7
<1>11. head <= t.start
  BY <1>5, <1>8 DEF SpansUpto
<1> HIDE DEF first, heads, of, ends
<1>12. QED
  BY <1>5, <1>8, <1>9, <1>10, <1>11

(* A line that is in no block is in no merged span of the blocks.          *)
LEMMA OutsideBlocks ==
  ASSUME NEW text \in Seq(STRING), NEW lines, lines = CodeLines(text),
         NEW selected \in SUBSET (DOMAIN lines), NEW k \in DOMAIN lines \ selected,
         NEW merged \in MergeSpans(LineSpans(lines, selected))
  PROVE  ~Within(lines[k], merged)
<1> DEFINE n == Len(lines)
           e == Len(text)
           blocks == LineSpans(lines, selected)
           begins == {j \in selected : j - 1 \notin selected}
<1>1. /\ n \in Nat /\ DOMAIN lines = 1 .. n /\ e \in Nat /\ Tiled(text, lines, e)
      /\ \A j \in 1 .. n : lines[j] \in Lines(text)
  BY CodeLinesTile DEF Tiled
<1> HIDE DEF n, e
<1>2. \A j \in 1 .. n : /\ lines[j].start \in Nat /\ lines[j].end \in Nat
                        /\ lines[j].start < lines[j].end /\ lines[j].end <= e
  BY <1>1, SafeIsNotProse DEF Tiled, n
<1>3. \A i, j \in 1 .. n : i < j => lines[i].end <= lines[j].start
  BY <1>1, LinesInOrder DEF n
<1>4. selected \in SUBSET (1 .. n) /\ k \in 1 .. n /\ k \notin selected
  BY <1>1
<1>5. blocks = {[start |-> lines[j].start, end |-> lines[BlockEnd(selected, j)].end] : j \in begins}
  BY DEF LineSpans, BlockEnd
<1>6. \A j \in begins : /\ BlockEnd(selected, j) \in selected /\ BlockEnd(selected, j) >= j
                        /\ BlockEnd(selected, j) + 1 \notin selected
                        /\ \A i \in j .. BlockEnd(selected, j) : i \in selected
                        /\ j \in 1 .. n /\ BlockEnd(selected, j) \in 1 .. n
                        /\ j \in selected /\ j - 1 \notin selected
  BY <1>1, <1>4, BlockIs
<1> HIDE DEF blocks, begins
<1>7. \A s \in blocks : \E c, d \in 1 .. n :
        /\ s.start = lines[c].start /\ s.end = lines[d].end /\ c <= d
        /\ c \in selected /\ c - 1 \notin selected /\ d + 1 \notin selected
        /\ \A i \in c .. d : i \in selected
  <2> SUFFICES ASSUME NEW s \in blocks
               PROVE  \E c, d \in 1 .. n :
                        /\ s.start = lines[c].start /\ s.end = lines[d].end /\ c <= d
                        /\ c \in selected /\ c - 1 \notin selected /\ d + 1 \notin selected
                        /\ \A i \in c .. d : i \in selected
    OBVIOUS
  <2>1. PICK c \in begins :
          s = [start |-> lines[c].start, end |-> lines[BlockEnd(selected, c)].end]
    BY <1>5
  <2> DEFINE d == BlockEnd(selected, c)
  <2>2. s.start = lines[c].start /\ s.end = lines[d].end
    BY <2>1
  <2>3. /\ d >= c /\ d + 1 \notin selected /\ c \in 1 .. n /\ d \in 1 .. n
        /\ \A i \in c .. d : i \in selected
        /\ c \in selected /\ c - 1 \notin selected
    BY <1>6
  <2> HIDE DEF d
  <2>4. c <= d
    BY <2>3
  <2>5. QED
    BY <2>2, <2>3, <2>4
<1>8. SpansUpto(blocks, e)
  <2> SUFFICES ASSUME NEW s \in blocks
               PROVE  s.start \in Nat /\ s.end \in 1 .. e /\ s.start < s.end
    BY DEF SpansUpto
  <2>1. PICK c \in 1 .. n, d \in 1 .. n :
          s.start = lines[c].start /\ s.end = lines[d].end /\ c <= d
    BY <1>7
  <2>2. lines[c].start < lines[d].end
    <3>1. CASE c = d
      BY <1>2, <3>1
    <3>2. CASE c # d
      <4>1. lines[c].end <= lines[d].start
        BY <1>3, <2>1, <3>2
      <4>2. QED
        BY <1>2, <4>1
    <3>3. QED
      BY <3>1, <3>2
  <2>3. QED
    BY <1>1, <1>2, <2>1, <2>2
<1>9. PICK t \in blocks :
        /\ merged.start \in Nat /\ merged.start <= t.start /\ merged.end = t.end
        /\ \A s \in blocks : merged.start < s.start /\ s.start <= t.start =>
             \E u \in blocks : u.start < s.start /\ s.start <= u.end
  BY <1>1, <1>8, MergedFrom DEF blocks
<1> SUFFICES ASSUME merged.start <= lines[k].start, lines[k].end <= merged.end PROVE FALSE
  BY DEF Within
<1>10. PICK c \in 1 .. n, d \in 1 .. n :
        /\ t.start = lines[c].start /\ t.end = lines[d].end /\ c <= d
        /\ c \in selected /\ c - 1 \notin selected
        /\ \A i \in c .. d : i \in selected
  BY <1>7
<1>11. k <= d
  <2> SUFFICES ASSUME d < k PROVE FALSE
    BY <1>4
  <2>1. lines[d].end <= lines[k].start
    BY <1>3, <1>4
  <2>2. lines[k].end <= lines[d].end
    BY <1>9, <1>10
  <2>3. QED
    BY <1>2, <1>4, <2>1, <2>2
<1>12. k < c
  <2>1. k \notin c .. d
    BY <1>4, <1>10
  <2>2. QED
    BY <1>4, <1>11, <2>1
<1>13. lines[k].start < t.start
  <2>1. lines[k].end <= lines[c].start
    BY <1>3, <1>4, <1>12
  <2>2. QED
    BY <1>2, <1>4, <1>10, <2>1
<1>14. PICK u \in blocks : u.start < t.start /\ t.start <= u.end
  <2>1. merged.start < t.start /\ t.start <= t.start
    BY <1>2, <1>4, <1>9, <1>10, <1>13
  <2>2. QED
    BY <1>9, <2>1
<1>15. PICK a \in 1 .. n, b \in 1 .. n :
        /\ u.start = lines[a].start /\ u.end = lines[b].end /\ a <= b
        /\ a \in selected /\ a - 1 \notin selected /\ b + 1 \notin selected
        /\ \A i \in a .. b : i \in selected
  BY <1>7
<1>16. a < c
  <2> SUFFICES ASSUME c <= a PROVE FALSE
    OBVIOUS
  <2>1. CASE c = a
    BY <1>2, <1>10, <1>14, <1>15, <2>1
  <2>2. CASE c < a
    <3>1. lines[c].end <= lines[a].start
      BY <1>3, <2>2
    <3>2. QED
      BY <1>2, <1>10, <1>14, <1>15, <3>1
  <2>3. QED
    BY <2>1, <2>2
<1>17. c - 1 <= b
  <2> SUFFICES ASSUME b < c - 1 PROVE FALSE
    OBVIOUS
  <2>1. c - 1 \in 1 .. n /\ c - 1 < c
    BY <1>1, <1>16
  <2>2. lines[b].end <= lines[c - 1].start
    BY <1>3, <2>1
  <2>3. lines[c - 1].end <= lines[c].start
    BY <1>3, <2>1
  <2>4. lines[c - 1].start < lines[c - 1].end /\ lines[c - 1].start \in Nat
        /\ lines[c - 1].end \in Nat /\ lines[b].end \in Nat /\ lines[c].start \in Nat
    BY <1>2, <2>1
  <2>5. lines[c].start <= lines[b].end
    BY <1>10, <1>14, <1>15
  <2>6. QED
    BY <2>2, <2>3, <2>4, <2>5
<1>18. c - 1 \in a .. b
  BY <1>16, <1>17
<1>19. QED
  BY <1>10, <1>15, <1>18

-----------------------------------------------------------------------------
(* Without a backtick there is no explicit region. *)
LEMMA NoBacktickNoRegion ==
  ASSUME NEW text \in Seq(STRING), "backtick" \notin ToSet(text)
  PROVE  ExplicitCodeSpans(text) = {}
<1> DEFINE n == Len(text)
           Rest(f, i) ==
             LET run == BacktickRun(text, i)
                 delimiter == IF run >= FencedRun THEN run ELSE 1
                 closing == {j \in i + delimiter .. Len(text) :
                               text[j] = "backtick" /\ BacktickRun(text, j) >= delimiter}
                 end == Min(closing) + delimiter
             IN  IF closing = {} THEN f[i + run]
                 ELSE {[start |-> i - 1, end |-> end - 1]} \cup f[end]
           Law(f) == f = [i \in 1 .. n + 1 |->
                            IF i > n THEN {}
                            ELSE IF text[i] # "backtick" THEN f[i + 1] ELSE Rest(f, i)]
<1>1. n \in Nat /\ \A i \in 1 .. n : text[i] # "backtick"
  <2>1. n \in Nat /\ DOMAIN text = 1 .. n
    OBVIOUS
  <2>2. \A i \in 1 .. n : text[i] \in ToSet(text)
    BY <2>1 DEF ToSet
  <2>3. QED
    BY <2>1, <2>2
<1> DEFINE f == CHOOSE f : Law(f)
<1>2. ExplicitCodeSpans(text) = f[1]
  BY DEF ExplicitCodeSpans
<1> HIDE DEF n, Rest
<1>3. Law(f)
  <2> DEFINE g == [i \in 1 .. n + 1 |-> {}]
  <2>1. \A i \in 1 .. n + 1 :
          g[i] = IF i > n THEN {} ELSE IF text[i] # "backtick" THEN g[i + 1] ELSE Rest(g, i)
    <3> SUFFICES ASSUME NEW i \in 1 .. n + 1
                 PROVE  {} = IF i > n THEN {}
                             ELSE IF text[i] # "backtick" THEN g[i + 1] ELSE Rest(g, i)
      OBVIOUS
    <3>1. ~(i > n) => i \in 1 .. n /\ i + 1 \in 1 .. n + 1
      BY <1>1
    <3>2. \A j \in 1 .. n + 1 : g[j] = {}
      OBVIOUS
    <3> HIDE DEF g
    <3>3. QED
      BY <1>1, <3>1, <3>2
  <2>2. g = [i \in 1 .. n + 1 |-> g[i]]
    OBVIOUS
  <2> HIDE DEF g
  <2>3. Law(g)
    BY <2>1, <2>2
  <2> HIDE DEF Law
  <2>4. QED
    BY <2>3
<1> HIDE DEF f
<1>4. \A i \in 1 .. n + 1 : f[i] = IF i > n THEN {} ELSE f[i + 1]
  <2>1. \A i \in 1 .. n + 1 :
          f[i] = IF i > n THEN {} ELSE IF text[i] # "backtick" THEN f[i + 1] ELSE Rest(f, i)
    BY <1>3
  <2> HIDE DEF Law
  <2>2. \A i \in 1 .. n + 1 : ~(i > n) => i \in 1 .. n
    BY <1>1
  <2>3. QED
    BY <1>1, <2>1, <2>2
<1> HIDE DEF Law
<1> DEFINE S == {d \in Nat : d <= n => f[n + 1 - d] = {}}
<1>5. 0 \in S
  <2>1. n + 1 - 0 \in 1 .. n + 1 /\ n + 1 - 0 > n
    BY <1>1
  <2>2. QED
    BY <1>4, <2>1
<1>6. ASSUME NEW d \in Nat, d \in S PROVE d + 1 \in S
  <2> SUFFICES ASSUME d + 1 <= n PROVE f[n + 1 - (d + 1)] = {}
    OBVIOUS
  <2> DEFINE i == n + 1 - (d + 1)
  <2>1. i \in 1 .. n + 1 /\ ~(i > n) /\ i + 1 = n + 1 - d /\ d <= n
    BY <1>1
  <2>2. f[n + 1 - d] = {}
    BY <1>6, <2>1
  <2> HIDE DEF i
  <2>3. f[i] = {}
    BY <1>4, <2>1, <2>2
  <2>4. QED
    BY <2>3 DEF i
<1>7. Nat \subseteq S
  <2> HIDE DEF S
  <2> QED BY <1>5, <1>6, NatSetInduction
<1>8. f[1] = {}
  <2>1. n \in S /\ n + 1 - n = 1
    BY <1>1, <1>7
  <2>2. QED
    BY <1>1, <2>1
<1>9. QED
  BY <1>2, <1>8

(* Detection is made of the very document and hints of the scan.           *)
DetectInv ==
  /\ raw \in Seq(STRING)
  /\ stage = "detected" => spans = AutoCodeSpans(raw, hints)

LEMMA SpecDetectInv == Spec => []DetectInv
<1>1. Init => DetectInv
  BY DocumentConstants DEF Init, DetectInv
<1>2. DetectInv /\ [Next]_vars => DetectInv'
  BY DEF DetectInv, Next, ScanUnit, FinishScan, Detect, vars
<1>3. QED
  BY <1>1, <1>2, PTL DEF Spec

(* A line of prose without technical tokens, in a document without         *)
(* backticks and shebang lines, is outside of what detection finds.        *)
LEMMA ProseOutside ==
  ASSUME NEW text \in Seq(STRING), NEW hint, NEW lines, lines = CodeLines(text),
         \A k \in DOMAIN lines : ~lines[k].shebang,
         "backtick" \notin ToSet(text), InlineArtifactSpans(text) = {},
         NEW k \in DOMAIN lines \ SelectedLines(lines), lines[k].prose,
         NEW span \in AutoCodeSpans(text, hint)
  PROVE  ~Within(lines[k], span)
<1> DEFINE n == Len(lines)
           selected == WithContinuations(lines, SelectedLines(lines) \cup Filled(lines))
           inferred == InferredCodeSpans(text)
<1>1. n \in Nat /\ DOMAIN lines = 1 .. n
  BY CodeLinesTile DEF Tiled
<1>2. inferred = LineSpans(lines, selected)
  <2> DEFINE nonblank == {j \in DOMAIN lines : ~lines[j].blank}
  <2>1. ~(nonblank # {} /\ lines[Min(nonblank)].shebang)
    <3> SUFFICES ASSUME nonblank # {} PROVE ~lines[Min(nonblank)].shebang
      OBVIOUS
    <3>1. nonblank \in SUBSET Nat /\ nonblank \subseteq DOMAIN lines
      BY <1>1
    <3> HIDE DEF nonblank
    <3>2. Min(nonblank) \in nonblank
      BY <3>1, MinOfNaturals
    <3>3. QED
      BY <3>1, <3>2
  <2>2. inferred = IF nonblank # {} /\ lines[Min(nonblank)].shebang
                   THEN {[start |-> 0, end |-> Len(text)]}
                   ELSE LineSpans(lines, selected)
    BY DEF InferredCodeSpans
  <2> HIDE DEF nonblank, selected, inferred
  <2>3. QED
    BY <2>1, <2>2
<1>3. selected \in SUBSET (DOMAIN lines)
  <2>1. Filled(lines) \subseteq DOMAIN lines
    BY <1>1, FilledAreLines
  <2>2. SelectedLines(lines) \subseteq DOMAIN lines
    BY DEF SelectedLines
  <2>3. SelectedLines(lines) \cup Filled(lines) \in SUBSET (DOMAIN lines)
    BY <2>1, <2>2
  <2> HIDE DEF n
  <2>4. QED
    BY <1>1, <2>3, PassAddsSafe DEF n
<1>4. k \notin selected
  BY ProseInNoBlock
<1> HIDE DEF selected, inferred
<1>5. span \in MergeSpans(IF hint.unmarked THEN inferred ELSE {})
  <2>1. ExplicitCodeSpans(text) = {}
    BY NoBacktickNoRegion
  <2>2. (IF hint.backtick THEN ExplicitCodeSpans(text) ELSE {})
          \cup (IF hint.unmarked THEN inferred ELSE {})
          \cup (IF hint.artifact \/ hint.unmarked THEN InlineArtifactSpans(text) ELSE {})
        = IF hint.unmarked THEN inferred ELSE {}
    BY <2>1
  <2>3. QED
    BY <2>2 DEF AutoCodeSpans, inferred
<1>6. span \in MergeSpans({}) => FALSE
  BY DEF MergeSpans
<1>7. span \in MergeSpans(LineSpans(lines, selected))
  <2>1. CASE hint.unmarked
    BY <1>2, <1>5, <2>1
  <2>2. CASE ~hint.unmarked
    BY <1>5, <1>6, <2>2
  <2>3. QED
    BY <2>1, <2>2
<1>8. k \in DOMAIN lines \ selected
  BY <1>4
<1>9. QED
  BY <1>3, <1>7, <1>8, OutsideBlocks

(* Prose is not swallowed, whatever surrounds it and however long the      *)
(* document is.                                                            *)
THEOREM ProseIsNeverSwallowed == Spec => []ProseStaysProse
<1>1. DetectInv => ProseStaysProse
  <2> SUFFICES ASSUME DetectInv, stage = "detected", NEW lines \in {CodeLines(raw)},
                      ~\E k \in DOMAIN lines : lines[k].shebang,
                      ~("backtick" \in ToSet(raw) \/ InlineArtifactSpans(raw) # {}),
                      NEW k \in DOMAIN lines \ SelectedLines(lines), lines[k].prose,
                      NEW span \in spans
               PROVE  ~Within(lines[k], span)
    BY DEF ProseStaysProse
  <2>1. raw \in Seq(STRING) /\ lines = CodeLines(raw) /\ span \in AutoCodeSpans(raw, hints)
    BY DEF DetectInv
  <2>2. /\ \A j \in DOMAIN lines : ~lines[j].shebang
        /\ "backtick" \notin ToSet(raw) /\ InlineArtifactSpans(raw) = {}
    OBVIOUS
  <2>3. QED
    BY <2>1, <2>2, ProseOutside
<1>2. QED
  BY <1>1, SpecDetectInv, PTL
-----------------------------------------------------------------------------
(* The signs that give away an address or an assignment, the characters    *)
(* that a token can begin after, and those that join letters and digits.   *)
Signs == {"@", "="}
Before == Separator \cup Opening
Joining == WordConnector \cup NumberSeparator

(* What the characters of artifacts are, for the scanner.                  *)
LEMMA PlainKinds ==
  ASSUME NEW text \in Seq(STRING), NEW j \in 1 .. Len(text)
  PROVE  /\ KindAt(text, j) = ClassifyAt(text, j).kind
         /\ text[j] \in AsciiLetter => KindAt(text, j) = "Word"
         /\ text[j] \in Digit => KindAt(text, j) = "Number"
         /\ text[j] \in Signs => KindAt(text, j) = "Symbol"
         /\ text[j] \in Before \cup {":", "."} => KindAt(text, j) \notin {"Word", "Number"}
<1> DEFINE char == text[j]
           op == OperatorAt(text, j)
<1>1. KindAt(text, j) = ClassifyAt(text, j).kind
  BY DEF KindAt
<1>2. op \in {0, 2, 3} /\ (op > 0 => char \in OperatorStart)
  BY OperatorFits DEF OperatorAt
<1>3. Ascii(char) =>
        ClassifyAt(text, j).kind = IF op > 0 THEN "Symbol" ELSE AsciiKind(char)
  BY ClassIs
<1> HIDE DEF char, op
<1>4. Before = {" ", "\t", "\f", "\n", "\r", "esc", "backtick", "(", "[", "{", "<", "\"", "'"}
  BY LiteralCharacters DEF Before, Separator, Blank, AsciiControl
<1>5. /\ \A c \in AsciiLetter \cup Digit : c \notin OperatorStart
      /\ \A c \in AsciiLetter : Ascii(c)
      /\ \A c \in Digit \cup Signs \cup Before \cup {":", "."} : Ascii(c)
  <2>1. \A c \in AsciiLetter \cup Digit : c \notin OperatorStart
    BY DEF AsciiLetter, AsciiLower, AsciiUpper, Digit, OperatorStart
  <2>2. \A c \in AsciiLetter : Ascii(c)
    BY UnicodeKinds DEF AsciiLetter, AsciiLower, AsciiUpper, Ascii
  <2>3. \A c \in Digit \cup Signs \cup Before \cup {":", "."} : Ascii(c)
    BY <1>4, UnicodeKinds DEF Digit, Signs, Ascii
  <2>4. QED
    BY <2>1, <2>2, <2>3
<1>6. \A c \in AsciiLetter : AsciiKind(c) = "Word"
  <2>1. \A c \in AsciiLower : c \notin {"\n", "\r"} \cup AsciiBlank \cup AsciiControl
    BY DEF AsciiBlank, AsciiControl, AsciiLower
  <2>2. \A c \in AsciiUpper : c \notin {"\n", "\r"} \cup AsciiBlank \cup AsciiControl
    BY DEF AsciiBlank, AsciiControl, AsciiUpper
  <2>3. \A c \in AsciiLetter : c \notin {"\n", "\r"} \cup AsciiBlank \cup AsciiControl
    BY <2>1, <2>2 DEF AsciiLetter
  <2>4. QED
    BY <2>3 DEF AsciiKind
<1>7. \A c \in Digit : AsciiKind(c) = "Number"
  <2>1. \A c \in Digit : c \notin AsciiLetter
    BY DEF AsciiLetter, AsciiLower, AsciiUpper, Digit
  <2>2. \A c \in Digit : c \notin {"\n", "\r", "_"} \cup AsciiBlank \cup AsciiControl
    BY DEF AsciiBlank, AsciiControl, Digit
  <2>3. QED
    BY <2>1, <2>2 DEF AsciiKind
<1>8. \A c \in Signs : AsciiKind(c) = "Symbol"
  <2>1. \A c \in Signs : c \notin {"\n", "\r", "_"} \cup AsciiBlank \cup AsciiControl
    BY DEF AsciiBlank, AsciiControl, Signs
  <2>2. \A c \in Signs : c \notin AsciiLower
    BY DEF AsciiLower, Signs
  <2>3. \A c \in Signs : c \notin AsciiUpper
    BY DEF AsciiUpper, Signs
  <2>4. \A c \in Signs : c \notin Digit
    BY DEF Digit, Signs
  <2>5. \A c \in Signs : c \notin AsciiPunctuation
    BY DEF AsciiPunctuation, Signs
  <2>6. QED
    BY <2>1, <2>2, <2>3, <2>4, <2>5 DEF AsciiKind, AsciiLetter
<1>9. \A c \in Before \cup {":", "."} : AsciiKind(c) \notin {"Word", "Number"}
  <2>1. \A c \in Before \cup {":", "."} : c \notin AsciiLetter \cup {"_"}
    <3>1. \A c \in AsciiLower : c \notin Before \cup {":", "."}
      BY <1>4 DEF AsciiLower
    <3>2. \A c \in AsciiUpper : c \notin Before \cup {":", "."}
      BY <1>4 DEF AsciiUpper
    <3>3. "_" \notin Before \cup {":", "."}
      BY <1>4
    <3>4. QED
      BY <3>1, <3>2, <3>3 DEF AsciiLetter
  <2>2. \A c \in Before \cup {":", "."} : c \notin Digit
    BY <1>4 DEF Digit
  <2>3. QED
    BY <2>1, <2>2 DEF AsciiKind
<1>10. QED
  BY <1>1, <1>2, <1>3, <1>5, <1>6, <1>7, <1>8, <1>9 DEF char

(* No letter and no digit is in a class of another kind, and only a symbol *)
(* holds a sign.                                                           *)
LEMMA ClassHolds ==
  ASSUME NEW text \in Seq(STRING), NEW q \in 1 .. Len(text),
         NEW kind \in AllKinds \ {"Word", "Number"}, ClassifyAt(text, q).kind = kind,
         NEW j \in q .. q + ClassifyAt(text, q).width - 1
  PROVE  /\ j \in 1 .. Len(text) /\ text[j] \notin AsciiLetter \cup Digit
         /\ kind # "Symbol" => text[j] \notin Signs
<1> DEFINE op == OperatorAt(text, q)
           pair == <<At(text, q), At(text, q + 1)>>
           Plain == AsciiLetter \cup Digit
<1>1. j \in 1 .. Len(text)
  BY ClassFits
<1>2. op \in {0, 2, 3}
  BY OperatorFits
<1>3. At(text, q) = text[q] /\ (q + 1 <= Len(text) => At(text, q + 1) = text[q + 1])
      /\ (q + 2 <= Len(text) => At(text, q + 2) = text[q + 2])
  BY DEF At
<1>4. CASE op > 0
  <2>1. /\ pair \in Operators
        /\ op = IF pair \in Lengthened /\ At(text, q + 2) = "=" THEN 3 ELSE 2
    BY <1>4 DEF OperatorAt, OperatorWidth
  <2>2. ClassifyAt(text, q) = [kind |-> "Symbol", width |-> op]
    BY <1>4, ClassIs
  <2>3. \A c, d : <<c, d>> \in Operators => c \notin Plain /\ d \notin Plain
    BY DEF Operators, Lengthened, AsciiLetter, AsciiLower, AsciiUpper, Digit
  <2>4. "=" \notin Plain
    BY DEF AsciiLetter, AsciiLower, AsciiUpper, Digit
  <2> HIDE DEF Plain, op
  <2>5. j = q \/ j = q + 1 \/ (j = q + 2 /\ op = 3)
    BY <1>2, <2>2 DEF op
  <2>6. At(text, q) \notin Plain /\ At(text, q + 1) \notin Plain
    BY <2>1, <2>3
  <2>7. text[j] \notin Plain
    BY <1>1, <1>3, <2>1, <2>4, <2>5, <2>6
  <2>8. QED
    BY <1>1, <2>2, <2>7 DEF Plain
<1>5. CASE op = 0 /\ j = q
  <2>1. KindAt(text, j) = kind
    BY <1>1, <1>5, PlainKinds
  <2>2. QED
    BY <1>1, <2>1, PlainKinds
<1>6. CASE op = 0 /\ j # q
  <2>1. ClassifyAt(text, q).width = 1 \/ (text[q] = "\r" /\ At(text, q + 1) = "\n" /\ ClassifyAt(text, q).width = 2)
    BY <1>6, ClassIs
  <2>2. j = q + 1 /\ At(text, q + 1) = "\n"
    BY <1>6, <2>1
  <2>3. text[j] = "\n"
    BY <1>1, <1>3, <2>2
  <2>4. "\n" \notin Plain \cup Signs
    BY DEF AsciiLetter, AsciiLower, AsciiUpper, Digit, Signs
  <2>5. QED
    BY <1>1, <2>3, <2>4
<1>7. QED
  BY <1>2, <1>4, <1>5, <1>6

(* Every character that a run passes is in one of its steps.               *)
LEMMA RunCovers ==
  ASSUME NEW n \in Nat, NEW step, StepsWithin(n, step), NEW f, Runs(f, n, step)
  PROVE  \A i \in 1 .. n + 1 : \A x \in i .. f[i] - 1 : \E q \in i .. x : x < q + step[q]
<1> DEFINE Covered(i) == \A x \in i .. f[i] - 1 : \E q \in i .. x : x < q + step[q]
           S == {k \in Nat : \A i \in 1 .. n + 1 : n + 1 - i <= k => Covered(i)}
<1>1. /\ \A j \in 1 .. n : step[j] \in Nat /\ j + step[j] <= n + 1
      /\ \A j \in 1 .. n + 1 : /\ f[j] \in j .. n + 1
                               /\ f[j] = IF j > n \/ step[j] = 0 THEN j ELSE f[j + step[j]]
  BY DEF StepsWithin, Runs
<1>2. 0 \in S
  <2> SUFFICES ASSUME NEW i \in 1 .. n + 1, n + 1 - i <= 0 PROVE Covered(i)
    OBVIOUS
  <2>1. f[i] = i
    BY <1>1
  <2>2. QED
    BY <2>1
<1>3. \A k \in Nat : k \in S => k + 1 \in S
  <2> TAKE k \in Nat
  <2> HAVE k \in S
  <2>1. \A i \in 1 .. n + 1 : n + 1 - i <= k => Covered(i)
    OBVIOUS
  <2> SUFFICES ASSUME NEW i \in 1 .. n + 1, n + 1 - i <= k + 1 PROVE Covered(i)
    OBVIOUS
  <2> HIDE DEF S
  <2>2. CASE i > n \/ step[i] = 0
    <3>1. f[i] = i
      BY <1>1, <2>2
    <3>2. QED
      BY <3>1
  <2>3. CASE ~ (i > n \/ step[i] = 0)
    <3> DEFINE next == i + step[i]
    <3>1. next \in 1 .. n + 1 /\ i < next /\ f[i] = f[next] /\ n + 1 - next <= k
      BY <1>1, <2>3
    <3>2. Covered(next)
      BY <2>1, <3>1
    <3> SUFFICES ASSUME NEW x \in i .. f[i] - 1 PROVE \E q \in i .. x : x < q + step[q]
      OBVIOUS
    <3>3. CASE x < next
      <4>1. i \in i .. x /\ x < i + step[i]
        BY <3>3
      <4>2. QED
        BY <4>1
    <3>4. CASE ~ (x < next)
      <4> HIDE DEF next
      <4>1. x \in next .. f[next] - 1
        BY <1>1, <3>1, <3>4
      <4>2. PICK q \in next .. x : x < q + step[q]
        BY <3>2, <4>1
      <4>3. q \in i .. x
        BY <3>1, <4>2
      <4>4. QED
        BY <4>2, <4>3
    <3>5. QED
      BY <3>3, <3>4
  <2>4. QED
    BY <2>2, <2>3
<1>4. Nat \subseteq S
  <2> HIDE DEF S
  <2> QED BY <1>2, <1>3, NatSetInduction
<1> SUFFICES ASSUME NEW i \in 1 .. n + 1 PROVE Covered(i)
  OBVIOUS
<1>5. n + 1 - i \in S
  <2> HIDE DEF S
  <2> QED BY <1>4
<1>6. QED
  BY <1>5

(* A run of single steps: each character it passes is a step of its own.   *)
LEMMA SingleSteps ==
  ASSUME NEW text \in Seq(STRING), NEW step, \A j \in 1 .. Len(text) : step[j] \in {0, 1},
         NEW i \in 1 .. Len(text) + 1, NEW j \in i .. RunEnd(text, i, step) - 1
  PROVE  RunEnd(text, i, step) \in i .. Len(text) + 1 /\ j \in 1 .. Len(text) /\ step[j] = 1
<1> DEFINE n == Len(text)
<1>1. StepsWithin(n, step)
  BY DEF StepsWithin
<1>2. PICK f : Runs(f, n, step) /\ \A k \in 1 .. n + 1 : RunEnd(text, k, step) = f[k]
  BY <1>1, RunLaw
<1>3. f[i] \in i .. n + 1 /\ RunEnd(text, i, step) = f[i]
  BY <1>2 DEF Runs
<1>4. PICK q \in i .. j : j < q + step[q]
  BY <1>1, <1>2, <1>3, RunCovers
<1>5. QED
  BY <1>3, <1>4

(* A unit that is no word and no number holds no letter and no digit, and  *)
(* a sign only when it is of symbols.                                      *)
LEMMA OtherUnitHolds ==
  ASSUME NEW text \in Seq(STRING), NEW a \in 0 .. Len(text) - 1,
         NextUnit(text, a).kind \notin {"Word", "Number"},
         NEW j \in a + 1 .. NextUnit(text, a).end
  PROVE  /\ text[j] \notin AsciiLetter \cup Digit
         /\ NextUnit(text, a).kind # "Symbol" => text[j] \notin Signs
<1> DEFINE n == Len(text)
           kind == NextUnit(text, a).kind
           i == a + 1 + ClassifyAt(text, a + 1).width
           step == SpecialisedStep(text, kind)
           Holds(x) == text[x] \notin AsciiLetter \cup Digit /\ (kind # "Symbol" => text[x] \notin Signs)
<1>1. a + 1 \in 1 .. n /\ n \in Nat /\ DOMAIN text = 1 .. n
  OBVIOUS
<1>2. /\ kind = ClassifyAt(text, a + 1).kind /\ kind \in AllKinds \ {"Word", "Number"}
      /\ NextUnit(text, a).end = Consume(text, i, kind) - 1
      /\ ClassifyAt(text, a + 1).width \in 1 .. 3 /\ i \in 1 .. n + 1
  <2>1. /\ kind = ClassifyAt(text, a + 1).kind
        /\ NextUnit(text, a).end = Consume(text, i, ClassifyAt(text, a + 1).kind) - 1
    BY UnitAlone
  <2>2. /\ ClassifyAt(text, a + 1).kind \in AllKinds /\ ClassifyAt(text, a + 1).width \in 1 .. 3
        /\ (a + 1) + ClassifyAt(text, a + 1).width <= n + 1
    BY <1>1, ClassFits
  <2>3. QED
    BY <2>1, <2>2
<1>3. \A q \in 1 .. n : \A x \in q .. q + ClassifyAt(text, q).width - 1 :
        ClassifyAt(text, q).kind = kind => Holds(x)
  BY <1>2, ClassHolds
<1>4. CASE j < i
  BY <1>1, <1>2, <1>3, <1>4
<1>5. CASE ~ (j < i)
  <2>1. StepsWithin(n, step)
    BY KindSteps
  <2>2. PICK f : Runs(f, n, step) /\ \A k \in 1 .. n + 1 : RunEnd(text, k, step) = f[k]
    BY <2>1, RunLaw
  <2>3. Consume(text, i, kind) = f[i] /\ f[i] \in i .. n + 1
    <3>1. Consume(text, i, kind) = ConsumeSameKind(text, i, kind)
      BY <1>2, ConsumeIs
    <3>2. QED
      BY <1>2, <2>2, <3>1 DEF ConsumeSameKind, Runs
  <2> HIDE DEF i, step, kind, n
  <2>4. j \in i .. f[i] - 1
    BY <1>1, <1>2, <1>5, <2>3 DEF kind
  <2>5. PICK q \in i .. j : j < q + step[q]
    BY <1>1, <1>2, <2>1, <2>2, <2>4, RunCovers
  <2>6. q \in 1 .. n /\ step[q] \in Nat /\ j \in q .. q + step[q] - 1 /\ q + step[q] <= n + 1
    BY <1>1, <1>2, <2>1, <2>3, <2>4, <2>5 DEF StepsWithin
  <2>7. CASE step[q] = GenericStep(text, kind)[q]
    <3>1. ClassifyAt(text, q).kind = kind /\ step[q] = ClassifyAt(text, q).width
      BY <1>1, <2>6, <2>7, SpecialisedStepIs
    <3>2. QED
      BY <1>3, <2>6, <3>1 DEF kind
  <2>8. CASE kind = "Symbol" /\ text[q] = "joiner" /\ GenericStep(text, kind)[q] = 0
    <3>1. step[q] = JoinerStep(text, q)
      <4>1. ~ Ascii(text[q])
        BY <2>8, UnicodeKinds DEF Ascii
      <4>2. QED
        BY <1>1, <2>6, <2>8, <4>1, SpecialisedStepIs DEF step
    <3>2. q < n /\ ClassifyAt(text, q + 1).kind = kind /\ step[q] = 1 + ClassifyAt(text, q + 1).width
      BY <1>1, <2>6, <2>8, <3>1, SpecialisedStepIs DEF n
    <3>3. CASE j = q
      <4>1. "joiner" \notin AsciiLetter \cup Digit
        BY DEF AsciiLetter, AsciiLower, AsciiUpper, Digit
      <4>2. QED
        BY <2>8, <3>3, <4>1 DEF kind
    <3>4. CASE j # q
      <4>1. q + 1 \in 1 .. n /\ ClassifyAt(text, q + 1).width \in 1 .. 3
        BY <1>1, <2>6, <3>2, ClassFits DEF n
      <4>2. j \in q + 1 .. (q + 1) + ClassifyAt(text, q + 1).width - 1
        BY <2>6, <3>2, <3>4, <4>1
      <4>3. QED
        BY <1>3, <3>2, <4>1, <4>2 DEF kind
    <3>5. QED
      BY <3>3, <3>4
  <2>9. QED
    <3>1. \/ step[q] = GenericStep(text, kind)[q]
          \/ kind = "Symbol" /\ text[q] = "joiner" /\ GenericStep(text, kind)[q] = 0
      BY <1>2, <2>6, StepsAgree DEF step, n
    <3>2. QED
      BY <2>7, <2>8, <3>1
<1>6. QED
  BY <1>4, <1>5

(* A word or a number holds letters, digits, and between them what joins   *)
(* them.                                                                   *)
LEMMA WordUnitHolds ==
  ASSUME NEW text \in Seq(STRING), NEW a \in 0 .. Len(text) - 1,
         NextUnit(text, a).kind \in {"Word", "Number"},
         NEW j \in a + 1 .. NextUnit(text, a).end
  PROVE  \/ KindAt(text, j) \in {"Word", "Number"}
         \/ /\ j > a + 1 /\ text[j] \in Joining
            /\ KindAt(text, j + 1) \in {"Word", "Number"}
<1> DEFINE n == Len(text)
           kind == NextUnit(text, a).kind
           Lettered(x) == KindAt(text, x) \in {"Word", "Number"}
           Joins(x) == text[x] \in Joining /\ Lettered(x + 1)
<1>1. a + 1 \in 1 .. n /\ n \in Nat /\ DOMAIN text = 1 .. n
  OBVIOUS
<1>2. /\ kind = ClassifyAt(text, a + 1).kind
      /\ NextUnit(text, a).end = Consume(text, a + 2, kind) - 1
      /\ a + 2 \in 1 .. n + 1 /\ Lettered(a + 1)
  <2>1. /\ kind = ClassifyAt(text, a + 1).kind
        /\ NextUnit(text, a).end =
             Consume(text, a + 1 + ClassifyAt(text, a + 1).width, ClassifyAt(text, a + 1).kind) - 1
    BY UnitAlone
  <2>2. ClassifyAt(text, a + 1).width = 1
    BY <1>1, <2>1, ClassFits
  <2>3. KindAt(text, a + 1) = ClassifyAt(text, a + 1).kind
    BY <1>1, PlainKinds
  <2>4. QED
    BY <2>1, <2>2, <2>3
<1>3. ASSUME NEW i \in 1 .. n + 1, NEW x \in i .. ConsumeWord(text, i) - 1
      PROVE  Lettered(x) \/ Joins(x)
  <2> DEFINE step == WordStep(text)
  <2>1. \A y \in 1 .. n : step[y] \in {0, 1}
    BY DEF WordStep
  <2>2. ConsumeWord(text, i) = RunEnd(text, i, step)
    BY DEF ConsumeWord, WordStep
  <2> HIDE DEF step
  <2>3. x \in 1 .. n /\ step[x] = 1
    BY <2>1, <2>2, SingleSteps
  <2>4. QED
    BY <1>1, <2>3 DEF step, WordStep, Joining
<1>4. ASSUME NEW i \in 1 .. n + 1, NEW x \in i .. RunEnd(text, i, NumberStep(text)) - 1
      PROVE  Lettered(x) \/ Joins(x)
  <2> DEFINE step == NumberStep(text)
  <2>1. \A y \in 1 .. n : step[y] \in {0, 1}
    BY DEF NumberStep
  <2> HIDE DEF step
  <2>2. x \in 1 .. n /\ step[x] = 1
    BY <2>1, SingleSteps DEF step
  <2>3. QED
    BY <1>1, <2>2 DEF step, NumberStep, Joining
<1>5. CASE j = a + 1
  BY <1>2, <1>5
<1>6. CASE j # a + 1 /\ kind = "Word"
  <2>1. j \in a + 2 .. ConsumeWord(text, a + 2) - 1
    BY <1>2, <1>6, ConsumeIs
  <2>2. QED
    BY <1>2, <1>3, <2>1
<1>7. CASE j # a + 1 /\ kind = "Number"
  <2> DEFINE p == RunEnd(text, a + 2, NumberStep(text))
             suffixed == At(text, p) \in SuffixConnector /\ KindAt(text, p + 1) = "Word"
  <2>1. p \in a + 2 .. n + 1
    BY <1>2, WordSteps, RunLaw DEF Runs
  <2>2. NextUnit(text, a).end = (IF suffixed THEN ConsumeWord(text, p + 1) ELSE p) - 1
    BY <1>2, <1>7, ConsumeIs DEF ConsumeNumber, NumberStep
  <2>3. CASE j < p
    <3>1. j \in a + 2 .. p - 1
      BY <1>7, <2>1, <2>3
    <3>2. QED
      BY <1>2, <1>4, <3>1
  <2>4. CASE ~ (j < p)
    <3> HIDE DEF p
    <3>1. suffixed
      BY <2>1, <2>2, <2>4
    <3>2. p + 1 \in 1 .. n
      BY <2>1, <3>1, NoKindBeyond
    <3>3. CASE j = p
      <4>1. j \in DOMAIN text
        BY <1>1, <2>1, <3>2, <3>3
      <4>2. text[j] \in SuffixConnector /\ Lettered(j + 1)
        BY <3>1, <3>3, <4>1 DEF At
      <4>3. SuffixConnector \subseteq Joining
        BY DEF SuffixConnector, Joining, WordConnector
      <4>4. QED
        BY <1>7, <4>2, <4>3
    <3>4. CASE j # p
      <4>1. p + 1 \in 1 .. n + 1 /\ j \in p + 1 .. ConsumeWord(text, p + 1) - 1
        BY <2>1, <2>2, <2>4, <3>1, <3>2, <3>4
      <4>2. QED
        BY <1>3, <1>7, <4>1
    <3>5. QED
      BY <3>3, <3>4
  <2>5. QED
    BY <2>3, <2>4
<1>8. QED
  BY <1>5, <1>6, <1>7

(* A token that begins with a letter or a digit begins a unit: nothing     *)
(* that is taken off its front joins it to what comes before.              *)
LEMMA TokenBegins ==
  ASSUME NEW text \in Seq(STRING), NEW a \in 0 .. Len(text) - 1,
         NEW p \in a + 1 .. NextUnit(text, a).end, text[p] \in AsciiLetter \cup Digit,
         NEW b \in 1 .. p, \A x \in b .. p - 1 : text[x] \in Opening,
         b = 1 \/ text[b - 1] \in Separator
  PROVE  p = a + 1
<1> DEFINE Lettered(x) == KindAt(text, x) \in {"Word", "Number"}
<1>1. NextUnit(text, a).end \in a + 1 .. Len(text) /\ p \in 1 .. Len(text)
  <2>1. NextUnit(text, a).end \in a + 1 .. Len(text)
    BY UnitAlone
  <2>2. QED
    BY <2>1
<1>2. NextUnit(text, a).kind \in {"Word", "Number"}
  BY OtherUnitHolds
<1>3. \A x \in 1 .. p - 1 : x >= b - 1 => text[x] \in Before /\ ~ Lettered(x)
  <2> SUFFICES ASSUME NEW x \in 1 .. p - 1, x >= b - 1 PROVE text[x] \in Before /\ ~ Lettered(x)
    OBVIOUS
  <2>1. text[x] \in Before
    <3>1. CASE x = b - 1
      BY <3>1 DEF Before
    <3>2. CASE x # b - 1
      BY <3>2 DEF Before
    <3>3. QED
      BY <3>1, <3>2
  <2>2. QED
    BY <1>1, <2>1, PlainKinds
<1>4. \A x \in a + 1 .. p : Lettered(x) \/ (x > a + 1 /\ text[x] \in Joining /\ Lettered(x + 1))
  BY <1>1, <1>2, WordUnitHolds
<1>5. Before \cap Joining \subseteq {"'"} /\ "'" \notin Separator
  BY LiteralCharacters
  DEF Before, Joining, Separator, Blank, AsciiControl, WordConnector, NumberSeparator
<1> SUFFICES ASSUME p # a + 1 PROVE FALSE
  OBVIOUS
<1> HIDE DEF Lettered
<1> DEFINE x == p - 1
           y == p - 2
<1>6. x \in a + 1 .. p /\ x \in 1 .. p - 1 /\ x >= b - 1 /\ y + 1 = x
  BY <1>1
<1>7. text[x] \in Before /\ ~ Lettered(x) /\ x > a + 1 /\ text[x] \in Joining
  BY <1>3, <1>4, <1>6
<1>8. text[x] = "'"
  BY <1>5, <1>7
<1>9. x # b - 1
  BY <1>5, <1>6, <1>8
<1>10. y \in a + 1 .. p /\ y \in 1 .. p - 1 /\ y >= b - 1
  BY <1>6, <1>7, <1>9
<1>11. ~ Lettered(y)
  BY <1>3, <1>10
<1>12. Lettered(y + 1)
  BY <1>4, <1>10, <1>11
<1>13. QED
  BY <1>6, <1>7, <1>12

(* Where a run of single steps ends.                                       *)
LEMMA SingleRun ==
  ASSUME NEW text \in Seq(STRING), NEW step, \A j \in 1 .. Len(text) : step[j] \in {0, 1},
         NEW i \in 1 .. Len(text) + 1, NEW e \in i .. Len(text) + 1, \A j \in i .. e - 1 : step[j] = 1
  PROVE  /\ RunEnd(text, i, step) \in e .. Len(text) + 1
         /\ e = Len(text) + 1 \/ step[e] = 0 => RunEnd(text, i, step) = e
<1> DEFINE n == Len(text)
<1>1. StepsWithin(n, step)
  BY DEF StepsWithin
<1>2. PICK f : Runs(f, n, step) /\ \A k \in 1 .. n + 1 : RunEnd(text, k, step) = f[k]
  BY <1>1, RunLaw
<1>3. \A j \in 1 .. n + 1 : /\ f[j] \in j .. n + 1
                            /\ f[j] = IF j > n \/ step[j] = 0 THEN j ELSE f[j + step[j]]
  BY <1>2 DEF Runs
<1> DEFINE S == {k \in Nat : \A j \in i .. e : e - j <= k => f[j] = f[e]}
<1>4. 0 \in S
  OBVIOUS
<1>5. \A k \in Nat : k \in S => k + 1 \in S
  <2> TAKE k \in Nat
  <2> HAVE k \in S
  <2>1. \A j \in i .. e : e - j <= k => f[j] = f[e]
    OBVIOUS
  <2> SUFFICES ASSUME NEW j \in i .. e, e - j <= k + 1 PROVE f[j] = f[e]
    OBVIOUS
  <2> HIDE DEF S
  <2>2. CASE j # e
    <3>1. j \in 1 .. n /\ step[j] = 1 /\ j + 1 \in i .. e /\ e - (j + 1) <= k
      BY <2>2
    <3>2. j \in 1 .. n + 1 /\ ~ (j > n) /\ step[j] # 0 /\ j + step[j] = j + 1
      BY <3>1
    <3>3. f[j] = f[j + 1]
      BY <1>3, <3>2
    <3>4. QED
      BY <2>1, <3>1, <3>3
  <2>3. QED
    BY <2>2
<1>6. Nat \subseteq S
  <2> HIDE DEF S
  <2> QED BY <1>4, <1>5, NatSetInduction
<1>7. e - i \in S
  <2> HIDE DEF S
  <2> QED BY <1>6
<1>8. f[i] = f[e]
  BY <1>7
<1>9. RunEnd(text, i, step) = f[e] /\ e \in 1 .. n + 1
  BY <1>2, <1>8
<1> HIDE DEF S
<1>10. QED
  BY <1>3, <1>9

(* A unit that begins with a letter or a digit. *)
LEMMA LetteredUnit ==
  ASSUME NEW text \in Seq(STRING), NEW a \in 0 .. Len(text) - 1,
         KindAt(text, a + 1) \in {"Word", "Number"}
  PROVE  NextUnit(text, a) =
           [start |-> a, kind |-> KindAt(text, a + 1),
            end |-> (IF KindAt(text, a + 1) = "Word" THEN ConsumeWord(text, a + 2)
                     ELSE ConsumeNumber(text, a + 2)) - 1]
<1>1. a + 1 \in 1 .. Len(text)
  OBVIOUS
<1>2. KindAt(text, a + 1) = ClassifyAt(text, a + 1).kind /\ ClassifyAt(text, a + 1).width = 1
  BY <1>1, PlainKinds, ClassFits
<1>3. NextUnit(text, a) =
        [start |-> a, kind |-> ClassifyAt(text, a + 1).kind,
         end |-> Consume(text, a + 1 + ClassifyAt(text, a + 1).width,
                         ClassifyAt(text, a + 1).kind) - 1]
  BY DEF NextUnit, UnitOf
<1>4. NextUnit(text, a) =
        [start |-> a, kind |-> KindAt(text, a + 1),
         end |-> Consume(text, a + 2, KindAt(text, a + 1)) - 1]
  <2>1. a + 1 + ClassifyAt(text, a + 1).width = a + 2
    BY <1>2
  <2>2. QED
    BY <1>2, <1>3, <2>1
<1>5. QED
  BY <1>4, ConsumeIs

(* Letters before a colon or a full stop are one word.                     *)
LEMMA LettersAreWord ==
  ASSUME NEW text \in Seq(STRING), NEW a \in Nat, NEW e \in Nat, a < e, e < Len(text),
         \A j \in a + 1 .. e : text[j] \in AsciiLetter, text[e + 1] \in {":", "."}
  PROVE  NextUnit(text, a) = [start |-> a, end |-> e, kind |-> "Word"]
<1> DEFINE n == Len(text)
           step == WordStep(text)
<1>1. a \in 0 .. n - 1 /\ a + 1 \in 1 .. n /\ a + 1 \in a + 1 .. e
  OBVIOUS
<1>2. \A j \in a + 1 .. e : KindAt(text, j) = "Word"
  BY PlainKinds
<1>3. \A j \in 1 .. n : step[j] \in {0, 1}
  BY DEF WordStep
<1>4. \A j \in a + 2 .. (e + 1) - 1 : step[j] = 1
  BY <1>2 DEF WordStep
<1>5. step[e + 1] = 0
  <2>1. e + 1 \in 1 .. n
    OBVIOUS
  <2>2. KindAt(text, e + 1) \notin {"Word", "Number"}
    BY <2>1, PlainKinds
  <2>3. text[e + 1] \notin WordConnector
    BY DEF WordConnector
  <2>4. e + 1 \in DOMAIN text
    BY <2>1
  <2>5. QED
    BY <2>2, <2>3, <2>4 DEF WordStep
<1> HIDE DEF step
<1>6. RunEnd(text, a + 2, step) = e + 1
  <2>1. a + 2 \in 1 .. n + 1 /\ e + 1 \in a + 2 .. n + 1
    OBVIOUS
  <2>2. QED
    BY <1>3, <1>4, <1>5, <2>1, SingleRun
<1>7. ConsumeWord(text, a + 2) = e + 1
  BY <1>6 DEF ConsumeWord, WordStep, step
<1>8. KindAt(text, a + 1) = "Word"
  BY <1>1, <1>2
<1>9. QED
  BY <1>1, <1>7, <1>8, LetteredUnit

(* A date before a T is one number, and the time after it begins a word.   *)
LEMMA DateThenTime ==
  ASSUME NEW text \in Seq(STRING), NEW a \in Nat, a + 13 <= Len(text),
         \A k \in (1 .. 13) \ {5, 8, 11} : text[a + k] \in Digit,
         text[a + 5] = "-", text[a + 8] = "-", text[a + 11] \in {"T", "t"}
  PROVE  /\ NextUnit(text, a) = [start |-> a, end |-> a + 10, kind |-> "Number"]
         /\ NextUnit(text, a + 10).kind = "Word" /\ NextUnit(text, a + 10).end >= a + 13
<1> DEFINE n == Len(text)
           digits == NumberStep(text)
           letters == WordStep(text)
<1>1. \A k \in 1 .. 13 : a + k \in 1 .. n /\ a + k \in DOMAIN text
  OBVIOUS
<1>2. /\ \A k \in (1 .. 13) \ {5, 8, 11} : KindAt(text, a + k) = "Number"
      /\ KindAt(text, a + 11) = "Word"
  <2>1. \A k \in (1 .. 13) \ {5, 8, 11} : KindAt(text, a + k) = "Number"
    BY <1>1, PlainKinds
  <2>2. text[a + 11] \in AsciiLetter
    BY DEF AsciiLetter, AsciiLower, AsciiUpper
  <2>3. QED
    BY <1>1, <2>1, <2>2, PlainKinds
<1>3. \A j \in 1 .. n : digits[j] \in {0, 1} /\ letters[j] \in {0, 1}
  BY DEF NumberStep, WordStep
<1>4. \A j \in a + 2 .. (a + 11) - 1 : digits[j] = 1
  <2> SUFFICES ASSUME NEW j \in a + 2 .. a + 10 PROVE digits[j] = 1
    OBVIOUS
  <2> DEFINE k == j - a
  <2>1. k \in 2 .. 10 /\ j = a + k
    OBVIOUS
  <2> HIDE DEF k
  <2>2. CASE k \in {5, 8}
    <3>0. k + 1 \in (1 .. 13) \ {5, 8, 11} /\ a + (k + 1) = j + 1
      BY <2>1, <2>2
    <3>1. KindAt(text, j + 1) = "Number"
      BY <1>2, <3>0
    <3>2. text[j] \in NumberSeparator
      BY <2>1, <2>2 DEF NumberSeparator
    <3>3. j \in DOMAIN text
      <4>1. k \in 1 .. 13
        BY <2>1
      <4>2. a + k \in DOMAIN text
        BY <1>1, <4>1
      <4>3. QED
        BY <2>1, <4>2
    <3>4. QED
      BY <3>1, <3>2, <3>3 DEF NumberStep
  <2>3. CASE k \notin {5, 8}
    <3>1. k \in (1 .. 13) \ {5, 8, 11} /\ k \in 1 .. 13
      BY <2>1, <2>3
    <3>2. KindAt(text, a + k) = "Number" /\ a + k \in DOMAIN text
      BY <1>1, <1>2, <3>1
    <3>3. QED
      BY <2>1, <3>2 DEF NumberStep
  <2>4. QED
    BY <2>2, <2>3
<1>5. digits[a + 11] = 0
  <2>1. text[a + 11] \notin NumberSeparator
    BY DEF NumberSeparator
  <2>2. QED
    BY <1>1, <1>2, <2>1 DEF NumberStep
<1>6. \A j \in a + 12 .. (a + 14) - 1 : letters[j] = 1
  <2> SUFFICES ASSUME NEW j \in a + 12 .. a + 13 PROVE letters[j] = 1
    OBVIOUS
  <2>1. j = a + 12 \/ j = a + 13
    OBVIOUS
  <2>2. KindAt(text, j) = "Number" /\ j \in DOMAIN text
    <3>1. {12, 13} \subseteq (1 .. 13) \ {5, 8, 11} /\ {12, 13} \subseteq 1 .. 13
      OBVIOUS
    <3>2. PICK k \in {12, 13} : j = a + k
      BY <2>1
    <3>3. KindAt(text, a + k) = "Number" /\ a + k \in DOMAIN text
      BY <1>1, <1>2, <3>1
    <3>4. QED
      BY <3>2, <3>3
  <2>3. QED
    BY <2>2 DEF WordStep
<1> HIDE DEF digits, letters
<1>7. RunEnd(text, a + 2, digits) = a + 11
  <2>1. a + 2 \in 1 .. n + 1 /\ a + 11 \in a + 2 .. n + 1
    OBVIOUS
  <2>2. QED
    BY <1>3, <1>4, <1>5, <2>1, SingleRun
<1>8. RunEnd(text, a + 12, letters) >= a + 14
  <2>1. a + 12 \in 1 .. n + 1 /\ a + 14 \in a + 12 .. n + 1
    OBVIOUS
  <2>2. RunEnd(text, a + 12, letters) \in a + 14 .. n + 1
    BY <1>3, <1>6, <2>1, SingleRun
  <2>3. QED
    BY <2>2
<1>9. ConsumeNumber(text, a + 2) = a + 11
  <2>1. At(text, a + 11) \notin SuffixConnector
    BY <1>1 DEF At, SuffixConnector
  <2>2. QED
    BY <1>7, <2>1 DEF ConsumeNumber, NumberStep, digits
<1>10. NextUnit(text, a) = [start |-> a, end |-> a + 10, kind |-> "Number"]
  <2>1. a \in 0 .. n - 1 /\ KindAt(text, a + 1) = "Number"
    BY <1>2
  <2>2. NextUnit(text, a) = [start |-> a, kind |-> "Number", end |-> (a + 11) - 1]
    BY <1>9, <2>1, LetteredUnit
  <2>3. QED
    BY <2>2
<1>11. NextUnit(text, a + 10).kind = "Word" /\ NextUnit(text, a + 10).end = ConsumeWord(text, a + 12) - 1
  <2> DEFINE c == a + 10
  <2>1. c \in 0 .. n - 1 /\ c + 1 = a + 11 /\ c + 2 = a + 12
    OBVIOUS
  <2> HIDE DEF c, n
  <2>2. KindAt(text, c + 1) = "Word"
    BY <1>2, <2>1
  <2>3. NextUnit(text, c) = [start |-> c, kind |-> "Word", end |-> ConsumeWord(text, c + 2) - 1]
    BY <2>1, <2>2, LetteredUnit DEF n
  <2>4. QED
    BY <2>1, <2>3 DEF c
<1>12. ConsumeWord(text, a + 12) >= a + 14 /\ ConsumeWord(text, a + 12) \in Nat
  <2>1. ConsumeWord(text, a + 12) = RunEnd(text, a + 12, letters)
    BY DEF ConsumeWord, WordStep, letters
  <2>2. RunEnd(text, a + 12, letters) \in a + 12 .. n + 1
    <3>1. a + 12 \in 1 .. n + 1
      OBVIOUS
    <3>2. QED
      BY <3>1, WordSteps, RunLaw DEF Runs, letters
  <2>3. QED
    BY <1>8, <2>1, <2>2
<1>13. QED
  BY <1>10, <1>11, <1>12

(* Where a technical token is: after separators and opening marks.         *)
LEMMA TokenPlace ==
  ASSUME NEW text \in Seq(STRING), NEW span \in InlineArtifactSpans(text)
  PROVE  \E left \in 1 .. Len(text), b \in 1 .. Len(text) :
           /\ b <= left /\ span.start = left - 1 /\ span.end \in left .. Len(text)
           /\ \A x \in b .. left - 1 : text[x] \in Opening
           /\ b = 1 \/ text[b - 1] \in Separator
<1> DEFINE n == Len(text)
           begins == {i \in DOMAIN text : text[i] \notin Separator
                                          /\ (i = 1 \/ text[i - 1] \in Separator)}
           Stops(i) == {j \in i .. Len(text) : j = Len(text) \/ text[j + 1] \in Separator}
           ends(i) == Min(Stops(i))
           Lefts(i) == {j \in i .. ends(i) + 1 : j > ends(i) \/ text[j] \notin Opening}
           left(i) == Min(Lefts(i))
           Kept(i) == {j \in left(i) .. ends(i) : text[j] \notin Closing}
           trimmed(i) == [start |-> left(i) - 1,
                          end |-> IF Kept(i) = {} THEN left(i) - 1 ELSE Max(Kept(i))]
<1>1. span \in {trimmed(i) : i \in begins} /\ LooksTechnical(Bytes(text, span))
  BY DEF InlineArtifactSpans, InlineTokens
<1>2. PICK i \in begins : span = trimmed(i)
  BY <1>1
<1>3. i \in 1 .. n /\ (i = 1 \/ text[i - 1] \in Separator) /\ n \in Nat
  OBVIOUS
<1>4. ends(i) \in i .. n
  <2>1. Stops(i) \in SUBSET Nat /\ n \in Stops(i)
    BY <1>3
  <2>2. Stops(i) \subseteq i .. n
    OBVIOUS
  <2> HIDE DEF Stops
  <2>3. QED
    BY <2>1, <2>2, MinOfNaturals
<1> DEFINE e == ends(i)
           l == left(i)
<1>5. l \in i .. e + 1 /\ \A x \in i .. l - 1 : text[x] \in Opening
  <2>1. Lefts(i) = {j \in i .. e + 1 : j > e \/ text[j] \notin Opening} /\ e \in i .. n
    BY <1>4
  <2> HIDE DEF e, Lefts
  <2>2. Lefts(i) \in SUBSET Nat /\ e + 1 \in Lefts(i)
    BY <1>3, <2>1
  <2>3. Min(Lefts(i)) \in Lefts(i) /\ \A y \in Lefts(i) : Min(Lefts(i)) <= y
    BY <2>2, MinOfNaturals
  <2>4. l \in i .. e + 1 /\ \A y \in Lefts(i) : l <= y
    BY <2>1, <2>3
  <2> HIDE DEF l
  <2>5. QED
    BY <1>3, <2>1, <2>4
<1>6. span = [start |-> l - 1, end |-> IF Kept(i) = {} THEN l - 1 ELSE Max(Kept(i))]
  BY <1>2
<1>7. Kept(i) \subseteq l .. e
  OBVIOUS
<1> HIDE DEF e, l, trimmed, Kept, begins
<1>8. Kept(i) # {}
  <2> SUFFICES ASSUME Kept(i) = {} PROVE FALSE
    OBVIOUS
  <2>1. span.start = l - 1 /\ span.end = l - 1
    BY <1>6
  <2>2. Bytes(text, span) = SubSeq(text, l, l - 1)
    BY <1>3, <1>5, <2>1 DEF Bytes
  <2>3. SubSeq(text, l, l - 1) = <<>>
    BY <1>3, <1>4, <1>5 DEF e
  <2>4. QED
    BY <1>1, <2>2, <2>3 DEF LooksTechnical
<1>9. Max(Kept(i)) \in Kept(i)
  <2>1. Kept(i) \in SUBSET (1 .. n)
    BY <1>3, <1>4, <1>5, <1>7 DEF e
  <2>2. QED
    BY <1>3, <1>8, <2>1, MaxOfNaturals
<1>10. span.start = l - 1 /\ span.end \in l .. e
  BY <1>6, <1>7, <1>8, <1>9
<1>11. l \in 1 .. n /\ i \in 1 .. n /\ i <= l /\ span.end \in l .. n
  BY <1>3, <1>4, <1>5, <1>10 DEF e
<1>12. QED
  BY <1>3, <1>5, <1>10, <1>11

(* What a word that begins a text puts there.                              *)
LEMMA PrefixHas ==
  ASSUME NEW S, NEW p \in Seq(S), NEW t \in Seq(STRING), IsPrefix(p, t)
  PROVE  Len(p) <= Len(t) /\ \A i \in 1 .. Len(p) : t[i] = p[i]
<1>1. Len(p) <= Len(t) /\ SubSeq(p, 1, Len(p)) = SubSeq(t, 1, Len(p))
  BY DEF IsPrefix
<1>2. \A i \in 1 .. Len(p) : SubSeq(p, 1, Len(p))[i] = p[i] /\ SubSeq(t, 1, Len(p))[i] = t[i]
  BY <1>1
<1>3. QED
  BY <1>1, <1>2

(* A scanned text, and the units of it that give an artifact away.         *)
Scan(text, us) ==
  /\ Covers(text, us) /\ Len(us) \in Nat /\ DOMAIN us = 1 .. Len(us)
  /\ \A k \in 1 .. Len(us) : us[k].start \in 0 .. Len(text) - 1 /\ us[k] = NextUnit(text, us[k].start)
  /\ \A i \in 1 .. Len(text) : \E k \in 1 .. Len(us) : i \in us[k].start + 1 .. us[k].end
Tells(text, us, k) ==
  LET bytes == Bytes(text, us[k])
  IN  \/ us[k].kind \in Operatorlike /\ Signs \cap ToSet(bytes) # {}
      \/ us[k].kind = "Word" /\ bytes \in {Chars("http"), Chars("https"), Chars("www")}
      \/ k > 1 /\ us[k - 1].kind = "Number" /\ us[k].kind = "Word" /\ IsoTimeTail(bytes)

(* A sign is always in a unit of symbols or of punctuation.                *)
LEMMA SignTells ==
  ASSUME NEW text \in Seq(STRING), NEW us, Scan(text, us),
         NEW i \in 1 .. Len(text), text[i] \in Signs
  PROVE  \E k \in DOMAIN us : Tells(text, us, k)
<1>1. PICK k \in 1 .. Len(us) : i \in us[k].start + 1 .. us[k].end
  BY DEF Scan
<1> DEFINE a == us[k].start
           kind == us[k].kind
<1>2. a \in 0 .. Len(text) - 1 /\ us[k] = NextUnit(text, a) /\ k \in DOMAIN us
  BY DEF Scan
<1>3. NextUnit(text, a).end \in a + 1 .. Len(text) /\ i \in a + 1 .. NextUnit(text, a).end
  <2>1. NextUnit(text, a).end \in a + 1 .. Len(text)
    BY <1>2, UnitAlone
  <2>2. QED
    BY <1>1, <1>2, <2>1
<1> HIDE DEF a
<1>4. kind \notin {"Word", "Number"}
  <2> SUFFICES ASSUME NextUnit(text, a).kind \in {"Word", "Number"} PROVE FALSE
    BY <1>2
  <2>1. KindAt(text, i) = "Symbol"
    BY PlainKinds
  <2>2. text[i] \in Joining
    BY <1>2, <1>3, <2>1, WordUnitHolds
  <2>3. QED
    BY <2>2 DEF Joining, Signs, WordConnector, NumberSeparator
<1>5. kind = "Symbol"
  BY <1>2, <1>3, <1>4, OtherUnitHolds
<1>6. text[i] \in ToSet(Bytes(text, us[k]))
  <2> DEFINE z == NextUnit(text, a).end
             part == Part(text, a, z)
  <2>1. Bytes(text, us[k]) = part
    BY <1>2 DEF Bytes, Part, a
  <2>2. z \in a .. Len(text) /\ i - a \in 1 .. z - a /\ a + (i - a) = i
    BY <1>2, <1>3
  <2> HIDE DEF z
  <2>3. part \in Seq(STRING) /\ Len(part) = z - a /\ \A y \in 1 .. z - a : part[y] = text[a + y]
    BY <1>2, <2>2, PartIs
  <2> HIDE DEF part
  <2>4. part[i - a] = text[i] /\ i - a \in DOMAIN part
    BY <2>2, <2>3
  <2>5. QED
    BY <2>1, <2>4 DEF ToSet
<1>7. QED
  BY <1>2, <1>5, <1>6 DEF Tells, Operatorlike

(* The unit at the front of a token. *)
LEMMA UnitOfToken ==
  ASSUME NEW text \in Seq(STRING), NEW us, Scan(text, us), NEW left \in 1 .. Len(text),
         NEW b \in 1 .. Len(text), b <= left, \A x \in b .. left - 1 : text[x] \in Opening,
         b = 1 \/ text[b - 1] \in Separator, text[left] \in AsciiLetter \cup Digit
  PROVE  \E k \in DOMAIN us : us[k] = NextUnit(text, left - 1)
<1>1. PICK k \in 1 .. Len(us) : left \in us[k].start + 1 .. us[k].end
  BY DEF Scan
<1> DEFINE a == us[k].start
<1>2. a \in 0 .. Len(text) - 1 /\ us[k] = NextUnit(text, a) /\ k \in DOMAIN us
  BY DEF Scan
<1> HIDE DEF a
<1>3. left \in a + 1 .. NextUnit(text, a).end
  BY <1>1, <1>2 DEF a
<1>4. b \in 1 .. left
  OBVIOUS
<1>5. left = a + 1
  BY <1>2, <1>3, <1>4, TokenBegins
<1>6. a = left - 1
  BY <1>2, <1>5
<1>7. QED
  BY <1>2, <1>6

(* The word that an address begins with is a unit of its own.              *)
LEMMA AddressTells ==
  ASSUME NEW text \in Seq(STRING), NEW us, Scan(text, us), NEW left \in 1 .. Len(text),
         NEW b \in 1 .. Len(text), b <= left, \A x \in b .. left - 1 : text[x] \in Opening,
         b = 1 \/ text[b - 1] \in Separator,
         NEW word \in {Chars("http"), Chars("https"), Chars("www")},
         left + Len(word) <= Len(text), \A i \in 1 .. Len(word) : text[left - 1 + i] = word[i],
         text[left + Len(word)] \in {":", "."}
  PROVE  \E k \in DOMAIN us : Tells(text, us, k)
<1> DEFINE m == Len(word)
           a == left - 1
<1>1. word \in Seq(AsciiLetter) /\ m \in Nat /\ m > 0
  <2>1. {"h", "t", "p", "s", "w"} \subseteq AsciiLetter
    BY DEF AsciiLetter, AsciiLower
  <2>2. word \in {<<"h", "t", "t", "p">>, <<"h", "t", "t", "p", "s">>, <<"w", "w", "w">>}
    BY LiteralCharacters
  <2>3. CASE word = <<"h", "t", "t", "p">>
    BY <2>1, <2>3
  <2>4. CASE word = <<"h", "t", "t", "p", "s">>
    BY <2>1, <2>4
  <2>5. CASE word = <<"w", "w", "w">>
    BY <2>1, <2>5
  <2>6. QED
    BY <2>2, <2>3, <2>4, <2>5
<1> HIDE DEF m
<1>2. a \in Nat /\ a + m \in Nat /\ a < a + m /\ a + m < Len(text) /\ (a + m) + 1 = left + m
  BY <1>1 DEF m
<1>3. \A j \in a + 1 .. a + m : text[j] \in AsciiLetter
  <2> SUFFICES ASSUME NEW j \in a + 1 .. a + m PROVE text[j] \in AsciiLetter
    OBVIOUS
  <2>1. j - a \in 1 .. m /\ left - 1 + (j - a) = j
    BY <1>1
  <2>2. text[j] = word[j - a] /\ word[j - a] \in AsciiLetter
    BY <1>1, <2>1 DEF m
  <2>3. QED
    BY <2>2
<1>4. NextUnit(text, a) = [start |-> a, end |-> a + m, kind |-> "Word"]
  <2>1. text[(a + m) + 1] \in {":", "."}
    BY <1>2 DEF m
  <2> HIDE DEF a
  <2>2. QED
    BY <1>2, <1>3, <2>1, LettersAreWord
<1>5. PICK k \in DOMAIN us : us[k] = NextUnit(text, a)
  <2>1. text[left] \in AsciiLetter \cup Digit
    <3>1. left \in a + 1 .. a + m
      BY <1>1
    <3>2. QED
      BY <1>3, <3>1
  <2>2. QED
    BY <2>1, UnitOfToken
<1>6. Bytes(text, us[k]) = word
  <2>1. Bytes(text, us[k]) = Part(text, a, a + m)
    <3>1. us[k].start = a /\ us[k].end = a + m
      BY <1>4, <1>5
    <3>2. QED
      BY <3>1 DEF Bytes, Part
  <2>2. /\ Part(text, a, a + m) \in Seq(STRING) /\ Len(Part(text, a, a + m)) = m
        /\ \A i \in 1 .. m : Part(text, a, a + m)[i] = text[a + i]
    <3> DEFINE z == a + m
    <3>1. a \in Nat /\ z \in a .. Len(text) /\ z - a = m
      BY <1>1, <1>2
    <3> HIDE DEF a, z
    <3>2. /\ Part(text, a, z) \in Seq(STRING) /\ Len(Part(text, a, z)) = z - a
          /\ \A i \in 1 .. z - a : Part(text, a, z)[i] = text[a + i]
      BY <3>1, PartIs
    <3>3. QED
      BY <3>1, <3>2 DEF z
  <2> DEFINE part == Part(text, a, a + m)
  <2>3. \A i \in 1 .. m : part[i] = word[i]
    BY <2>2 DEF m
  <2> HIDE DEF part
  <2>4. part \in Seq(STRING) /\ Len(part) = m
    BY <2>2 DEF part
  <2>5. part = word
    BY <1>1, <2>3, <2>4 DEF m
  <2>6. QED
    BY <2>1, <2>5 DEF part
<1>7. us[k].kind = "Word"
  BY <1>4, <1>5
<1>8. QED
  BY <1>5, <1>6, <1>7 DEF Tells

(* A timestamp is a number, its date, and then a word with the time.       *)
LEMMA TimestampTells ==
  ASSUME NEW text \in Seq(STRING), NEW us, Scan(text, us), NEW left \in 1 .. Len(text),
         NEW b \in 1 .. Len(text), b <= left, \A x \in b .. left - 1 : text[x] \in Opening,
         b = 1 \/ text[b - 1] \in Separator, left + 12 <= Len(text),
         \A i \in (1 .. 13) \ {5, 8, 11} : text[left - 1 + i] \in Digit,
         text[left + 4] = "-", text[left + 7] = "-", text[left + 10] \in {"T", "t"}
  PROVE  \E k \in DOMAIN us : Tells(text, us, k)
<1> DEFINE a == left - 1
           time == a + 10
           next == NextUnit(text, time)
<1>1. a \in Nat /\ a + 13 <= Len(text) /\ a + 5 = left + 4 /\ a + 8 = left + 7 /\ a + 11 = left + 10
  OBVIOUS
<1>2. /\ NextUnit(text, a) = [start |-> a, end |-> time, kind |-> "Number"]
      /\ next.kind = "Word" /\ next.end >= a + 13
  <2>1. \A i \in (1 .. 13) \ {5, 8, 11} : text[a + i] \in Digit
    OBVIOUS
  <2>2. text[a + 5] = "-" /\ text[a + 8] = "-" /\ text[a + 11] \in {"T", "t"}
    BY <1>1
  <2> HIDE DEF a
  <2>3. QED
    BY <1>1, <2>1, <2>2, DateThenTime
<1>3. PICK k \in DOMAIN us : us[k] = NextUnit(text, a)
  <2>1. text[left] \in AsciiLetter \cup Digit
    <3>1. 1 \in (1 .. 13) \ {5, 8, 11} /\ left - 1 + 1 = left
      OBVIOUS
    <3>2. QED
      BY <3>1
  <2>2. QED
    BY <2>1, UnitOfToken
<1>4. k \in 1 .. Len(us) /\ Len(us) \in Nat /\ us[k].end = time
  BY <1>2, <1>3 DEF Scan
<1>5. k + 1 \in 1 .. Len(us)
  <2> SUFFICES ASSUME k = Len(us) PROVE FALSE
    BY <1>4
  <2>1. us # <<>>
    BY <1>4
  <2>2. Len(text) = us[Len(us)].end
    BY <2>1 DEF Scan, Covers
  <2>3. QED
    BY <1>1, <1>4, <2>2
<1>6. us[k + 1] = next
  <2>1. us[k + 1].start = us[k].end
    <3>1. us[k + 1].start = IF k + 1 = 1 THEN 0 ELSE us[(k + 1) - 1].end
      BY <1>5 DEF Scan, Covers
    <3>2. (k + 1) - 1 = k /\ k + 1 # 1
      <4>1. k \in Nat /\ k >= 1
        BY <1>4
      <4>2. QED
        BY ONLY <4>1
    <3>3. QED
      BY <3>1, <3>2
  <2>2. us[k + 1] = NextUnit(text, us[k + 1].start)
    BY <1>5 DEF Scan
  <2>3. QED
    BY <1>4, <2>1, <2>2
<1>7. IsoTimeTail(Bytes(text, us[k + 1]))
  <2> DEFINE part == Part(text, time, next.end)
  <2>0. time \in 0 .. Len(text) - 1 /\ time \in Nat
    BY <1>1
  <2>1. next.start = time /\ next.end \in time + 1 .. Len(text)
    BY <2>0, UnitAlone
  <2>2. Bytes(text, us[k + 1]) = part
    BY <1>6, <2>1 DEF Bytes, Part
  <2>3. next.end \in time .. Len(text) /\ next.end - time >= 3 /\ next.end - time \in Nat
    BY <1>1, <1>2, <2>0, <2>1
  <2> DEFINE z == next.end
  <2> HIDE DEF time, z
  <2>4. /\ part \in Seq(STRING) /\ Len(part) = next.end - time
        /\ \A y \in 1 .. next.end - time : part[y] = text[time + y]
    <3>1. z \in time .. Len(text)
      BY <2>3 DEF z
    <3>2. /\ Part(text, time, z) \in Seq(STRING) /\ Len(Part(text, time, z)) = z - time
          /\ \A y \in 1 .. z - time : Part(text, time, z)[y] = text[time + y]
      BY <2>0, <3>1, PartIs
    <3>3. QED
      BY <3>2 DEF z
  <2> HIDE DEF part, next
  <2>5. part[1] = text[time + 1] /\ part[2] = text[time + 2] /\ part[3] = text[time + 3]
    BY <2>3, <2>4
  <2>6. text[time + 1] \in {"T", "t"} /\ text[time + 2] \in Digit /\ text[time + 3] \in Digit
    <3>1. /\ time + 1 = left + 10 /\ time + 2 = left - 1 + 12 /\ time + 3 = left - 1 + 13
          /\ 12 \in (1 .. 13) \ {5, 8, 11} /\ 13 \in (1 .. 13) \ {5, 8, 11}
      BY DEF time
    <3>2. QED
      BY <3>1
  <2>7. QED
    BY <2>2, <2>3, <2>4, <2>5, <2>6 DEF IsoTimeTail
<1>8. k + 1 > 1 /\ us[(k + 1) - 1].kind = "Number" /\ us[k + 1].kind = "Word" /\ k + 1 \in DOMAIN us
  <2>1. (k + 1) - 1 = k /\ k + 1 > 1
    BY <1>4
  <2>2. us[k].kind = "Number" /\ us[k + 1].kind = "Word"
    BY <1>2, <1>3, <1>6
  <2>3. k + 1 \in DOMAIN us
    BY <1>5 DEF Scan
  <2>4. QED
    BY <2>1, <2>2, <2>3
<1>9. QED
  BY <1>7, <1>8 DEF Tells

(* What the byte scan accepts as an address, an assignment or a timestamp, *)
(* some unit of the scan gives away.                                       *)
LEMMA FormsTell ==
  ASSUME NEW text \in Seq(STRING), NEW us, Scan(text, us),
         NEW span \in InlineArtifactSpans(text), HintedForms(Bytes(text, span))
  PROVE  \E k \in DOMAIN us : Tells(text, us, k)
<1> DEFINE token == Bytes(text, span)
<1>1. PICK left \in 1 .. Len(text), b \in 1 .. Len(text) :
        /\ b <= left /\ span.start = left - 1 /\ span.end \in left .. Len(text)
        /\ \A x \in b .. left - 1 : text[x] \in Opening
        /\ b = 1 \/ text[b - 1] \in Separator
  BY TokenPlace
<1> DEFINE a == left - 1
           m == span.end - a
<1>2. /\ token \in Seq(STRING) /\ Len(token) = m /\ m \in Nat /\ a + m <= Len(text)
      /\ \A i \in 1 .. m : token[i] = text[a + i]
  <2> DEFINE z == span.end
  <2>1. a \in Nat /\ z \in a .. Len(text) /\ z - a \in Nat /\ a + (z - a) <= Len(text)
    BY <1>1
  <2>2. token = Part(text, a, z)
    BY <1>1 DEF Bytes, Part
  <2> HIDE DEF a, z, token
  <2>3. /\ Part(text, a, z) \in Seq(STRING) /\ Len(Part(text, a, z)) = z - a
        /\ \A i \in 1 .. z - a : Part(text, a, z)[i] = text[a + i]
    BY <2>1, PartIs
  <2>4. QED
    BY <2>1, <2>2, <2>3 DEF z
<1> HIDE DEF token, m
<1>3. \A i \in 1 .. m : a + i \in 1 .. Len(text)
  BY <1>1, <1>2
<1>4. ASSUME NEW i \in 1 .. m, token[i] \in Signs PROVE \E k \in DOMAIN us : Tells(text, us, k)
  <2>1. a + i \in 1 .. Len(text) /\ text[a + i] \in Signs
    BY <1>2, <1>3, <1>4
  <2>2. QED
    BY <2>1, SignTells
<1>5. DOMAIN token = 1 .. m
  BY <1>2
<1>6. CASE LooksLikeEmail(token)
  <2>1. \E i \in DOMAIN token : token[i] = "@"
    BY <1>6 DEF LooksLikeEmail
  <2>2. QED
    BY <1>4, <1>5, <2>1 DEF Signs
<1>7. CASE LooksLikeInlineAssignment(token)
  <2>1. \E i \in DOMAIN token : token[i] = "="
    BY <1>7 DEF LooksLikeInlineAssignment
  <2>2. QED
    BY <1>4, <1>5, <2>1 DEF Signs
<1>8. CASE LooksLikeIsoTimestamp(token)
  <2>1. /\ m >= 19 /\ token[5] = "-" /\ token[8] = "-" /\ token[11] \in {"T", "t"}
        /\ \A i \in (1 .. 13) \ {5, 8, 11} : token[i] \in Digit
    <3>1. \A i \in (1 .. 13) \ {5, 8, 11} : i \in 1 .. 19 \ {5, 8, 11, 14, 17}
      OBVIOUS
    <3>2. QED
      BY <1>2, <1>8, <3>1 DEF LooksLikeIsoTimestamp
  <2>2. left + 12 <= Len(text) /\ left + 4 = a + 5 /\ left + 7 = a + 8 /\ left + 10 = a + 11
    BY <1>1, <1>2, <2>1
  <2>3. \A i \in 1 .. 13 : i \in 1 .. m
    BY <1>2, <2>1
  <2>4. \A i \in (1 .. 13) \ {5, 8, 11} : text[left - 1 + i] \in Digit
    BY <1>2, <2>1, <2>3
  <2>5. text[a + 5] = "-" /\ text[a + 8] = "-" /\ text[a + 11] \in {"T", "t"}
    BY <1>2, <2>1, <2>3
  <2>6. text[left + 4] = "-" /\ text[left + 7] = "-" /\ text[left + 10] \in {"T", "t"}
    BY <2>2, <2>5
  <2>7. QED
    BY <1>1, <2>2, <2>4, <2>6, TimestampTells
<1>9. CASE LooksLikeUrl(token) /\ ~StartsWith(token, "ftp://")
  <2>1. m > 8 /\ \/ IsPrefix(Chars("http://"), token) \/ IsPrefix(Chars("https://"), token)
                 \/ IsPrefix(Chars("www."), token)
    BY <1>2, <1>9 DEF LooksLikeUrl, StartsWithAny, StartsWith
  <2>2. ASSUME NEW word \in {Chars("http"), Chars("https"), Chars("www")},
               Len(word) \in 1 .. 7, \A i \in 1 .. Len(word) : token[i] = word[i],
               token[Len(word) + 1] \in {":", "."}
        PROVE  \E k \in DOMAIN us : Tells(text, us, k)
    <3> DEFINE w == Len(word)
    <3>0. w \in 1 .. 7
      BY <2>2
    <3> HIDE DEF w
    <3>1. w \in Nat /\ w + 1 \in 1 .. m /\ \A i \in 1 .. w : i \in 1 .. m
      BY <1>2, <2>1, <3>0
    <3>2. \A i \in 1 .. w : text[left - 1 + i] = word[i]
      BY <1>2, <2>2, <3>1 DEF w
    <3>3. text[a + (w + 1)] \in {":", "."}
      BY <1>2, <2>2, <3>1 DEF w
    <3>4. a + (w + 1) = left + w /\ left + w <= Len(text)
      BY <1>1, <1>2, <2>1, <3>0
    <3>5. text[left + w] \in {":", "."}
      BY <3>3, <3>4
    <3>6. QED
      BY <1>1, <2>2, <3>2, <3>4, <3>5, AddressTells DEF w
  <2>3. CASE IsPrefix(Chars("http://"), token)
    <3> DEFINE p == <<"h", "t", "t", "p", ":", "/", "/">>
               word == <<"h", "t", "t", "p">>
    <3>1. p = Chars("http://") /\ word = Chars("http")
      BY LiteralCharacters
    <3>2. p \in Seq({"h", "t", "p", ":", "/"}) /\ Len(p) = 7
      OBVIOUS
    <3>3. \A i \in 1 .. 7 : token[i] = p[i]
      <4>1. IsPrefix(p, token)
        BY <2>3, <3>1
      <4> HIDE DEF p
      <4>2. \A i \in 1 .. Len(p) : token[i] = p[i]
        BY <1>2, <3>2, <4>1, PrefixHas
      <4>3. QED
        BY <3>2, <4>2
    <3>4. /\ Len(word) = 4 /\ \A i \in 1 .. 4 : token[i] = word[i]
          /\ token[5] = ":"
      BY <3>3
    <3> HIDE DEF word, p
    <3>5. /\ Len(word) \in 1 .. 7 /\ \A i \in 1 .. Len(word) : token[i] = word[i]
          /\ token[Len(word) + 1] \in {":", "."}
      BY <3>4
    <3>6. word \in {Chars("http"), Chars("https"), Chars("www")}
      BY <3>1
    <3>7. QED
      BY <2>2, <3>5, <3>6
  <2>4. CASE IsPrefix(Chars("https://"), token)
    <3> DEFINE p == <<"h", "t", "t", "p", "s", ":", "/", "/">>
               word == <<"h", "t", "t", "p", "s">>
    <3>1. p = Chars("https://") /\ word = Chars("https")
      BY LiteralCharacters
    <3>2. p \in Seq({"h", "t", "p", "s", ":", "/"}) /\ Len(p) = 8
      OBVIOUS
    <3>3. \A i \in 1 .. 8 : token[i] = p[i]
      <4>1. IsPrefix(p, token)
        BY <2>4, <3>1
      <4> HIDE DEF p
      <4>2. \A i \in 1 .. Len(p) : token[i] = p[i]
        BY <1>2, <3>2, <4>1, PrefixHas
      <4>3. QED
        BY <3>2, <4>2
    <3>4. /\ Len(word) = 5 /\ \A i \in 1 .. 5 : token[i] = word[i]
          /\ token[6] = ":"
      BY <3>3
    <3> HIDE DEF word, p
    <3>5. /\ Len(word) \in 1 .. 7 /\ \A i \in 1 .. Len(word) : token[i] = word[i]
          /\ token[Len(word) + 1] \in {":", "."}
      BY <3>4
    <3>6. word \in {Chars("http"), Chars("https"), Chars("www")}
      BY <3>1
    <3>7. QED
      BY <2>2, <3>5, <3>6
  <2>5. CASE IsPrefix(Chars("www."), token)
    <3> DEFINE p == <<"w", "w", "w", ".">>
               word == <<"w", "w", "w">>
    <3>1. p = Chars("www.") /\ word = Chars("www")
      BY LiteralCharacters
    <3>2. p \in Seq({"w", "."}) /\ Len(p) = 4
      OBVIOUS
    <3>3. \A i \in 1 .. 4 : token[i] = p[i]
      <4>1. IsPrefix(p, token)
        BY <2>5, <3>1
      <4> HIDE DEF p
      <4>2. \A i \in 1 .. Len(p) : token[i] = p[i]
        BY <1>2, <3>2, <4>1, PrefixHas
      <4>3. QED
        BY <3>2, <4>2
    <3>4. /\ Len(word) = 3 /\ \A i \in 1 .. 3 : token[i] = word[i]
          /\ token[4] = "."
      BY <3>3
    <3> HIDE DEF word, p
    <3>5. /\ Len(word) \in 1 .. 7 /\ \A i \in 1 .. Len(word) : token[i] = word[i]
          /\ token[Len(word) + 1] \in {":", "."}
      BY <3>4
    <3>6. word \in {Chars("http"), Chars("https"), Chars("www")}
      BY <3>1
    <3>7. QED
      BY <2>2, <3>5, <3>6
  <2>6. QED
    BY <2>1, <2>3, <2>4, <2>5
<1>10. QED
  BY <1>6, <1>7, <1>8, <1>9 DEF HintedForms, token

-----------------------------------------------------------------------------
(* The hints of a scan, and whether they make the detection look for       *)
(* artifacts.                                                              *)
HintType == [unmarked : BOOLEAN, artifact : BOOLEAN, backtick : BOOLEAN]
Told(seen) == seen.artifact \/ seen.unmarked

(* What the tracker was told it never forgets, and it is told of every     *)
(* artifact and of every number, but that it stops looking at the line     *)
(* when it takes it for code.                                              *)
LEMMA ObserveTells ==
  ASSUME NEW seen, seen.hints \in HintType, NEW kind, NEW bytes
  PROVE  LET after == Observe(seen, kind, bytes)
         IN  /\ after.hints \in HintType
             /\ Told(seen.hints) => Told(after.hints)
             /\ kind \notin {"LineBreak", "Whitespace"} /\ Artifact(seen.line, kind, bytes) =>
                  Told(after.hints)
             /\ kind = "Number" => after.line.number \/ after.hints.unmarked
<1> DEFINE after == Observe(seen, kind, bytes)
           artifact == Artifact(seen.line, kind, bytes)
           unmarked == Unmarked(seen.line, kind, bytes)
           quoted == kind = "Punctuation" /\ "backtick" \in ToSet(bytes)
           noted == [seen.hints EXCEPT !.backtick = @ \/ quoted, !.artifact = @ \/ artifact]
           section == seen.line.section = 2
           next == LineAfter(seen.line, kind, bytes)
           all == [noted EXCEPT !.unmarked = TRUE]
           broken == [seen.hints EXCEPT !.unmarked = @ \/ section]
<1>1. artifact \in BOOLEAN /\ quoted \in BOOLEAN /\ section \in BOOLEAN
  BY DEF Artifact
<1>2. next.number = (kind = "Number")
  BY DEF LineAfter
<1>3. \/ kind = "LineBreak" /\ after.hints = broken
      \/ kind = "Whitespace" /\ after.hints = seen.hints
      \/ seen.hints.unmarked /\ after.hints = noted
      \/ after.hints = all
      \/ after.hints = noted /\ after.line = next
  BY DEF Observe
<1> HIDE DEF after, artifact, quoted, section, next
<1>4. /\ noted \in HintType /\ (artifact => noted.artifact)
      /\ noted.unmarked = seen.hints.unmarked /\ (seen.hints.artifact => noted.artifact)
  BY <1>1 DEF HintType
<1>5. all \in HintType /\ all.unmarked
  BY <1>1 DEF HintType
<1>6. broken \in HintType /\ (Told(seen.hints) => Told(broken))
  BY <1>1 DEF HintType, Told
<1> HIDE DEF noted, all, broken
<1>7. QED
  BY <1>2, <1>3, <1>4, <1>5, <1>6 DEF Told, after, artifact

(* What every step of the scan keeps: the units cover the text from its    *)
(* front, the tracker was told of those that give something away, and      *)
(* remembers of the last one whether it was a number.                      *)
HintInv ==
  /\ tracker.hints \in HintType
  /\ \A k \in DOMAIN units : units[k].start = IF k = 1 THEN 0 ELSE units[k - 1].end
  /\ \A i \in 1 .. Scanned : \E k \in DOMAIN units : i \in units[k].start + 1 .. units[k].end
  /\ \A k \in DOMAIN units : Tells(raw, units, k) => Told(tracker.hints)
  /\ units # <<>> /\ Last(units).kind = "Number" => tracker.line.number \/ tracker.hints.unmarked
  /\ stage # "scanning" => Scanned = Len(raw) /\ (Told(tracker.hints) => Told(hints))

(* What the scan has covered so far, and the unit that comes next.         *)
LEMMA ScanGoesOn ==
  ASSUME ScanInv, HintInv
  PROVE  /\ Scanned \in Nat /\ Len(units) \in Nat /\ DOMAIN units = 1 .. Len(units)
         /\ Scanned = IF Len(units) = 0 THEN 0 ELSE units[Len(units)].end
         /\ \A k \in DOMAIN units : /\ units[k].start \in 0 .. Len(raw) - 1
                                    /\ units[k] = NextUnit(raw, units[k].start)
<1>1. raw \in Seq(STRING) /\ units \in Seq(ScannedUnits(raw))
  BY DEF ScanInv
<1> DEFINE U == ScannedUnits(raw)
<1> HIDE DEF U
<1>2. units \in Seq(U)
  BY <1>1 DEF U
<1>3. /\ Len(units) \in Nat /\ DOMAIN units = 1 .. Len(units)
      /\ (units = <<>>) = (Len(units) = 0) /\ \A k \in DOMAIN units : units[k] \in ToSet(units)
  BY <1>2 DEF ToSet
<1>4. \A k \in DOMAIN units : /\ units[k].start \in 0 .. Len(raw) - 1
                              /\ units[k] = NextUnit(raw, units[k].start)
  BY <1>3, UnitsScanned
<1>5. Scanned = IF Len(units) = 0 THEN 0 ELSE units[Len(units)].end
  BY <1>3 DEF Scanned, Last
<1>6. Scanned \in Nat
  <2>1. CASE Len(units) = 0
    BY <1>5, <2>1
  <2>2. CASE Len(units) # 0
    <3> DEFINE k == Len(units)
    <3>1. k \in DOMAIN units
      BY <1>3, <2>2
    <3> HIDE DEF k
    <3>2. NextUnit(raw, units[k].start).end \in units[k].start + 1 .. Len(raw)
      BY <1>1, <1>4, <3>1, UnitAlone
    <3>3. units[k].end \in Nat
      BY <1>1, <1>4, <3>1, <3>2
    <3>4. QED
      BY <1>5, <2>2, <3>3 DEF k
  <2>3. QED
    BY <2>1, <2>2
<1>7. QED
  BY <1>3, <1>4, <1>5, <1>6

(* HintInv holds at first, and every step keeps it.                        *)
LEMMA SpecHintInv == Spec => []HintInv
<1>1. Init => HintInv
  <2> SUFFICES ASSUME Init PROVE HintInv
    OBVIOUS
  <2>1. units = <<>> /\ stage = "scanning" /\ tracker.hints = NoHints
    BY DEF Init
  <2>2. Scanned = 0 /\ DOMAIN units = {} /\ 1 .. 0 = {}
    BY <2>1 DEF Scanned
  <2>3. NoHints \in HintType
    BY DEF NoHints, HintType
  <2>4. QED
    BY <2>1, <2>2, <2>3 DEF HintInv
<1>2. ScanInv /\ HintInv /\ [Next]_vars => HintInv'
  <2> SUFFICES ASSUME ScanInv, HintInv, [Next]_vars PROVE HintInv'
    OBVIOUS
  <2>1. CASE ScanUnit
    <3> DEFINE unit == NextUnit(raw, Scanned)
               bytes == Bytes(raw, unit)
               n == Len(units)
               after == Observe(tracker, unit.kind, bytes)
    <3>1. /\ raw' = raw /\ stage = "scanning" /\ stage' = stage /\ hints' = hints
          /\ units' = Append(units, unit) /\ tracker' = after /\ Scanned < Len(raw)
      BY <2>1 DEF ScanUnit
    <3>2. /\ raw \in Seq(STRING) /\ units \in Seq(ScannedUnits(raw)) /\ n \in Nat /\ DOMAIN units = 1 .. n
          /\ Scanned \in 0 .. Len(raw) - 1 /\ Scanned = IF n = 0 THEN 0 ELSE units[n].end
      BY <3>1, ScanGoesOn DEF ScanInv
    <3>3. unit.start = Scanned /\ unit.end \in Scanned + 1 .. Len(raw)
      BY <3>2, UnitAlone
    <3>4. /\ DOMAIN units' = 1 .. n + 1 /\ units' # <<>> /\ Len(units') = n + 1
          /\ units'[n + 1] = unit /\ \A k \in 1 .. n : units'[k] = units[k]
      <4> DEFINE U == ScannedUnits(raw)
      <4> HIDE DEF unit, U
      <4>1. units \in Seq(U) /\ units' = Append(units, unit)
        BY <3>1, <3>2 DEF U
      <4>2. QED
        BY <4>1
    <3>5. Last(units') = unit /\ Scanned' = unit.end
      BY <3>4 DEF Last, Scanned
    <3>6. /\ after.hints \in HintType
          /\ Told(tracker.hints) => Told(after.hints)
          /\ unit.kind \notin {"LineBreak", "Whitespace"} /\ Artifact(tracker.line, unit.kind, bytes) =>
               Told(after.hints)
          /\ unit.kind = "Number" => after.line.number \/ after.hints.unmarked
      BY ObserveTells DEF HintInv
    <3> HIDE DEF unit, after, n
    <3>7. \A k \in DOMAIN units' : units'[k].start = IF k = 1 THEN 0 ELSE units'[k - 1].end
      <4> SUFFICES ASSUME NEW k \in 1 .. n + 1
                   PROVE  units'[k].start = IF k = 1 THEN 0 ELSE units'[k - 1].end
        BY <3>4
      <4>1. CASE k = n + 1
        <5>1. units'[k].start = IF n = 0 THEN 0 ELSE units[n].end
          BY <3>2, <3>3, <3>4, <4>1
        <5>2. n # 0 => units'[k - 1] = units[n] /\ k - 1 = n
          BY <3>2, <3>4, <4>1
        <5>3. QED
          BY <3>2, <4>1, <5>1, <5>2
      <4>2. CASE k # n + 1
        <5>1. k \in 1 .. n
          BY <3>2, <4>2
        <5>2. k # 1 => k - 1 \in 1 .. n
          BY <3>2, <5>1
        <5>3. units[k].start = IF k = 1 THEN 0 ELSE units[k - 1].end
          BY <3>2, <5>1 DEF HintInv
        <5>4. QED
          BY <3>4, <5>1, <5>2, <5>3
      <4>3. QED
        BY <4>1, <4>2
    <3>8. \A i \in 1 .. Scanned' : \E k \in DOMAIN units' : i \in units'[k].start + 1 .. units'[k].end
      <4> SUFFICES ASSUME NEW i \in 1 .. unit.end
                   PROVE  \E k \in 1 .. n + 1 : i \in units'[k].start + 1 .. units'[k].end
        BY <3>4, <3>5
      <4>1. CASE i <= Scanned
        <5>1. i \in 1 .. Scanned
          BY <3>2, <4>1
        <5>2. PICK k \in 1 .. n : i \in units[k].start + 1 .. units[k].end
          BY <3>2, <5>1 DEF HintInv
        <5>3. k \in 1 .. n + 1
          BY <3>2
        <5>4. QED
          BY <3>4, <5>2, <5>3
      <4>2. CASE ~ (i <= Scanned)
        <5>1. n + 1 \in 1 .. n + 1
          BY <3>2
        <5>2. i \in unit.start + 1 .. unit.end
          BY <3>2, <3>3, <4>2
        <5>3. QED
          BY <3>4, <5>1, <5>2
      <4>3. QED
        BY <4>1, <4>2
    <3>9. \A k \in DOMAIN units' : Tells(raw, units', k) => Told(after.hints)
      <4> SUFFICES ASSUME NEW k \in 1 .. n + 1, Tells(raw, units', k) PROVE Told(after.hints)
        BY <3>4
      <4>1. CASE k \in 1 .. n
        <5>1. units'[k] = units[k] /\ (k > 1 => units'[k - 1] = units[k - 1])
          <6>1. k > 1 => k - 1 \in 1 .. n
            BY <3>2, <4>1
          <6>2. QED
            BY <3>4, <4>1, <6>1
        <5>2. Tells(raw, units, k)
          BY <5>1 DEF Tells
        <5>3. Told(tracker.hints)
          BY <3>2, <4>1, <5>2 DEF HintInv
        <5>4. QED
          BY <3>6, <5>3
      <4>2. CASE k = n + 1
        <5>1. /\ units'[k] = unit
              /\ k > 1 => units'[k - 1] = Last(units) /\ units # <<>>
          <6>1. k > 1 => n \in 1 .. n /\ k - 1 = n
            BY <3>2, <4>2
          <6>2. QED
            BY <3>2, <3>4, <4>2, <6>1 DEF Last, n
        <5>2. CASE unit.kind \in Operatorlike /\ Signs \cap ToSet(bytes) # {}
          <6>1. Artifact(tracker.line, unit.kind, bytes)
            BY <5>2 DEF Artifact, Signs
          <6>2. unit.kind \notin {"LineBreak", "Whitespace"}
            BY <5>2 DEF Operatorlike
          <6>3. QED
            BY <3>6, <6>1, <6>2
        <5>3. CASE unit.kind = "Word" /\ bytes \in {Chars("http"), Chars("https"), Chars("www")}
          <6>1. Artifact(tracker.line, unit.kind, bytes)
            BY <5>3 DEF Artifact
          <6>2. QED
            BY <3>6, <5>3, <6>1
        <5>4. CASE /\ k > 1 /\ units'[k - 1].kind = "Number"
                   /\ unit.kind = "Word" /\ IsoTimeTail(bytes)
          <6>1. tracker.line.number \/ tracker.hints.unmarked
            BY <5>1, <5>4 DEF HintInv
          <6>2. CASE tracker.line.number
            <7>1. Artifact(tracker.line, unit.kind, bytes)
              BY <5>4, <6>2 DEF Artifact
            <7>2. QED
              BY <3>6, <5>4, <7>1
          <6>3. CASE tracker.hints.unmarked
            BY <3>6, <6>3 DEF Told
          <6>4. QED
            BY <6>1, <6>2, <6>3
        <5>5. QED
          BY <5>1, <5>2, <5>3, <5>4 DEF Tells
      <4>3. QED
        BY <3>2, <4>1, <4>2
    <3>10. QED
      BY <3>1, <3>5, <3>6, <3>7, <3>8, <3>9 DEF HintInv
  <2>2. CASE FinishScan
    <3>1. /\ raw' = raw /\ units' = units /\ tracker' = tracker /\ Scanned = Len(raw)
          /\ hints' = FinishHints(tracker)
      BY <2>2 DEF FinishScan
    <3>2. Scanned' = Scanned
      BY <3>1 DEF Scanned
    <3>3. Told(tracker.hints) => Told(hints')
      <4>1. tracker.hints \in HintType
        BY DEF HintInv
      <4>2. QED
        BY <3>1, <4>1 DEF FinishHints, Told, HintType
    <3>4. QED
      BY <3>1, <3>2, <3>3 DEF HintInv
  <2>3. CASE Detect \/ UNCHANGED vars
    <3>1. /\ raw' = raw /\ units' = units /\ tracker' = tracker /\ hints' = hints
          /\ stage' # "scanning" => stage # "scanning"
      BY <2>3 DEF Detect, vars
    <3>2. Scanned' = Scanned
      BY <3>1 DEF Scanned
    <3>3. QED
      BY <3>1, <3>2 DEF HintInv
  <2>4. QED
    BY <2>1, <2>2, <2>3 DEF Next
<1>3. QED
  BY <1>1, <1>2, SpecScanInv, PTL DEF Spec

(* No artifact is missed: the byte scan is only made when the scan of the  *)
(* units hinted at one, and it hints at every address, assignment and      *)
(* timestamp that the byte scan would accept, whatever the units they are  *)
(* cut into (ArtifactsAreHinted).                                          *)
THEOREM ArtifactsAlwaysHinted == Spec => []ArtifactsAreHinted
<1>1. ScanInv /\ HintInv => ArtifactsAreHinted
  <2> SUFFICES ASSUME ScanInv, HintInv, stage = "scanned",
                      NEW span \in InlineArtifactSpans(raw), HintedForms(Bytes(raw, span))
               PROVE  Hinted
    BY DEF ArtifactsAreHinted
  <2>1. raw \in Seq(STRING) /\ Scanned = Len(raw) /\ (Told(tracker.hints) => Told(hints))
    BY DEF ScanInv, HintInv
  <2>2. Scan(raw, units)
    <3>1. /\ Len(units) \in Nat /\ DOMAIN units = 1 .. Len(units)
          /\ Len(raw) = IF Len(units) = 0 THEN 0 ELSE units[Len(units)].end
          /\ \A k \in DOMAIN units : /\ units[k].start \in 0 .. Len(raw) - 1
                                     /\ units[k] = NextUnit(raw, units[k].start)
      BY <2>1, ScanGoesOn
    <3>2. units = <<>> => Len(units) = 0
      OBVIOUS
    <3>3. units # <<>> => Len(units) # 0
      BY ScanGoesOn DEF ScanInv
    <3>4. Covers(raw, units)
      BY <3>1, <3>2, <3>3 DEF Covers, HintInv
    <3>5. \A i \in 1 .. Len(raw) : \E k \in DOMAIN units : i \in units[k].start + 1 .. units[k].end
      BY <2>1 DEF HintInv
    <3>6. QED
      BY <3>1, <3>4, <3>5 DEF Scan
  <2>3. PICK k \in DOMAIN units : Tells(raw, units, k)
    BY <2>1, <2>2, FormsTell
  <2>4. Told(hints)
    BY <2>1, <2>3 DEF HintInv
  <2>5. QED
    BY <2>4 DEF Told, Hinted
<1>2. QED
  BY <1>1, SpecScanInv, SpecHintInv, PTL
=============================================================================
