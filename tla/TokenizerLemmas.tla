-------------------------- MODULE TokenizerLemmas --------------------------
(***************************************************************************)
(* Facts about naturals, sequences, folds and sums that the proofs about   *)
(* the tokenizer modules cite. A fold, a sum and a flattened sequence are  *)
(* defined by CHOOSE of a recursive function, so each has to be shown to   *)
(* exist, by induction, before anything is known of its value.             *)
(***************************************************************************)
EXTENDS Naturals, Sequences, SequencesExt, FiniteSetsExt,
        FiniteSetTheorems, SequenceTheorems, WellFoundedInduction, TLAPS

(* A non-empty set of naturals has its least element as Min.               *)
LEMMA MinOfNaturals ==
  ASSUME NEW T \in SUBSET Nat, T # {}
  PROVE  Min(T) \in T /\ \A y \in T : Min(T) <= y
<1> DEFINE Less == {ss \in Nat \X Nat : ss[1] < ss[2]}
<1>1. IsWellFoundedOn(Less, Nat)
  BY NatLessThanWellFounded DEF OpToRel
<1>2. PICK x \in T : \A y \in T : ~ (<<y, x>> \in Less)
  <2> HIDE DEF Less
  <2> QED BY <1>1, WFMin
<1>3. ASSUME NEW y \in T PROVE x <= y
  <2>1. x \in Nat /\ y \in Nat /\ <<y, x>> \notin Less
    BY <1>2
  <2>2. ~ (y < x)
    BY <2>1
  <2> HIDE DEF Less
  <2>3. QED
    BY <2>1, <2>2
<1>4. QED
  BY <1>2, <1>3 DEF Min

(* Appending to a sequence adds one element to what it holds, and keeps it *)
(* free of repetitions when the element is new.                            *)
LEMMA AppendHolds ==
  ASSUME NEW s \in Seq(Nat), NEW x \in Nat
  PROVE  /\ Append(s, x) \in Seq(Nat)
         /\ ToSet(Append(s, x)) = ToSet(s) \union {x}
         /\ IsInjective(s) /\ x \notin ToSet(s) => IsInjective(Append(s, x))
<1>1. Append(s, x) \in Seq(Nat) /\ DOMAIN Append(s, x) = 1 .. (Len(s) + 1)
  OBVIOUS
<1>2. \A i \in 1 .. (Len(s) + 1) :
        Append(s, x)[i] = IF i <= Len(s) THEN s[i] ELSE x
  OBVIOUS
<1>3. DOMAIN s = 1 .. Len(s) /\ Len(s) \in Nat
  OBVIOUS
<1>4. ToSet(Append(s, x)) = ToSet(s) \union {x}
  <2>1. ToSet(Append(s, x)) \subseteq ToSet(s) \union {x}
    BY <1>1, <1>2, <1>3 DEF ToSet
  <2>2. ToSet(s) \subseteq ToSet(Append(s, x))
    BY <1>1, <1>2, <1>3 DEF ToSet
  <2>3. x \in ToSet(Append(s, x))
    <3>1. Append(s, x)[Len(s) + 1] = x /\ Len(s) + 1 \in DOMAIN Append(s, x)
      BY <1>1, <1>2, <1>3
    <3>2. QED
      BY <3>1 DEF ToSet
  <2>4. QED
    BY <2>1, <2>2, <2>3
<1>5. ASSUME IsInjective(s), x \notin ToSet(s)
      PROVE  IsInjective(Append(s, x))
  BY <1>1, <1>2, <1>3, <1>5 DEF IsInjective, ToSet
<1>6. QED
  BY <1>1, <1>4, <1>5

(* The greater of two numbers.                                             *)
LEMMA MaxOfTwo ==
  ASSUME NEW a \in Nat, NEW b \in Nat
  PROVE  Max({a, b}) \in {a, b} /\ Max({a, b}) >= a /\ Max({a, b}) >= b
<1>1. \E x \in {a, b} : \A y \in {a, b} : x >= y
  <2>1. a >= b \/ b >= a
    OBVIOUS
  <2>2. QED
    BY <2>1
<1>2. QED
  BY <1>1 DEF Max

(* The smaller of two numbers.                                             *)
LEMMA MinOfTwo ==
  ASSUME NEW a \in Nat, NEW b \in Nat
  PROVE  Min({a, b}) \in {a, b} /\ Min({a, b}) <= a /\ Min({a, b}) <= b
BY MinOfNaturals

(* A product grows with its first factor.                                  *)
LEMMA ProductMonotone ==
  ASSUME NEW a \in Nat, NEW b \in Nat, NEW c \in Nat, a <= b
  PROVE  a * c <= b * c /\ a * c \in Nat /\ b * c \in Nat
OBVIOUS

(* Induction over the naturals, stated of a set so that it can be cited.   *)
LEMMA NatSetInduction ==
  ASSUME NEW S, 0 \in S, \A n \in Nat : n \in S => n + 1 \in S
  PROVE  Nat \subseteq S
<1> SUFFICES ASSUME Nat \ S # {} PROVE FALSE
  OBVIOUS
<1> DEFINE least == Min(Nat \ S)
<1>1. least \in Nat \ S /\ \A y \in Nat \ S : least <= y
  BY MinOfNaturals
<1> HIDE DEF least
<1>2. least - 1 \in Nat /\ least - 1 \in S
  BY <1>1
<1>3. QED
  BY <1>1, <1>2

(* The top of an interval, and the interval without it.                    *)
LEMMA MaxOfInterval ==
  ASSUME NEW n \in Nat
  PROVE  Max(1 .. n + 1) = n + 1 /\ (1 .. n + 1) \ {n + 1} = 1 .. n
<1>1. n + 1 \in 1 .. n + 1 /\ \A y \in 1 .. n + 1 : n + 1 >= y
  OBVIOUS
<1>2. \A x \in 1 .. n + 1 : (\A y \in 1 .. n + 1 : x >= y) => x = n + 1
  OBVIOUS
<1>3. QED
  BY <1>1, <1>2 DEF Max

(* A non-empty set of numbers up to n has its greatest element as Max.     *)
LEMMA MaxOfNaturals ==
  ASSUME NEW n \in Nat, NEW s \in SUBSET (1 .. n), s # {}
  PROVE  Max(s) \in s /\ \A y \in s : Max(s) >= y
<1> DEFINE Above == {b \in Nat : \A y \in s : b >= y}
<1>1. Min(Above) \in Above /\ \A b \in Above : Min(Above) <= b
  <2>1. n \in Above
    OBVIOUS
  <2>2. Above \in SUBSET Nat /\ Above # {}
    BY <2>1
  <2> HIDE DEF Above
  <2>3. QED
    BY <2>2, MinOfNaturals
<1> DEFINE top == Min(Above)
<1>2. top \in Nat /\ \A y \in s : top >= y
  BY <1>1
<1>3. top \in s
  <2> SUFFICES ASSUME top \notin s PROVE FALSE
    OBVIOUS
  <2> HIDE DEF top
  <2>1. \A y \in s : top - 1 >= y /\ y \in Nat /\ y >= 1
    BY <1>2
  <2>2. top - 1 \in Nat
    <3>1. PICK y \in s : TRUE
      OBVIOUS
    <3>2. QED
      BY <1>2, <2>1, <3>1
  <2>3. top - 1 \in Above
    BY <2>1, <2>2
  <2>4. ~ (top <= top - 1)
    BY <1>2
  <2>5. QED
    BY <1>1, <2>3, <2>4 DEF top
<1> HIDE DEF top
<1>4. \E x \in s : \A y \in s : x >= y
  BY <1>2, <1>3
<1>5. QED
  BY <1>4 DEF Max

(* A set of numbers up to n that holds n has n as its greatest element.    *)
LEMMA MaxIsTop ==
  ASSUME NEW n \in Nat, NEW s \in SUBSET (1 .. n), n \in s
  PROVE  Max(s) = n
<1>1. Max(s) \in s /\ Max(s) >= n
  BY MaxOfNaturals
<1>2. Max(s) \in 1 .. n
  BY <1>1
<1>3. QED
  BY <1>1, <1>2

(* What FoldLeft is chosen by, for a step given as a function: the value   *)
(* of a set of positions is the step from the value without its last       *)
(* position.                                                               *)
IsFold(it, n, T, base, Step) ==
  /\ it \in [SUBSET (1 .. n) -> T]
  /\ \A s \in SUBSET (1 .. n) :
       it[s] = IF s = {} THEN base ELSE Step[<<it[s \ {Max(s)}], Max(s)>>]

(* The accumulators of a fold, position by position.                       *)
IsRecursion(f, n, T, base, Step) ==
  /\ f \in [0 .. n -> T]
  /\ f[0] = base
  /\ \A k \in 1 .. n : f[k] = Step[<<f[k - 1], k>>]

(* A fold from the left exists: for any step on well-typed accumulators    *)
(* there is a function that satisfies the equation FoldLeft is chosen by.  *)
LEMMA FoldExists ==
  ASSUME NEW n \in Nat, NEW T, NEW base \in T, NEW Step \in [T \X (1 .. n) -> T]
  PROVE  \E it : IsFold(it, n, T, base, Step)
<1> DEFINE Folds(m, it) ==
             \A s \in SUBSET (1 .. m) :
               it[s] = IF s = {} THEN base ELSE Step[<<it[s \ {Max(s)}], Max(s)>>]
           Folded(m) == \E it \in [SUBSET (1 .. m) -> T] : Folds(m, it)
           S == {m \in Nat : m <= n => Folded(m)}
<1>1. 0 \in S
  <2> DEFINE it == [s \in SUBSET (1 .. 0) |-> base]
  <2>1. it \in [SUBSET (1 .. 0) -> T] /\ Folds(0, it)
    OBVIOUS
  <2>2. Folded(0)
    BY <2>1
  <2> HIDE DEF Folded
  <2>3. QED
    BY <2>2
<1>2. ASSUME NEW m \in Nat, m + 1 <= n, Folded(m) PROVE Folded(m + 1)
  <2>1. PICK it \in [SUBSET (1 .. m) -> T] : Folds(m, it)
    BY <1>2
  <2> DEFINE more == [s \in SUBSET (1 .. m + 1) |->
                        IF m + 1 \in s THEN Step[<<it[s \ {m + 1}], m + 1>>] ELSE it[s]]
  <2>2. \A s \in SUBSET (1 .. m + 1) : s \ {m + 1} \in SUBSET (1 .. m)
    <3>1. \A x \in 1 .. m + 1 : x # m + 1 => x \in 1 .. m
      OBVIOUS
    <3>2. QED
      BY <3>1
  <2>3. \A s \in SUBSET (1 .. m + 1) : m + 1 \notin s => s \in SUBSET (1 .. m)
    OBVIOUS
  <2>4. more \in [SUBSET (1 .. m + 1) -> T]
    <3>1. ASSUME NEW s \in SUBSET (1 .. m + 1)
          PROVE  Step[<<it[s \ {m + 1}], m + 1>>] \in T
      <4>1. it[s \ {m + 1}] \in T /\ m + 1 \in 1 .. n
        BY <1>2, <2>2
      <4>2. QED
        BY <4>1
    <3>2. QED
      BY <2>3, <3>1
  <2>5. \A s \in SUBSET (1 .. m) : more[s] = it[s] /\ s \in SUBSET (1 .. m + 1)
    OBVIOUS
  <2>6. ASSUME NEW s \in SUBSET (1 .. m + 1)
        PROVE  more[s] = IF s = {} THEN base ELSE Step[<<more[s \ {Max(s)}], Max(s)>>]
    <3>1. CASE m + 1 \in s
      <4>1. Max(s) = m + 1
        <5>1. m + 1 \in Nat
          OBVIOUS
        <5>2. QED
          BY <3>1, <5>1, MaxIsTop
      <4>2. more[s \ {m + 1}] = it[s \ {m + 1}]
        BY <2>2, <2>5
      <4>3. QED
        BY <3>1, <4>1, <4>2
    <3>2. CASE m + 1 \notin s
      <4>1. s \in SUBSET (1 .. m)
        BY <3>2, <2>3
      <4>2. s \ {Max(s)} \in SUBSET (1 .. m)
        BY <4>1
      <4> HIDE DEF more
      <4>3. QED
        BY <2>1, <2>5, <4>1, <4>2
    <3>3. QED
      BY <3>1, <3>2
  <2> HIDE DEF more
  <2>7. QED
    BY <2>4, <2>6
<1> HIDE DEF Folded
<1>3. \A m \in Nat : m \in S => m + 1 \in S
  BY <1>2
<1>4. n \in S
  <2> HIDE DEF S
  <2> QED BY <1>1, <1>3, NatSetInduction
<1>5. Folded(n)
  BY <1>4
<1>6. QED
  BY <1>5 DEF Folded, IsFold

(* The accumulators of a fold from the left exist.                         *)
LEMMA RecursionExists ==
  ASSUME NEW n \in Nat, NEW T, NEW base \in T, NEW Step \in [T \X (1 .. n) -> T]
  PROVE  \E f : IsRecursion(f, n, T, base, Step)
<1>0. PICK it : IsFold(it, n, T, base, Step)
  BY FoldExists
<1>1. /\ it \in [SUBSET (1 .. n) -> T]
      /\ \A s \in SUBSET (1 .. n) :
           it[s] = IF s = {} THEN base ELSE Step[<<it[s \ {Max(s)}], Max(s)>>]
  BY <1>0 DEF IsFold
<1> DEFINE f == [k \in 0 .. n |-> it[1 .. k]]
<1>2. f \in [0 .. n -> T]
  <2>1. ASSUME NEW k \in 0 .. n PROVE it[1 .. k] \in T
    <3>1. 1 .. k \in SUBSET (1 .. n)
      OBVIOUS
    <3>2. QED
      BY <1>1, <3>1
  <2>2. QED
    BY <2>1
<1>3. f[0] = base
  <2>1. 1 .. 0 = {} /\ 0 \in 0 .. n /\ {} \in SUBSET (1 .. n)
    OBVIOUS
  <2>2. QED
    BY <1>1, <2>1
<1>4. ASSUME NEW k \in 1 .. n PROVE f[k] = Step[<<f[k - 1], k>>]
  <2>1. k - 1 \in Nat /\ (k - 1) + 1 = k
    OBVIOUS
  <2>2. Max(1 .. k) = k /\ (1 .. k) \ {k} = 1 .. k - 1
    BY <2>1, MaxOfInterval
  <2>3. 1 .. k \in SUBSET (1 .. n) /\ 1 .. k # {}
    OBVIOUS
  <2>4. k \in 0 .. n /\ k - 1 \in 0 .. n
    OBVIOUS
  <2>5. QED
    BY <1>1, <2>2, <2>3, <2>4
<1> HIDE DEF f
<1>5. QED
  BY <1>2, <1>3, <1>4 DEF IsRecursion

(* Two functions on 0 .. n with the same start and, from equal values, the *)
(* same steps.                                                             *)
SameSteps(f, g, n) ==
  /\ f[0] = g[0]
  /\ \A k \in 1 .. n : f[k - 1] = g[k - 1] => f[k] = g[k]

(* Functions with the same steps agree.                                    *)
LEMMA SameRecursion ==
  ASSUME NEW n \in Nat, NEW f, NEW g, SameSteps(f, g, n)
  PROVE  \A k \in 0 .. n : f[k] = g[k]
<1> USE DEF SameSteps
<1> DEFINE S == {k \in Nat : k <= n => f[k] = g[k]}
<1>1. 0 \in S
  OBVIOUS
<1>2. ASSUME NEW k \in Nat, k \in S PROVE k + 1 \in S
  <2>1. k + 1 <= n => k + 1 \in 1 .. n /\ (k + 1) - 1 = k /\ k <= n
    OBVIOUS
  <2>2. QED
    BY <1>2, <2>1
<1> HIDE DEF S
<1>3. Nat \subseteq S
  BY <1>1, <1>2, NatSetInduction
<1>4. QED
  BY <1>3 DEF S

(* The equation FoldLeft is chosen by has a solution.                      *)
LEMMA FoldLaw ==
  ASSUME NEW n \in Nat, NEW T, NEW base \in T, NEW Step \in [T \X (1 .. n) -> T]
  PROVE  \E it \in [SUBSET (1 .. n) -> T] :
           /\ it = [t \in SUBSET (1 .. n) |->
                     IF t = {} THEN base ELSE Step[<<it[t \ {Max(t)}], Max(t)>>]]
           /\ \A t \in SUBSET (1 .. n) : t # {} => it[t \ {Max(t)}] \in T /\ Max(t) \in 1 .. n
<1>1. PICK it : IsFold(it, n, T, base, Step)
  BY FoldExists
<1>2. it \in [SUBSET (1 .. n) -> T]
      /\ \A t \in SUBSET (1 .. n) :
           it[t] = IF t = {} THEN base ELSE Step[<<it[t \ {Max(t)}], Max(t)>>]
  BY <1>1 DEF IsFold
<1>3. it = [t \in SUBSET (1 .. n) |-> it[t]]
  BY <1>2
<1>4. [t \in SUBSET (1 .. n) |-> it[t]]
      = [t \in SUBSET (1 .. n) |-> IF t = {} THEN base ELSE Step[<<it[t \ {Max(t)}], Max(t)>>]]
  BY <1>2
<1>5. ASSUME NEW t \in SUBSET (1 .. n), t # {}
      PROVE  it[t \ {Max(t)}] \in T /\ Max(t) \in 1 .. n
  <2>1. Max(t) \in t
    BY <1>5, MaxOfNaturals
  <2>2. t \ {Max(t)} \in SUBSET (1 .. n) /\ Max(t) \in 1 .. n
    BY <2>1
  <2>3. QED
    BY <1>2, <2>2
<1>6. QED
  BY <1>2, <1>3, <1>4, <1>5

(* A fold follows a function when it keeps in step with it.                *)
InStep(it, f, n) ==
  \A k \in 1 .. n : Max(1 .. k) = k /\ (1 .. k) \ {k} = 1 .. k - 1
                    /\ 1 .. k \in SUBSET (1 .. n) /\ 1 .. k # {}
                    /\ it[1 .. k - 1] = f[k - 1] => it[1 .. k] = f[k]

(* A solution of a fold's equation takes the values of any f that makes    *)
(* the same steps.                                                         *)
LEMMA FoldEnds ==
  ASSUME NEW n \in Nat, NEW it, NEW f, it[{}] = f[0], InStep(it, f, n)
  PROVE  it[1 .. n] = f[n]
<1> DEFINE g == [k \in 0 .. n |-> it[1 .. k]]
<1>1. g[0] = f[0]
  <2>1. 1 .. 0 = {} /\ 0 \in 0 .. n
    OBVIOUS
  <2>2. QED
    BY <2>1
<1>2. ASSUME NEW k \in 1 .. n, g[k - 1] = f[k - 1] PROVE g[k] = f[k]
  <2>1. k - 1 \in Nat /\ (k - 1) + 1 = k /\ k \in 0 .. n /\ k - 1 \in 0 .. n
    OBVIOUS
  <2>2. Max(1 .. k) = k /\ (1 .. k) \ {k} = 1 .. k - 1
    BY <2>1, MaxOfInterval
  <2>3. 1 .. k \in SUBSET (1 .. n) /\ 1 .. k # {}
    <3> HIDE DEF g
    <3>1. \A y \in 1 .. k : y \in 1 .. n
      OBVIOUS
    <3>2. k \in 1 .. k
      BY <2>1
    <3>3. QED
      BY <3>1, <3>2
  <2>4. it[1 .. k - 1] = f[k - 1]
    BY <1>2, <2>1
  <2>5. it[1 .. k] = f[k]
    BY <2>2, <2>3, <2>4 DEF InStep
  <2>6. QED
    BY <2>1, <2>5
<1> HIDE DEF g
<1>3. \A k \in 0 .. n : g[k] = f[k]
  <2>1. SameSteps(g, f, n)
    BY <1>1, <1>2 DEF SameSteps
  <2>2. QED
    BY <2>1, SameRecursion
<1>4. n \in 0 .. n
  OBVIOUS
<1>5. g[n] = f[n]
  BY <1>3, <1>4
<1>6. QED
  BY <1>4, <1>5 DEF g

(* Appending the next value of a function to its values so far.            *)
LEMMA AppendIs ==
  ASSUME NEW S, NEW m \in Nat, NEW s \in Seq(S), Len(s) = m, NEW F \in [1 .. m + 1 -> S],
         \A j \in 1 .. m : s[j] = F[j]
  PROVE  Append(s, F[m + 1]) = F
<1>1. m + 1 \in 1 .. m + 1 /\ F[m + 1] \in S
  OBVIOUS
<1> DEFINE t == Append(s, F[m + 1])
<1>2. t \in Seq(S) /\ Len(t) = m + 1 /\ (\A i \in 1 .. m : t[i] = s[i]) /\ t[m + 1] = F[m + 1]
  BY <1>1, AppendProperties
<1> HIDE DEF t
<1>3. F \in Seq(S) /\ Len(F) = m + 1
  OBVIOUS
<1>4. \A i \in 1 .. m + 1 : t[i] = F[i]
  <2>1. \A i \in 1 .. m + 1 : i \in 1 .. m \/ i = m + 1
    OBVIOUS
  <2>2. QED
    BY <1>2, <2>1
<1>5. t = F
  BY <1>2, <1>3, <1>4, SeqEqual
<1>6. QED
  BY <1>5 DEF t

(* FlattenSeq is any f that concatenates the members one after another:    *)
(* the induction over the members that the definition of FlattenSeq by     *)
(* CHOOSE needs.                                                           *)
LEMMA FlattenIs ==
  ASSUME NEW T, NEW s \in Seq(Seq(T)), NEW f, f[0] = <<>>,
         \A k \in 1 .. Len(s) : f[k] = f[k - 1] \o s[k]
  PROVE  FlattenSeq(s) = f[Len(s)] /\ FlattenSeq(s) \in Seq(T)
<1> DEFINE n == Len(s)
           Law(g) == g = [i \in 1 .. n |-> IF i = 1 THEN s[i] ELSE g[i - 1] \o s[i]]
<1>0. \A k \in 1 .. n : f[k] = f[k - 1] \o s[k]
  OBVIOUS
<1>1. n \in Nat /\ \A k \in 1 .. n : s[k] \in Seq(T)
  OBVIOUS
<1>2. CASE n = 0
  <2>1. s = <<>>
    BY <1>2
  <2>2. QED
    BY <1>2, <2>1 DEF FlattenSeq
<1>3. CASE n # 0
  <2>1. \E g : Law(g)
    <3> DEFINE Step == [x \in Seq(T) \X (1 .. n) |-> x[1] \o s[x[2]]]
    <3>1. Step \in [Seq(T) \X (1 .. n) -> Seq(T)]
      BY <1>1
    <3>2. <<>> \in Seq(T)
      OBVIOUS
    <3>3. PICK h : IsRecursion(h, n, Seq(T), <<>>, Step)
      <4> HIDE DEF Step, n
      <4> QED BY <1>1, <3>1, <3>2, RecursionExists
    <3>4. h[0] = <<>> /\ \A k \in 1 .. n : h[k - 1] \in Seq(T) /\ h[k] = h[k - 1] \o s[k]
      <4>1. h[0] = <<>> /\ h \in [0 .. n -> Seq(T)] /\ \A k \in 1 .. n : h[k] = Step[<<h[k - 1], k>>]
        BY <3>3 DEF IsRecursion
      <4>2. \A k \in 1 .. n : k - 1 \in 0 .. n
        BY <1>1
      <4>3. QED
        BY <4>1, <4>2
    <3>5. h[1] = s[1]
      <4>0. 1 \in 1 .. n /\ 1 - 1 = 0
        BY <1>1, <1>3
      <4>1. h[1] = h[0] \o s[1] /\ s[1] \in Seq(T)
        <5> HIDE DEF n
        <5> QED BY <1>1, <3>4, <4>0
      <4>2. QED
        BY <4>1, <3>4
    <3> DEFINE g == [i \in 1 .. n |-> h[i]]
    <3>6. \A i \in 1 .. n : i # 1 => g[i - 1] = h[i - 1]
      BY <1>1
    <3>7. \A i \in 1 .. n : g[i] = IF i = 1 THEN s[i] ELSE g[i - 1] \o s[i]
      BY <3>4, <3>5, <3>6
    <3>8. Law(g)
      BY <3>7
    <3> HIDE DEF g, Law
    <3>9. QED
      BY <3>8
  <2> DEFINE g == CHOOSE g : Law(g)
  <2>2. Law(g)
    <3> HIDE DEF Law
    <3> QED BY <2>1
  <2>3. FlattenSeq(s) = g[n]
    BY <1>3 DEF FlattenSeq
  <2> HIDE DEF g
  <2>4. \A i \in 1 .. n : g[i] = IF i = 1 THEN s[i] ELSE g[i - 1] \o s[i]
    BY <2>2
  <2> DEFINE S == {k \in Nat : k \in 1 .. n => g[k] = f[k] /\ g[k] \in Seq(T)}
  <2>5. 0 \in S
    OBVIOUS
  <2>6. ASSUME NEW k \in Nat, k \in S PROVE k + 1 \in S
    <3> SUFFICES ASSUME k + 1 \in 1 .. n PROVE g[k + 1] = f[k + 1] /\ g[k + 1] \in Seq(T)
      OBVIOUS
    <3>1. f[k + 1] = f[k] \o s[k + 1] /\ s[k + 1] \in Seq(T)
      <4>1. (k + 1) - 1 = k
        OBVIOUS
      <4>2. QED
        BY <1>1, <4>1
    <3>2. CASE k = 0
      <4>1. k + 1 = 1 /\ 1 \in 1 .. n /\ 1 - 1 = 0
        BY <3>2
      <4>2. g[1] = s[1] /\ f[1] = f[0] \o s[1] /\ s[1] \in Seq(T)
        <5> HIDE DEF n, Law, S
        <5> QED BY <1>0, <1>1, <2>4, <4>1
      <4>3. <<>> \o s[1] = s[1]
        BY <4>2
      <4>4. QED
        BY <4>1, <4>2, <4>3
    <3>3. CASE k # 0
      <4>1. k \in 1 .. n /\ k + 1 # 1 /\ (k + 1) - 1 = k
        BY <3>3, <1>1
      <4>2. g[k] = f[k] /\ g[k] \in Seq(T)
        BY <2>6, <4>1
      <4>3. g[k + 1] = g[k] \o s[k + 1]
        BY <2>4, <4>1
      <4>4. QED
        BY <3>1, <4>2, <4>3
    <3>4. QED
      BY <3>2, <3>3
  <2>7. n \in S
    <3> HIDE DEF S, n
    <3> QED BY <1>1, <2>5, <2>6, NatSetInduction
  <2>8. QED
    BY <1>1, <1>3, <2>3, <2>7
<1>4. QED
  BY <1>2, <1>3

(* The element that a sum over a set takes first.                          *)
Picked(s) == CHOOSE x \in s : TRUE

(* What MapThenSumSet is chosen by, for weights w.                         *)
IsSum(it, S, w) ==
  it = [s \in SUBSET S |-> IF s = {} THEN 0 ELSE w[Picked(s)] + it[s \ {Picked(s)}]]

(* The running totals of the weights w.                                    *)
IsTotal(P, n, w) ==
  /\ P \in [0 .. n -> Nat]
  /\ P[0] = 0
  /\ \A k \in 1 .. n : P[k] = P[k - 1] + w[k]

(* A sum does not depend on which element is taken first.                  *)
LEMMA SumExists ==
  ASSUME NEW n \in Nat, NEW w \in [1 .. n -> Nat]
  PROVE  \E H \in [SUBSET (1 .. n) -> Nat] :
           /\ H[{}] = 0
           /\ \A s \in SUBSET (1 .. n) : \A x \in s : H[s] = w[x] + H[s \ {x}]
<1> DEFINE Step == [x \in Nat \X (1 .. n) |-> w[x[2]] + x[1]]
<1>1. Step \in [Nat \X (1 .. n) -> Nat]
  OBVIOUS
<1>2. PICK H : IsFold(H, n, Nat, 0, Step)
  <2> HIDE DEF Step
  <2> QED BY <1>1, FoldExists
<1>3. H \in [SUBSET (1 .. n) -> Nat] /\ H[{}] = 0
  BY <1>2 DEF IsFold
<1>4. ASSUME NEW s \in SUBSET (1 .. n), s # {}
      PROVE  /\ Max(s) \in s
             /\ H[s] = w[Max(s)] + H[s \ {Max(s)}]
  <2>1. Max(s) \in s
    BY <1>4, MaxOfNaturals
  <2>2. H[s] = Step[<<H[s \ {Max(s)}], Max(s)>>]
    BY <1>2, <1>4 DEF IsFold
  <2>3. H[s \ {Max(s)}] \in Nat /\ Max(s) \in 1 .. n
    BY <1>3, <2>1
  <2>4. QED
    BY <2>1, <2>2, <2>3
<1> HIDE DEF Step
<1> DEFINE Free(k) == \A s \in SUBSET (1 .. n) : s \subseteq 1 .. k =>
                        \A x \in s : H[s] = w[x] + H[s \ {x}]
           S == {k \in Nat : Free(k)}
<1>5. 0 \in S
  <2>1. ASSUME NEW s, s \subseteq 1 .. 0, NEW x \in s PROVE FALSE
    <3>1. x \in 1 .. 0
      BY <2>1
    <3>2. QED
      BY <3>1
  <2>2. Free(0)
    BY <2>1
  <2> HIDE DEF Free
  <2>3. QED
    BY <2>2
<1>6. ASSUME NEW k \in Nat, Free(k) PROVE Free(k + 1)
  <2> SUFFICES ASSUME NEW s \in SUBSET (1 .. n), s \subseteq 1 .. k + 1, NEW x \in s
               PROVE  H[s] = w[x] + H[s \ {x}]
    OBVIOUS
  <2> DEFINE m == Max(s)
  <2>1. m \in s /\ H[s] = w[m] + H[s \ {m}] /\ \A y \in s : m >= y
    BY <1>4, MaxOfNaturals
  <2> HIDE DEF m
  <2>2. CASE m = x
    BY <2>1, <2>2
  <2>3. CASE m # x
    <3>1. s \ {m} \in SUBSET (1 .. n) /\ s \ {m} \subseteq 1 .. k /\ x \in s \ {m}
      <4>1. ASSUME NEW y \in s \ {m} PROVE y \in 1 .. k
        <5>1. y \in 1 .. k + 1 /\ m \in 1 .. k + 1 /\ m >= y /\ m # y
          BY <2>1
        <5>2. QED
          BY <5>1
      <4>2. QED
        BY <2>3, <4>1
    <3>2. H[s \ {m}] = w[x] + H[(s \ {m}) \ {x}]
      BY <1>6, <3>1
    <3>3. s \ {x} \in SUBSET (1 .. n) /\ s \ {x} # {} /\ Max(s \ {x}) = m
      <4>1. s \ {x} \in SUBSET (1 .. n) /\ m \in s \ {x}
        BY <2>1, <2>3
      <4>2. Max(s \ {x}) \in s \ {x} /\ \A y \in s \ {x} : Max(s \ {x}) >= y
        BY <4>1, MaxOfNaturals
      <4>3. Max(s \ {x}) >= m /\ m >= Max(s \ {x}) /\ m \in Nat /\ Max(s \ {x}) \in Nat
        <5> DEFINE t == Max(s \ {x})
        <5>1. t \in s /\ t >= m
          BY <4>1, <4>2
        <5> HIDE DEF t
        <5>2. t \in 1 .. n /\ m \in 1 .. n /\ m >= t
          BY <2>1, <5>1
        <5>3. t >= m /\ m >= t /\ m \in Nat /\ t \in Nat
          BY <5>1, <5>2
        <5>4. QED
          BY <5>3 DEF t
      <4>4. Max(s \ {x}) = m
        BY <4>3
      <4>5. QED
        BY <4>1, <4>4
    <3>4. H[s \ {x}] = w[m] + H[(s \ {x}) \ {m}]
      BY <1>4, <3>3
    <3> DEFINE rest == (s \ {m}) \ {x}
    <3>5. (s \ {x}) \ {m} = rest
      OBVIOUS
    <3>6. rest \in SUBSET (1 .. n) /\ w[m] \in Nat /\ w[x] \in Nat
      BY <2>1
    <3>7. H[rest] \in Nat
      BY <1>3, <3>6
    <3>8. H[s] = w[m] + H[s \ {m}] /\ H[s \ {m}] = w[x] + H[rest] /\ H[s \ {x}] = w[m] + H[rest]
      BY <2>1, <3>2, <3>4, <3>5
    <3> HIDE DEF rest
    <3>9. QED
      BY <3>6, <3>7, <3>8
  <2>4. QED
    BY <2>2, <2>3
<1> HIDE DEF Free
<1>7. n \in S
  <2>1. \A k \in Nat : k \in S => k + 1 \in S
    BY <1>6
  <2> HIDE DEF S
  <2>2. QED
    BY <1>5, <2>1, NatSetInduction
<1>8. Free(n)
  BY <1>7
<1>9. QED
  BY <1>3, <1>8 DEF Free

(* The sum of the weights of an interval is the difference of two running  *)
(* totals.                                                                 *)
LEMMA SumOfInterval ==
  ASSUME NEW n \in Nat, NEW w \in [1 .. n -> Nat]
  PROVE  \E P : /\ IsTotal(P, n, w)
                /\ \A a, b \in 0 .. n : a <= b =>
                     /\ \E it : IsSum(it, a + 1 .. b, w)
                     /\ \A it : IsSum(it, a + 1 .. b, w) => it[a + 1 .. b] = P[b] - P[a]
<1>1. PICK H \in [SUBSET (1 .. n) -> Nat] :
        H[{}] = 0 /\ \A s \in SUBSET (1 .. n) : \A x \in s : H[s] = w[x] + H[s \ {x}]
  BY SumExists
<1>2. ASSUME NEW s, s # {} PROVE Picked(s) \in s
  BY <1>2 DEF Picked
<1>3. ASSUME NEW S \in SUBSET (1 .. n) PROVE \E it : IsSum(it, S, w)
  <2> DEFINE it == [s \in SUBSET S |-> H[s]]
  <2>1. ASSUME NEW s \in SUBSET S
        PROVE  it[s] = IF s = {} THEN 0 ELSE w[Picked(s)] + it[s \ {Picked(s)}]
    <3>1. CASE s = {}
      BY <1>1, <3>1
    <3>2. CASE s # {}
      <4>1. Picked(s) \in s /\ s \ {Picked(s)} \in SUBSET S /\ s \in SUBSET (1 .. n)
        BY <1>2, <3>2
      <4>2. H[s] = w[Picked(s)] + H[s \ {Picked(s)}]
        BY <1>1, <4>1
      <4>3. QED
        BY <3>2, <4>1, <4>2
    <3>3. QED
      BY <3>1, <3>2
  <2>2. it = [s \in SUBSET S |-> IF s = {} THEN 0 ELSE w[Picked(s)] + it[s \ {Picked(s)}]]
    BY <2>1
  <2> HIDE DEF it
  <2>3. QED
    BY <2>2 DEF IsSum
<1>4. ASSUME NEW S \in SUBSET (1 .. n), NEW it, IsSum(it, S, w)
      PROVE  it[S] = H[S]
  <2> DEFINE Agree(k) == \A s \in SUBSET S : Cardinality(s) = k => it[s] = H[s]
             N == {k \in Nat : Agree(k)}
  <2>1. \A s \in SUBSET S : it[s] = IF s = {} THEN 0 ELSE w[Picked(s)] + it[s \ {Picked(s)}]
    BY <1>4 DEF IsSum
  <2>2. IsFiniteSet(1 .. n) /\ \A s \in SUBSET S : IsFiniteSet(s) /\ Cardinality(s) \in Nat
    <3>1. IsFiniteSet(1 .. n)
      BY FS_Interval
    <3>2. ASSUME NEW s \in SUBSET S PROVE IsFiniteSet(s) /\ Cardinality(s) \in Nat
      <4>1. s \in SUBSET (1 .. n)
        OBVIOUS
      <4>2. IsFiniteSet(s)
        BY <3>1, <4>1, FS_Subset
      <4>3. QED
        BY <4>2, FS_CardinalityType
    <3>3. QED
      BY <3>1, <3>2
  <2>3. Agree(0)
    BY <1>1, <2>1, <2>2, FS_EmptySet
  <2>4. ASSUME NEW k \in Nat, Agree(k) PROVE Agree(k + 1)
    <3> SUFFICES ASSUME NEW s \in SUBSET S, Cardinality(s) = k + 1 PROVE it[s] = H[s]
      OBVIOUS
    <3>1. s # {}
      <4>1. Cardinality({}) = 0 /\ k + 1 # 0
        BY FS_EmptySet
      <4>2. QED
        BY <4>1
    <3>2. Picked(s) \in s /\ s \ {Picked(s)} \in SUBSET S /\ s \in SUBSET (1 .. n)
      BY <1>2, <3>1
    <3>3. Cardinality(s \ {Picked(s)}) = k
      BY <2>2, <3>2, FS_RemoveElement
    <3>4. it[s \ {Picked(s)}] = H[s \ {Picked(s)}]
      BY <2>4, <3>2, <3>3
    <3>5. H[s] = w[Picked(s)] + H[s \ {Picked(s)}]
      BY <1>1, <3>2
    <3>6. QED
      BY <2>1, <3>1, <3>4, <3>5
  <2> HIDE DEF Agree
  <2>5. Cardinality(S) \in N
    <3>1. 0 \in N /\ \A k \in Nat : k \in N => k + 1 \in N
      BY <2>3, <2>4
    <3>2. Cardinality(S) \in Nat
      BY <2>2
    <3> HIDE DEF N
    <3>3. QED
      BY <3>1, <3>2, NatSetInduction
  <2>6. QED
    BY <2>5 DEF Agree
<1>0. ASSUME NEW s \in SUBSET (1 .. n), NEW x \in s, NEW r, s \ {x} = r
      PROVE  H[s] = w[x] + H[r]
  BY <1>0, <1>1
<1> DEFINE P == [k \in 0 .. n |-> H[1 .. k]]
<1>5. IsTotal(P, n, w)
  <2>1. ASSUME NEW k \in 0 .. n PROVE 1 .. k \in SUBSET (1 .. n) /\ H[1 .. k] \in Nat
    <3>1. 1 .. k \in SUBSET (1 .. n)
      OBVIOUS
    <3>2. QED
      BY <1>1, <3>1
  <2>2. P[0] = 0
    <3>1. 1 .. 0 = {} /\ 0 \in 0 .. n
      OBVIOUS
    <3>2. QED
      BY <1>1, <3>1
  <2>3. ASSUME NEW k \in 1 .. n PROVE P[k] = P[k - 1] + w[k]
    <3>1. k \in 0 .. n /\ k - 1 \in 0 .. n /\ (1 .. k) \ {k} = 1 .. k - 1 /\ k \in 1 .. k
      OBVIOUS
    <3>2. H[1 .. k] = w[k] + H[1 .. k - 1]
      <4>1. 1 .. k \in SUBSET (1 .. n)
        BY <2>1, <3>1
      <4> DEFINE all == 1 .. k
                 rest == 1 .. k - 1
      <4>2. all \in SUBSET (1 .. n) /\ k \in all /\ all \ {k} = rest
        BY <3>1, <4>1
      <4> HIDE DEF all, rest
      <4>3. H[all] = w[k] + H[rest]
        BY <1>0, <4>2
      <4>4. QED
        BY <4>3 DEF all, rest
    <3>3. H[1 .. k - 1] \in Nat /\ w[k] \in Nat
      BY <2>1, <3>1
    <3>4. QED
      BY <3>1, <3>2, <3>3
  <2>4. P \in [0 .. n -> Nat]
    BY <2>1
  <2> HIDE DEF P
  <2>5. QED
    BY <2>2, <2>3, <2>4 DEF IsTotal
<1>6. ASSUME NEW a \in 0 .. n
      PROVE  \A b \in 0 .. n : a <= b => H[a + 1 .. b] = P[b] - P[a]
  <2> DEFINE Diff(b) == a <= b /\ b <= n => H[a + 1 .. b] = P[b] - P[a]
             N == {b \in Nat : Diff(b)}
  <2>1. \A k \in 0 .. n : P[k] \in Nat
    BY <1>5 DEF IsTotal
  <2>2. ASSUME NEW b \in Nat, a = b, b <= n PROVE H[a + 1 .. b] = P[b] - P[a]
    <3>1. a + 1 .. b = {} /\ b \in 0 .. n
      BY <2>2
    <3>2. P[b] - P[a] = 0
      BY <2>1, <2>2, <3>1
    <3>3. QED
      BY <1>1, <3>1, <3>2
  <2>3. Diff(0)
    BY <2>2
  <2>4. ASSUME NEW b \in Nat, Diff(b) PROVE Diff(b + 1)
    <3>1. CASE a = b + 1
      BY <2>2, <3>1
    <3>2. CASE a # b + 1
      <4> SUFFICES ASSUME a <= b + 1, b + 1 <= n
                   PROVE  H[a + 1 .. b + 1] = P[b + 1] - P[a]
        OBVIOUS
      <4>1. a <= b /\ b <= n /\ b \in 0 .. n /\ b + 1 \in 1 .. n /\ (b + 1) - 1 = b
        BY <3>2
      <4>2. H[a + 1 .. b] = P[b] - P[a]
        BY <2>4, <4>1
      <4>3. /\ a + 1 .. b + 1 \in SUBSET (1 .. n)
            /\ b + 1 \in a + 1 .. b + 1
            /\ (a + 1 .. b + 1) \ {b + 1} = a + 1 .. b
        BY <4>1
      <4>4. H[a + 1 .. b + 1] = w[b + 1] + H[a + 1 .. b]
        <5> DEFINE all == a + 1 .. b + 1
                   rest == a + 1 .. b
                   top == b + 1
        <5>1. all \in SUBSET (1 .. n) /\ top \in all /\ all \ {top} = rest
          BY <4>3
        <5> HIDE DEF all, rest, top
        <5>2. H[all] = w[top] + H[rest]
          BY <1>0, <5>1
        <5>3. QED
          BY <5>2 DEF all, rest, top
      <4>5. P[b + 1] = P[b] + w[b + 1]
        <5> HIDE DEF P
        <5> QED BY <1>5, <4>1 DEF IsTotal
      <4>6. P[b] \in Nat /\ P[a] \in Nat /\ w[b + 1] \in Nat
        BY <2>1, <4>1
      <4> HIDE DEF P
      <4>7. QED
        BY <4>2, <4>4, <4>5, <4>6
    <3>3. QED
      BY <3>1, <3>2
  <2> HIDE DEF Diff
  <2>5. Nat \subseteq N
    <3>1. 0 \in N /\ \A b \in Nat : b \in N => b + 1 \in N
      BY <2>3, <2>4
    <3> HIDE DEF N
    <3>2. QED
      BY <3>1, NatSetInduction
  <2> HIDE DEF P
  <2>6. ASSUME NEW b \in 0 .. n, a <= b PROVE H[a + 1 .. b] = P[b] - P[a]
    <3>1. Diff(b)
      BY <2>5
    <3>2. QED
      BY <2>6, <3>1 DEF Diff
  <2>7. QED
    BY <2>6
<1> HIDE DEF P
<1>7. ASSUME NEW a \in 0 .. n, NEW b \in 0 .. n, a <= b
      PROVE  /\ \E it : IsSum(it, a + 1 .. b, w)
             /\ \A it : IsSum(it, a + 1 .. b, w) => it[a + 1 .. b] = P[b] - P[a]
  <2>1. a + 1 .. b \in SUBSET (1 .. n)
    OBVIOUS
  <2>2. QED
    BY <1>3, <1>4, <1>6, <1>7, <2>1
<1>8. QED
  BY <1>5, <1>7

(* What a concatenation holds, and when it repeats nothing.                *)
LEMMA ConcatHolds ==
  ASSUME NEW T, NEW a \in Seq(T), NEW b \in Seq(T)
  PROVE  /\ a \o b \in Seq(T)
         /\ ToSet(a \o b) = ToSet(a) \union ToSet(b)
         /\ IsInjective(a) /\ IsInjective(b) /\ ToSet(a) \intersect ToSet(b) = {}
              => IsInjective(a \o b)
<1> DEFINE m == Len(a)
           n == Len(b)
           c == a \o b
<1>1. /\ m \in Nat /\ n \in Nat /\ c \in Seq(T) /\ Len(c) = m + n
      /\ DOMAIN a = 1 .. m /\ DOMAIN b = 1 .. n /\ DOMAIN c = 1 .. m + n
  OBVIOUS
<1>2. \A i \in 1 .. m + n : c[i] = IF i <= m THEN a[i] ELSE b[i - m]
  OBVIOUS
<1>3. ToSet(c) = {c[i] : i \in 1 .. m + n} /\ ToSet(a) = {a[i] : i \in 1 .. m}
      /\ ToSet(b) = {b[i] : i \in 1 .. n}
  BY <1>1 DEF ToSet
<1> HIDE DEF m, n, c
<1>4. ToSet(c) \subseteq ToSet(a) \union ToSet(b)
  <2>1. ASSUME NEW i \in 1 .. m + n PROVE c[i] \in ToSet(a) \union ToSet(b)
    <3>1. CASE i <= m
      <4>1. i \in 1 .. m /\ c[i] = a[i]
        BY <1>1, <1>2, <3>1
      <4>2. QED
        BY <1>3, <4>1
    <3>2. CASE ~ (i <= m)
      <4>1. i - m \in 1 .. n /\ c[i] = b[i - m]
        BY <1>1, <1>2, <3>2
      <4>2. QED
        BY <1>3, <4>1
    <3>3. QED
      BY <3>1, <3>2
  <2>2. QED
    BY <1>3, <2>1
<1>5. ToSet(a) \subseteq ToSet(c)
  <2>1. ASSUME NEW i \in 1 .. m PROVE i \in 1 .. m + n /\ c[i] = a[i]
    BY <1>1, <1>2
  <2>2. QED
    BY <1>3, <2>1
<1>6. ToSet(b) \subseteq ToSet(c)
  <2>1. ASSUME NEW i \in 1 .. n PROVE b[i] \in ToSet(c)
    <3>1. m + i \in 1 .. m + n /\ ~ (m + i <= m) /\ (m + i) - m = i
      BY <1>1
    <3>2. c[m + i] = b[i]
      BY <1>2, <3>1
    <3>3. QED
      BY <1>3, <3>1, <3>2
  <2>2. QED
    BY <1>3, <2>1
<1>7. ASSUME IsInjective(a), IsInjective(b), ToSet(a) \intersect ToSet(b) = {}
      PROVE  IsInjective(c)
  <2>1. \A i, j \in 1 .. m : a[i] = a[j] => i = j
    BY <1>1, <1>7 DEF IsInjective
  <2>2. \A i, j \in 1 .. n : b[i] = b[j] => i = j
    BY <1>1, <1>7 DEF IsInjective
  <2>3. \A i \in 1 .. m, j \in 1 .. n : a[i] # b[j]
    BY <1>3, <1>7
  <2>4. ASSUME NEW i \in 1 .. m + n, NEW j \in 1 .. m + n, c[i] = c[j]
        PROVE  i = j
    <3>1. CASE i <= m /\ j <= m
      <4>1. i \in 1 .. m /\ j \in 1 .. m /\ a[i] = a[j]
        BY <1>1, <1>2, <2>4, <3>1
      <4>2. QED
        BY <2>1, <4>1
    <3>2. CASE ~ (i <= m) /\ ~ (j <= m)
      <4>1. i - m \in 1 .. n /\ j - m \in 1 .. n /\ b[i - m] = b[j - m]
        BY <1>1, <1>2, <2>4, <3>2
      <4>2. i - m = j - m
        BY <2>2, <4>1
      <4>3. QED
        BY <1>1, <4>2
    <3>3. CASE i <= m /\ ~ (j <= m)
      <4>1. i \in 1 .. m /\ j - m \in 1 .. n /\ a[i] = b[j - m]
        BY <1>1, <1>2, <2>4, <3>3
      <4>2. QED
        BY <2>3, <4>1
    <3>4. CASE ~ (i <= m) /\ j <= m
      <4>1. j \in 1 .. m /\ i - m \in 1 .. n /\ a[j] = b[i - m]
        BY <1>1, <1>2, <2>4, <3>4
      <4>2. QED
        BY <2>3, <4>1
    <3>5. QED
      BY <3>1, <3>2, <3>3, <3>4
  <2>5. QED
    BY <1>1, <2>4 DEF IsInjective
<1>8. QED
  BY <1>1, <1>4, <1>5, <1>6, <1>7 DEF c

(* What a flattened sequence holds, and when it repeats nothing.           *)
LEMMA FlattenHolds ==
  ASSUME NEW T, NEW s \in Seq(Seq(T))
  PROVE  /\ FlattenSeq(s) \in Seq(T)
         /\ ToSet(FlattenSeq(s)) = UNION {ToSet(s[i]) : i \in 1 .. Len(s)}
         /\ (\A i \in 1 .. Len(s) : IsInjective(s[i]))
              /\ (\A i, j \in 1 .. Len(s) : i # j => ToSet(s[i]) \intersect ToSet(s[j]) = {})
              => IsInjective(FlattenSeq(s))
<1> DEFINE n == Len(s)
           Parts == Seq(T)
           Step == [x \in Parts \X (1 .. n) |-> x[1] \o s[x[2]]]
<1>1. n \in Nat /\ <<>> \in Parts /\ \A i \in 1 .. n : s[i] \in Parts
  OBVIOUS
<1>2. Step \in [Parts \X (1 .. n) -> Parts]
  OBVIOUS
<1>3. PICK f : IsRecursion(f, n, Parts, <<>>, Step)
  <2> HIDE DEF Parts, Step, n
  <2> QED BY <1>1, <1>2, RecursionExists
<1>4. /\ f[0] = <<>> /\ \A k \in 0 .. n : f[k] \in Parts
      /\ \A k \in 1 .. n : f[k] = f[k - 1] \o s[k]
  <2>1. f \in [0 .. n -> Parts] /\ f[0] = <<>> /\ \A k \in 1 .. n : f[k] = Step[<<f[k - 1], k>>]
    BY <1>3 DEF IsRecursion
  <2>2. ASSUME NEW k \in 1 .. n PROVE f[k] = f[k - 1] \o s[k]
    <3>1. k - 1 \in 0 .. n
      BY <1>1
    <3>2. <<f[k - 1], k>> \in Parts \X (1 .. n)
      <4> HIDE DEF Parts, Step, n
      <4> QED BY <2>1, <3>1
    <3>3. QED
      BY <2>1, <3>2
  <2>3. QED
    BY <2>1, <2>2
<1>5. FlattenSeq(s) = f[n]
  BY <1>4, FlattenIs
<1> DEFINE Apart == /\ \A i \in 1 .. n : IsInjective(s[i])
                    /\ \A i, j \in 1 .. n : i # j => ToSet(s[i]) \intersect ToSet(s[j]) = {}
           Right(m) == /\ ToSet(f[m]) = UNION {ToSet(s[i]) : i \in 1 .. m}
                       /\ Apart => IsInjective(f[m])
           S == {m \in Nat : m <= n => Right(m)}
<1>6. 0 \in S
  <2>1. ToSet(<<>>) = {} /\ IsInjective(<<>>)
    BY DEF ToSet, IsInjective
  <2>2. 1 .. 0 = {}
    OBVIOUS
  <2>3. Right(0)
    <3> HIDE DEF n, Parts
    <3> QED BY <1>4, <2>1, <2>2
  <2>4. QED
    BY <2>3
<1>7. ASSUME NEW m \in Nat, m \in S PROVE m + 1 \in S
  <2> SUFFICES ASSUME m + 1 <= n PROVE Right(m + 1)
    <3> HIDE DEF n, Right
    <3> QED BY DEF S
  <2> HIDE DEF n, Parts, Step, S, Right, Apart
  <2>1. m + 1 \in 1 .. n /\ (m + 1) - 1 = m /\ m \in 0 .. n /\ m <= n
        /\ 1 .. m + 1 = (1 .. m) \union {m + 1} /\ m + 1 \notin 1 .. m /\ 1 .. m \subseteq 1 .. n
    BY <1>1
  <2>2. Right(m)
    BY <1>7, <2>1 DEF S
  <2>3. f[m + 1] = f[m] \o s[m + 1]
    BY <1>4, <2>1
  <2>4. f[m] \in Seq(T) /\ s[m + 1] \in Seq(T)
    BY <1>1, <1>4, <2>1 DEF Parts
  <2>5. ToSet(f[m + 1]) = ToSet(f[m]) \union ToSet(s[m + 1])
    BY <2>3, <2>4, ConcatHolds
  <2>6. ToSet(f[m + 1]) = UNION {ToSet(s[i]) : i \in 1 .. m + 1}
    BY <2>1, <2>2, <2>5 DEF Right
  <2>7. ASSUME Apart PROVE IsInjective(f[m + 1])
    <3>1. IsInjective(f[m]) /\ IsInjective(s[m + 1])
      BY <2>1, <2>2, <2>7 DEF Right, Apart
    <3>2. \A i \in 1 .. m : ToSet(s[i]) \intersect ToSet(s[m + 1]) = {}
      <4>1. ASSUME NEW i \in 1 .. m PROVE i \in 1 .. n /\ i # m + 1
        BY <2>1
      <4>2. QED
        BY <2>1, <2>7, <4>1 DEF Apart
    <3>3. ToSet(f[m]) \intersect ToSet(s[m + 1]) = {}
      BY <2>2, <3>2 DEF Right
    <3>4. QED
      BY <2>3, <2>4, <3>1, <3>3, ConcatHolds
  <2>8. QED
    BY <2>6, <2>7 DEF Right
<1>8. Nat \subseteq S
  <2> HIDE DEF S
  <2> QED BY <1>6, <1>7, NatSetInduction
<1>9. Right(n)
  <2>1. n \in S /\ n <= n
    <3> HIDE DEF n, S
    <3> QED BY <1>1, <1>8
  <2> HIDE DEF n, Right
  <2>2. QED
    BY <2>1
<1>10. QED
  <2>1. FlattenSeq(s) \in Seq(T)
    <3>1. n \in 0 .. n
      <4> HIDE DEF n
      <4> QED BY <1>1
    <3>2. QED
      <4> HIDE DEF n
      <4> QED BY <1>4, <1>5, <3>1
  <2>2. Apart = /\ \A i \in 1 .. Len(s) : IsInjective(s[i])
                /\ \A i, j \in 1 .. Len(s) : i # j => ToSet(s[i]) \intersect ToSet(s[j]) = {}
    OBVIOUS
  <2>3. Right(n) = /\ ToSet(f[n]) = UNION {ToSet(s[i]) : i \in 1 .. Len(s)}
                   /\ Apart => IsInjective(f[n])
    <3> HIDE DEF Apart
    <3> QED OBVIOUS
  <2> HIDE DEF Right, Apart, n, Parts, S, Step
  <2>4. QED
    BY <1>5, <1>9, <2>1, <2>2, <2>3

(* A sequence that holds each of the numbers 1 .. n once is a permutation. *)
LEMMA PermutationIs ==
  ASSUME NEW n \in Nat, NEW s \in Seq(Nat), IsInjective(s), ToSet(s) = 1 .. n
  PROVE  /\ Len(s) = n
         /\ \E q \in [1 .. n -> 1 .. n] : \A c \in 1 .. n : s[q[c]] = c
<1> DEFINE m == Len(s)
<1>1. m \in Nat /\ DOMAIN s = 1 .. m
  OBVIOUS
<1>2. s = [i \in 1 .. m |-> s[i]]
  OBVIOUS
<1> HIDE DEF m
<1>3. s \in [1 .. m -> 1 .. n] /\ \A c \in 1 .. n : \E i \in 1 .. m : s[i] = c
  <2>1. \A i \in 1 .. m : s[i] \in 1 .. n
    BY <1>1 DEF ToSet
  <2>2. \A c \in 1 .. n : \E i \in 1 .. m : s[i] = c
    BY <1>1 DEF ToSet
  <2>3. QED
    BY <1>2, <2>1, <2>2
<1>4. s \in Bijection(1 .. m, 1 .. n)
  BY <1>3 DEF Bijection, Injection, Surjection
<1>5. IsFiniteSet(1 .. m) /\ Cardinality(1 .. m) = m /\ Cardinality(1 .. n) = n
  BY <1>1, FS_Interval
<1>6. m = n
  BY <1>4, <1>5, FS_Bijection DEF ExistsBijection
<1>7. \A c \in 1 .. n : \E i \in 1 .. n : s[i] = c
  BY <1>3, <1>6
<1>8. PICK q : q = [c \in 1 .. n |-> CHOOSE i \in 1 .. n : s[i] = c]
  OBVIOUS
<1>9. \A c \in 1 .. n : q[c] \in 1 .. n /\ s[q[c]] = c
  BY <1>7, <1>8
<1>10. q \in [1 .. n -> 1 .. n]
  BY <1>8, <1>9
<1>11. QED
  BY <1>6, <1>9, <1>10 DEF m
=============================================================================
