------------------------ MODULE CompactDecoderProofs ------------------------
(***************************************************************************)
(* Proofs, for every sentence, every weight and every hash, that no table  *)
(* of the hash decoders is ever full, so that every probe ends, and that   *)
(* the compact decoder, which overwrites hypotheses in place, selects what *)
(* the reference decoder selects, which keeps them all; then that what a   *)
(* decoder selects has the highest score of all the ways to choose one     *)
(* candidate per token, and that the dense decoder, when it answers,       *)
(* answers what the hash decoder selects.                                  *)
(***************************************************************************)
EXTENDS CompactDecoder, TokenizerLemmas

(* The number of slots of a table whose slots are numbered from 0.         *)
LEMMA LengthIs ==
  ASSUME NEW n \in Nat, NEW table, DOMAIN table.slots = 0 .. n - 1
  PROVE  Length(table) = n /\ IsFiniteSet(DOMAIN table.slots)
BY FS_Interval DEF Length

(* A table is grown well before it is full, and growing makes room.        *)
LEMMA LoadLimitIs ==
  ASSUME NEW n \in Nat, n >= InitialSlots
  PROVE  /\ LoadLimit(n) \in Nat /\ LoadLimit(n) < n
         /\ LoadLimit(n) < LoadLimit(2 * n) /\ LoadLimit(n) > 0
BY DEF LoadLimit, InitialSlots

(* Probing visits every slot.                                              *)
LEMMA ProbeReaches ==
  ASSUME NEW n \in Nat \ {0}, NEW hash \in Nat
  PROVE  /\ \A k \in Nat : Probe(hash, n, k) \in 0 .. n - 1
         /\ \A slot \in 0 .. n - 1 : \E k \in 0 .. n - 1 : Probe(hash, n, k) = slot
<1> DEFINE r == hash % n
<1>1. \A x \in Nat : x % n \in 0 .. n - 1
  OBVIOUS
<1>2. r \in 0 .. n - 1
  BY <1>1
<1>3. \A x \in 0 .. n - 1 : x % n = x
  OBVIOUS
<1>4. \A x \in n .. 2 * n - 1 : x % n = x - n
  OBVIOUS
<1> HIDE DEF r
<1>5. ASSUME NEW k \in Nat PROVE (r + k) % n \in 0 .. n - 1
  BY <1>1, <1>2
<1>6. ASSUME NEW slot \in 0 .. n - 1 PROVE \E k \in 0 .. n - 1 : (r + k) % n = slot
  <2>1. CASE r <= slot
    <3>1. slot - r \in 0 .. n - 1 /\ r + (slot - r) = slot
      BY <1>2, <2>1
    <3>2. QED
      BY <1>3, <3>1
  <2>2. CASE slot < r
    <3>1. slot + n - r \in 0 .. n - 1 /\ r + (slot + n - r) = slot + n /\ slot + n \in n .. 2 * n - 1
      BY <1>2, <2>2
    <3>2. (slot + n) % n = slot
      BY <1>4, <3>1
    <3>3. QED
      BY <3>1, <3>2
  <2>3. QED
    BY <1>2, <2>1, <2>2
<1>7. QED
  BY <1>5, <1>6 DEF Probe, r

(* The slots below a bound that are not empty, in ascending order.         *)
Lists(pos, m, slots, j) ==
  /\ m \in Nat /\ pos \in [1 .. m -> 0 .. j - 1]
  /\ \A a, b \in 1 .. m : a < b => pos[a] < pos[b]
  /\ \A slot \in 0 .. j - 1 : slots[slot] # 0 <=> \E k \in 1 .. m : pos[k] = slot
  /\ Cardinality({slot \in 0 .. j - 1 : slots[slot] # 0}) = m

(* What is listed in a table.                                              *)
Listed(pos, m, slots) == [k \in 1 .. m |-> slots[pos[k]]]

OneMore(pos, m, j) == [k \in 1 .. m + 1 |-> IF k = m + 1 THEN j ELSE pos[k]]

(* One more slot is listed, or passed over.                                *)
LEMMA ListsOneMore ==
  ASSUME NEW j \in Nat, NEW slots, NEW m, NEW pos, Lists(pos, m, slots, j)
  PROVE  IF slots[j] = 0 THEN Lists(pos, m, slots, j + 1)
                         ELSE Lists(OneMore(pos, m, j), m + 1, slots, j + 1)
<1> DEFINE more == [k \in 1 .. m + 1 |-> IF k = m + 1 THEN j ELSE pos[k]]
           Used(b) == {slot \in 0 .. b - 1 : slots[slot] # 0}
<1>1. /\ m \in Nat /\ pos \in [1 .. m -> 0 .. j - 1]
      /\ \A a, b \in 1 .. m : a < b => pos[a] < pos[b]
      /\ \A slot \in 0 .. j - 1 : slots[slot] # 0 <=> \E k \in 1 .. m : pos[k] = slot
      /\ Cardinality(Used(j)) = m
  BY DEF Lists
<1>2. /\ j + 1 - 1 = j /\ j \in 0 .. j /\ j \notin 0 .. j - 1
      /\ \A slot \in 0 .. j : slot \in 0 .. j - 1 \/ slot = j
      /\ 0 .. j - 1 \subseteq 0 .. j
  OBVIOUS
<1>3. IsFiniteSet(Used(j)) /\ j \notin Used(j)
  <2>1. IsFiniteSet(0 .. j - 1) /\ Used(j) \subseteq 0 .. j - 1
    BY FS_Interval
  <2> HIDE DEF Used
  <2>2. QED
    BY <1>2, <2>1, FS_Subset
<1>4. CASE slots[j] = 0
  <2>1. Used(j + 1) = Used(j)
    BY <1>2, <1>4
  <2>2. pos \in [1 .. m -> 0 .. j]
    BY <1>1, <1>2
  <2>3. \A slot \in 0 .. j : slots[slot] # 0 <=> \E k \in 1 .. m : pos[k] = slot
    BY <1>1, <1>2, <1>4
  <2>4. Lists(pos, m, slots, j + 1)
    BY <1>1, <1>2, <2>1, <2>2, <2>3 DEF Lists
  <2>5. QED
    BY <1>4, <2>4
<1>5. CASE slots[j] # 0
  <2>1. Used(j + 1) = Used(j) \union {j}
    BY <1>2, <1>5
  <2>2. Cardinality(Used(j + 1)) = m + 1
    <3> HIDE DEF Used
    <3> QED BY <1>1, <1>3, <2>1, FS_AddElement
  <2>3. \A k \in 1 .. m + 1 : k = m + 1 \/ k \in 1 .. m
    BY <1>1
  <2>4. more \in [1 .. m + 1 -> 0 .. j]
    BY <1>1, <1>2, <2>3
  <2>5. m + 1 \in 1 .. m + 1 /\ more[m + 1] = j /\ \A k \in 1 .. m : k \in 1 .. m + 1 /\ more[k] = pos[k]
    BY <1>1
  <2> HIDE DEF more
  <2>6. ASSUME NEW a \in 1 .. m + 1, NEW b \in 1 .. m + 1, a < b PROVE more[a] < more[b]
    <3>1. a \in 1 .. m
      BY <1>1, <2>6
    <3>2. pos[a] \in 0 .. j - 1
      BY <1>1, <3>1
    <3>3. CASE b = m + 1
      BY <2>5, <3>1, <3>2, <3>3
    <3>4. CASE b \in 1 .. m
      BY <1>1, <2>5, <2>6, <3>1, <3>4
    <3>5. QED
      BY <2>3, <3>3, <3>4
  <2>7. ASSUME NEW slot \in 0 .. j PROVE slots[slot] # 0 <=> \E k \in 1 .. m + 1 : more[k] = slot
    <3>1. CASE slot = j
      BY <1>5, <2>5, <3>1
    <3>2. CASE slot \in 0 .. j - 1
      <4>1. slot # j
        BY <3>2
      <4>2. (\E k \in 1 .. m + 1 : more[k] = slot) <=> \E k \in 1 .. m : pos[k] = slot
        BY <2>3, <2>5, <4>1
      <4>3. QED
        BY <1>1, <3>2, <4>2
    <3>3. QED
      BY <1>2, <3>1, <3>2
  <2>8. Lists(more, m + 1, slots, j + 1)
    BY <1>1, <1>2, <2>2, <2>4, <2>6, <2>7 DEF Lists
  <2>9. QED
    BY <1>5, <2>8 DEF more, OneMore
<1>6. QED
  BY <1>4, <1>5

(* The recursion that InSlotOrder is chosen by has a solution.             *)
LEMMA InSlotOrderLaw ==
  ASSUME NEW n \in Nat, NEW table, Length(table) = n
  PROVE  \E upto :
           /\ upto[0] = <<>>
           /\ \A j \in 1 .. n : upto[j] = upto[j - 1] \o (IF table.slots[j - 1] = 0 THEN <<>>
                                                          ELSE <<table.slots[j - 1]>>)
           /\ InSlotOrder(table) = upto[n]
<1> DEFINE Step(x, j) == x \o (IF table.slots[j - 1] = 0 THEN <<>> ELSE <<table.slots[j - 1]>>)
           Law(f, b) == f = [j \in 0 .. b |-> IF j = 0 THEN <<>> ELSE Step(f[j - 1], j)]
           S == {b \in Nat : \E f : Law(f, b)}
<1> HIDE DEF Step
<1>1. 0 \in S
  <2>1. Law([j \in 0 .. 0 |-> <<>>], 0)
    OBVIOUS
  <2> HIDE DEF Law
  <2>2. QED
    BY <2>1
<1>2. ASSUME NEW b \in Nat, b \in S PROVE b + 1 \in S
  <2>1. PICK f : Law(f, b)
    BY <1>2
  <2> DEFINE g == [j \in 0 .. b + 1 |-> IF j = b + 1 THEN Step(f[b], b + 1) ELSE f[j]]
  <2>2. \A j \in 0 .. b : f[j] = IF j = 0 THEN <<>> ELSE Step(f[j - 1], j)
    BY <2>1
  <2>3. ASSUME NEW j \in 0 .. b + 1 PROVE g[j] = IF j = 0 THEN <<>> ELSE Step(g[j - 1], j)
    <3>1. CASE j = b + 1
      <4>1. j - 1 = b /\ b \in 0 .. b + 1 /\ b # b + 1 /\ j # 0
        BY <3>1
      <4>2. g[j - 1] = f[b] /\ g[j] = Step(f[b], b + 1)
        BY <3>1, <4>1
      <4>3. QED
        BY <3>1, <4>1, <4>2
    <3>2. CASE j # b + 1
      <4>1. j \in 0 .. b /\ g[j] = f[j]
        BY <3>2
      <4>2. j # 0 => j - 1 \in 0 .. b + 1 /\ j - 1 # b + 1 /\ g[j - 1] = f[j - 1]
        BY <4>1
      <4> HIDE DEF g
      <4>3. QED
        BY <2>2, <4>1, <4>2
    <3>3. QED
      BY <3>1, <3>2
  <2>4. Law(g, b + 1)
    <3>1. g = [j \in 0 .. b + 1 |-> g[j]]
      OBVIOUS
    <3> HIDE DEF g
    <3>2. QED
      BY <2>3, <3>1
  <2> HIDE DEF Law, g
  <2>5. QED
    BY <2>4
<1>3. n \in S
  <2> HIDE DEF S
  <2> QED BY <1>1, <1>2, NatSetInduction
<1> DEFINE upto == CHOOSE f : Law(f, n)
<1>4. Law(upto, n)
  <2>1. \E f : Law(f, n)
    BY <1>3
  <2> HIDE DEF Law
  <2>2. QED
    BY <2>1
<1>5. InSlotOrder(table) = upto[n]
  BY DEF InSlotOrder, Step
<1> HIDE DEF upto
<1>6. \A j \in 0 .. n : upto[j] = IF j = 0 THEN <<>> ELSE Step(upto[j - 1], j)
  BY <1>4
<1>7. upto[0] = <<>> /\ \A j \in 1 .. n : upto[j] = Step(upto[j - 1], j)
  BY <1>6
<1>8. QED
  BY <1>5, <1>7 DEF Step

(* Appending to what is listed the slot that comes next.                   *)
LEMMA ListedOneMore ==
  ASSUME NEW j \in Nat, NEW slots, \A slot \in 0 .. j : slots[slot] \in Nat,
         NEW m, NEW pos, Lists(pos, m, slots, j)
  PROVE  /\ Listed(pos, m, slots) \o <<>> = Listed(pos, m, slots)
         /\ Listed(pos, m, slots) \o <<slots[j]>> = Listed(OneMore(pos, m, j), m + 1, slots)
<1> DEFINE more == [k \in 1 .. m + 1 |-> IF k = m + 1 THEN j ELSE pos[k]]
           s == Listed(pos, m, slots)
           F == Listed(more, m + 1, slots)
<1>1. m \in Nat /\ \A k \in 1 .. m : pos[k] \in 0 .. j
  BY DEF Lists
<1>2. \A k \in 1 .. m : slots[pos[k]] \in Nat
  BY <1>1
<1>3. s \in Seq(Nat) /\ Len(s) = m
  BY <1>1, <1>2 DEF Listed
<1>4. slots[j] \in Nat
  OBVIOUS
<1>5. F[m + 1] = slots[j]
  BY <1>1 DEF Listed
<1>6. F \in [1 .. m + 1 -> Nat]
  <2>1. ASSUME NEW k \in 1 .. m + 1 PROVE slots[more[k]] \in Nat
    BY <1>1, <1>2, <1>4
  <2>2. QED
    BY <2>1 DEF Listed
<1>7. \A k \in 1 .. m : s[k] = F[k]
  BY <1>1 DEF Listed
<1> HIDE DEF s, F
<1>8. Append(s, F[m + 1]) = F
  BY <1>1, <1>3, <1>6, <1>7, AppendIs
<1>9. s \o <<slots[j]>> = F
  BY <1>3, <1>4, <1>5, <1>8, AppendIsConcat
<1>10. s \o <<>> = s
  BY <1>3, ConcatEmptySeq
<1>11. QED
  BY <1>9, <1>10 DEF s, F, OneMore

(* The same slots are empty in both tables.                                *)
SameUse(slots, others, n) ==
  /\ slots \in [0 .. n - 1 -> Nat] /\ others \in [0 .. n - 1 -> Nat]
  /\ \A slot \in 0 .. n - 1 : slots[slot] = 0 <=> others[slot] = 0

ReadAlike(table, other, n) ==
  \E m, pos : /\ Lists(pos, m, table.slots, n)
              /\ InSlotOrder(table) = Listed(pos, m, table.slots)
              /\ InSlotOrder(other) = Listed(pos, m, other.slots)

(* Two tables that use the same slots are read in the same order.          *)
LEMMA SlotOrders ==
  ASSUME NEW n \in Nat, NEW table, NEW other, SameUse(table.slots, other.slots, n)
  PROVE  ReadAlike(table, other, n)
<1>0. /\ table.slots \in [0 .. n - 1 -> Nat] /\ other.slots \in [0 .. n - 1 -> Nat]
      /\ \A slot \in 0 .. n - 1 : table.slots[slot] = 0 <=> other.slots[slot] = 0
  BY DEF SameUse
<1>1. Length(table) = n /\ Length(other) = n
  BY <1>0, LengthIs
<1>2. PICK f : /\ f[0] = <<>>
               /\ \A j \in 1 .. n : f[j] = f[j - 1] \o (IF table.slots[j - 1] = 0 THEN <<>>
                                                        ELSE <<table.slots[j - 1]>>)
               /\ InSlotOrder(table) = f[n]
  BY <1>1, InSlotOrderLaw
<1>3. PICK g : /\ g[0] = <<>>
               /\ \A j \in 1 .. n : g[j] = g[j - 1] \o (IF other.slots[j - 1] = 0 THEN <<>>
                                                        ELSE <<other.slots[j - 1]>>)
               /\ InSlotOrder(other) = g[n]
  BY <1>1, InSlotOrderLaw
<1> DEFINE Read(j, m, pos) == /\ Lists(pos, m, table.slots, j)
                              /\ f[j] = Listed(pos, m, table.slots)
                              /\ g[j] = Listed(pos, m, other.slots)
           S == {j \in Nat : j <= n => \E m, pos : Read(j, m, pos)}
<1>4. 0 \in S
  <2>1. {slot \in 0 .. 0 - 1 : table.slots[slot] # 0} = {}
    OBVIOUS
  <2>2. Lists(<<>>, 0, table.slots, 0)
    BY <2>1, FS_EmptySet DEF Lists
  <2>3. Listed(<<>>, 0, table.slots) = <<>> /\ Listed(<<>>, 0, other.slots) = <<>>
    BY DEF Listed
  <2>4. Read(0, 0, <<>>)
    BY <1>2, <1>3, <2>2, <2>3
  <2> HIDE DEF Read
  <2>5. QED
    BY <2>4
<1>5. ASSUME NEW j \in Nat, j + 1 <= n, NEW m, NEW pos, Read(j, m, pos)
      PROVE  \E m2, pos2 : Read(j + 1, m2, pos2)
  <2>1. j + 1 \in 1 .. n /\ (j + 1) - 1 = j /\ j \in 0 .. n - 1 /\ 0 .. j \subseteq 0 .. n - 1
    BY <1>5
  <2>2. IF table.slots[j] = 0 THEN Lists(pos, m, table.slots, j + 1)
                              ELSE Lists(OneMore(pos, m, j), m + 1, table.slots, j + 1)
    BY <1>5, ListsOneMore
  <2>3. /\ Listed(pos, m, table.slots) \o <<>> = Listed(pos, m, table.slots)
        /\ Listed(pos, m, table.slots) \o <<table.slots[j]>> = Listed(OneMore(pos, m, j), m + 1, table.slots)
    <3>1. Lists(pos, m, table.slots, j) /\ \A slot \in 0 .. j : table.slots[slot] \in Nat
      BY <1>0, <1>5, <2>1
    <3>2. QED
      BY ONLY <3>1, j \in Nat, ListedOneMore
  <2>4. Lists(pos, m, other.slots, j)
    <3>1. \A slot \in 0 .. j - 1 : slot \in 0 .. n - 1
      BY <2>1
    <3>2. {slot \in 0 .. j - 1 : table.slots[slot] # 0} = {slot \in 0 .. j - 1 : other.slots[slot] # 0}
      BY <1>0, <3>1
    <3>3. \A slot \in 0 .. j - 1 : table.slots[slot] # 0 <=> other.slots[slot] # 0
      BY <1>0, <3>1
    <3>4. QED
      BY <1>5, <3>2, <3>3 DEF Lists
  <2>5. /\ Listed(pos, m, other.slots) \o <<>> = Listed(pos, m, other.slots)
        /\ Listed(pos, m, other.slots) \o <<other.slots[j]>> = Listed(OneMore(pos, m, j), m + 1, other.slots)
    <3>1. \A slot \in 0 .. j : other.slots[slot] \in Nat
      BY <1>0, <2>1
    <3>2. j \in Nat /\ Lists(pos, m, other.slots, j)
      BY <2>4
    <3>3. QED
      BY ONLY <3>1, <3>2, ListedOneMore, SMTT(20)
  <2>6. /\ f[j + 1] = f[j] \o (IF table.slots[j] = 0 THEN <<>> ELSE <<table.slots[j]>>)
        /\ g[j + 1] = g[j] \o (IF other.slots[j] = 0 THEN <<>> ELSE <<other.slots[j]>>)
    BY <1>2, <1>3, <2>1
  <2>7. table.slots[j] = 0 <=> other.slots[j] = 0
    BY <1>0, <2>1
  <2>8. CASE table.slots[j] = 0
    <3>1. Read(j + 1, m, pos)
      BY <1>5, <2>2, <2>3, <2>5, <2>6, <2>7, <2>8
    <3> HIDE DEF Read
    <3>2. QED
      BY <3>1
  <2>9. CASE table.slots[j] # 0
    <3>1. Read(j + 1, m + 1, OneMore(pos, m, j))
      BY <1>5, <2>2, <2>3, <2>5, <2>6, <2>7, <2>9
    <3> HIDE DEF Read
    <3>2. QED
      BY <3>1
  <2>10. QED
    BY <2>8, <2>9
<1> HIDE DEF Read
<1>6. \A j \in Nat : j \in S => j + 1 \in S
  BY <1>5
<1>7. n \in S
  <2> HIDE DEF S
  <2> QED BY <1>4, <1>6, NatSetInduction
<1>8. PICK m, pos : Read(n, m, pos)
  BY <1>7
<1>9. QED
  BY <1>2, <1>3, <1>8 DEF Read, ReadAlike

(* One entry of the old table is put into the first empty slot of its      *)
(* probe sequence.                                                         *)
Slotted(slots, n, hash) == Probe(hash, n, Min({k \in 0 .. n - 1 : slots[Probe(hash, n, k)] = 0}))

(* The larger table is filled entry by entry, in the order of the slots.   *)
FilledFrom(table, hyps, order, m, n) ==
  \E placed :
     /\ placed[0] = [slot \in 0 .. 2 * n - 1 |-> 0]
     /\ \A j \in 1 .. m :
          placed[j] = [placed[j - 1] EXCEPT
                         ![Slotted(placed[j - 1], n, hyps[order[j]].hash)] = order[j]]
     /\ Rehashed(table, hyps) = placed[m]

(* The recursion that Rehashed is chosen by has a solution.                *)
LEMMA RehashedLaw ==
  ASSUME NEW n \in Nat, NEW m \in Nat, NEW table, NEW hyps, NEW order,
         Length(table) = n, InSlotOrder(table) = order, Len(order) = m
  PROVE  FilledFrom(table, hyps, order, m, n)
<1> DEFINE Base == [slot \in 0 .. 2 * n - 1 |-> 0]
           Step(x, j) == [x EXCEPT ![Slotted(x, n, hyps[order[j]].hash)] = order[j]]
           Law(f, b) == f = [j \in 0 .. b |-> IF j = 0 THEN Base ELSE Step(f[j - 1], j)]
           S == {b \in Nat : \E f : Law(f, b)}
<1> HIDE DEF Step, Base
<1>1. 0 \in S
  <2>1. Law([j \in 0 .. 0 |-> Base], 0)
    OBVIOUS
  <2> HIDE DEF Law
  <2>2. QED
    BY <2>1
<1>2. ASSUME NEW b \in Nat, b \in S PROVE b + 1 \in S
  <2>1. PICK f : Law(f, b)
    BY <1>2
  <2> DEFINE g == [j \in 0 .. b + 1 |-> IF j = b + 1 THEN Step(f[b], b + 1) ELSE f[j]]
  <2>2. \A j \in 0 .. b : f[j] = IF j = 0 THEN Base ELSE Step(f[j - 1], j)
    BY <2>1
  <2>3. ASSUME NEW j \in 0 .. b + 1 PROVE g[j] = IF j = 0 THEN Base ELSE Step(g[j - 1], j)
    <3>1. CASE j = b + 1
      <4>1. j - 1 = b /\ b \in 0 .. b + 1 /\ b # b + 1 /\ j # 0
        BY <3>1
      <4>2. g[j - 1] = f[b] /\ g[j] = Step(f[b], b + 1)
        BY <3>1, <4>1
      <4>3. QED
        BY <3>1, <4>1, <4>2
    <3>2. CASE j # b + 1
      <4>1. j \in 0 .. b /\ g[j] = f[j]
        BY <3>2
      <4>2. j # 0 => j - 1 \in 0 .. b + 1 /\ j - 1 # b + 1 /\ g[j - 1] = f[j - 1]
        BY <4>1
      <4> HIDE DEF g
      <4>3. QED
        BY <2>2, <4>1, <4>2
    <3>3. QED
      BY <3>1, <3>2
  <2>4. Law(g, b + 1)
    <3>1. g = [j \in 0 .. b + 1 |-> g[j]]
      OBVIOUS
    <3> HIDE DEF g
    <3>2. QED
      BY <2>3, <3>1
  <2> HIDE DEF Law, g
  <2>5. QED
    BY <2>4
<1>3. m \in S
  <2> HIDE DEF S
  <2> QED BY <1>1, <1>2, NatSetInduction
<1> DEFINE placed == CHOOSE f : Law(f, m)
<1>4. Law(placed, m)
  <2>1. \E f : Law(f, m)
    BY <1>3
  <2> HIDE DEF Law
  <2>2. QED
    BY <2>1
<1>5. Rehashed(table, hyps) = placed[m]
  BY DEF Rehashed, Step, Base, Slotted
<1> HIDE DEF placed
<1>6. \A j \in 0 .. m : placed[j] = IF j = 0 THEN Base ELSE Step(placed[j - 1], j)
  BY <1>4
<1>7. placed[0] = Base /\ \A j \in 1 .. m : placed[j] = Step(placed[j - 1], j)
  BY <1>6
<1>8. QED
  BY <1>5, <1>7 DEF Step, Base, FilledFrom

(* Which of the entries listed went to which slot of the larger table.     *)
Placed(origin, j, m, n) ==
  /\ origin \in [0 .. 2 * n - 1 -> 0 .. j]
  /\ \A slot \in 0 .. 2 * n - 1 : origin[slot] # 0 => slot \in 0 .. n - 1
  /\ \A a, b \in 0 .. 2 * n - 1 : origin[a] = origin[b] /\ origin[a] # 0 => a = b
  /\ \A k \in 1 .. j : \E slot \in 0 .. 2 * n - 1 : origin[slot] = k
  /\ Cardinality({slot \in 0 .. 2 * n - 1 : origin[slot] # 0}) <= j

(* The slots of the larger table.                                          *)
Moved(origin, n, order) ==
  [slot \in 0 .. 2 * n - 1 |-> IF origin[slot] = 0 THEN 0 ELSE order[origin[slot]]]

(* As long as fewer than n entries were placed, a probe finds an empty     *)
(* slot, so nothing is overwritten.                                        *)
LEMMA PlacedOneMore ==
  ASSUME NEW n \in Nat \ {0}, NEW m \in Nat, m <= n, NEW order, \A k \in 1 .. m : order[k] # 0,
         NEW j \in Nat, j + 1 <= m, NEW origin, Placed(origin, j, m, n), NEW hash \in Nat
  PROVE  LET at == Slotted(Moved(origin, n, order), n, hash)
         IN  Placed([origin EXCEPT ![at] = j + 1], j + 1, m, n)
<1> DEFINE slots == Moved(origin, n, order)
           at == Slotted(slots, n, hash)
           more == [origin EXCEPT ![at] = j + 1]
           Dom == 0 .. 2 * n - 1
           Used(o) == {slot \in Dom : o[slot] # 0}
<1>1. /\ origin \in [Dom -> 0 .. j]
      /\ \A slot \in Dom : origin[slot] # 0 => slot \in 0 .. n - 1
      /\ \A a, b \in Dom : origin[a] = origin[b] /\ origin[a] # 0 => a = b
      /\ \A k \in 1 .. j : \E slot \in Dom : origin[slot] = k
      /\ Cardinality(Used(origin)) <= j
  BY DEF Placed
<1>2. /\ 0 .. n - 1 \subseteq Dom /\ \A k \in 1 .. j : k \in 1 .. m /\ k \in Nat
      /\ \A x \in 0 .. j : x = 0 \/ x \in 1 .. j
  OBVIOUS
<1>3. \A slot \in Dom : slots[slot] = 0 <=> origin[slot] = 0
  BY <1>1, <1>2 DEF Moved
<1>4. IsFiniteSet(Dom) /\ IsFiniteSet(0 .. n - 1) /\ Cardinality(0 .. n - 1) = n
  <2>1. 0 \in Int /\ 2 * n - 1 \in Int /\ n - 1 \in Int /\ ~ (0 > n - 1) /\ n - 1 - 0 + 1 = n
    OBVIOUS
  <2>2. QED
    BY <2>1, FS_Interval
<1>5. IsFiniteSet(Used(origin)) /\ Cardinality(Used(origin)) \in Nat
  <2>1. Used(origin) \subseteq Dom
    OBVIOUS
  <2> HIDE DEF Used, Dom
  <2>2. QED
    BY <1>4, <2>1, FS_Subset, FS_CardinalityType
<1> HIDE DEF slots, Dom
<1>6. \E slot \in 0 .. n - 1 : slots[slot] = 0
  <2> SUFFICES ASSUME \A slot \in 0 .. n - 1 : slots[slot] # 0 PROVE FALSE
    OBVIOUS
  <2>1. 0 .. n - 1 \subseteq Used(origin)
    BY <1>2, <1>3
  <2> HIDE DEF Used
  <2>2. n <= Cardinality(Used(origin))
    BY <1>4, <1>5, <2>1, FS_Subset
  <2>3. QED
    BY <1>1, <1>5, <2>2
<1> DEFINE free == {k \in 0 .. n - 1 : slots[Probe(hash, n, k)] = 0}
<1>7. free # {} /\ free \in SUBSET Nat
  <2>1. \E k \in 0 .. n - 1 : slots[Probe(hash, n, k)] = 0
    <3>1. PICK slot \in 0 .. n - 1 : slots[slot] = 0
      BY <1>6
    <3>2. PICK k \in 0 .. n - 1 : Probe(hash, n, k) = slot
      BY ProbeReaches
    <3>3. QED
      BY <3>1, <3>2
  <2>2. QED
    BY <2>1
<1>8. Min(free) \in free
  <2> HIDE DEF free
  <2> QED BY <1>7, MinOfNaturals
<1>9. at = Probe(hash, n, Min(free))
  BY DEF Slotted
<1>10. at \in 0 .. n - 1 /\ slots[at] = 0
  BY <1>8, <1>9, ProbeReaches
<1> HIDE DEF at
<1>11. at \in Dom /\ origin[at] = 0
  BY <1>2, <1>3, <1>10
<1>12. \A slot \in Dom : more[slot] = IF slot = at THEN j + 1 ELSE origin[slot]
  BY <1>1
<1>13. more \in [Dom -> 0 .. j + 1]
  <2>1. \A slot \in Dom : more[slot] \in 0 .. j + 1
    BY <1>1, <1>12
  <2>2. more = [slot \in Dom |-> more[slot]]
    BY <1>1
  <2> HIDE DEF more
  <2>3. QED
    BY <2>1, <2>2
<1> HIDE DEF more
<1>14. \A slot \in Dom : more[slot] # 0 => slot \in 0 .. n - 1
  BY <1>1, <1>10, <1>12
<1>15. \A a, b \in Dom : more[a] = more[b] /\ more[a] # 0 => a = b
  <2>1. \A a \in Dom : origin[a] # j + 1
    BY <1>1
  <2>2. QED
    BY <1>1, <1>12, <2>1
<1>16. \A k \in 1 .. j + 1 : \E slot \in Dom : more[slot] = k
  <2>1. ASSUME NEW k \in 1 .. j + 1 PROVE \E slot \in Dom : more[slot] = k
    <3>1. CASE k = j + 1
      BY <1>11, <1>12, <3>1
    <3>2. CASE k # j + 1
      <4>1. k \in 1 .. j /\ k # 0
        BY <3>2
      <4>2. PICK slot \in Dom : origin[slot] = k
        BY <1>1, <4>1
      <4>3. slot # at
        BY <1>11, <4>1, <4>2
      <4>4. QED
        BY <1>12, <4>2, <4>3
    <3>3. QED
      BY <3>1, <3>2
  <2>2. QED
    BY <2>1
<1>17. Cardinality(Used(more)) <= j + 1
  <2>1. Used(more) = Used(origin) \union {at}
    BY <1>11, <1>12
  <2> HIDE DEF Used
  <2>2. Cardinality(Used(origin) \union {at}) <= Cardinality(Used(origin)) + 1
    BY <1>5, FS_AddElement
  <2>3. Cardinality(Used(origin) \union {at}) \in Nat
    BY <1>5, FS_AddElement, FS_CardinalityType
  <2>4. QED
    BY <1>1, <1>5, <2>1, <2>2, <2>3
<1>18. Placed(more, j + 1, m, n)
  BY <1>13, <1>14, <1>15, <1>16, <1>17 DEF Placed, Dom
<1>19. QED
  BY <1>18 DEF more, at, slots

(* Which of the old slots' entries went to which slot of the larger table; *)
(* n stands for none.                                                      *)
Resettles(source, n, table) ==
  /\ source \in [0 .. 2 * n - 1 -> 0 .. n]
  /\ \A slot \in 0 .. 2 * n - 1 : source[slot] # n => table.slots[source[slot]] # 0
  /\ \A a, b \in 0 .. 2 * n - 1 : source[a] = source[b] /\ source[a] # n => a = b
  /\ \A old \in 0 .. n - 1 : table.slots[old] # 0 => \E slot \in 0 .. 2 * n - 1 : source[slot] = old
  /\ Cardinality({slot \in 0 .. 2 * n - 1 : source[slot] # n}) <= Cardinality(Occupied(table))

Resettled(source, n, slots) ==
  [slot \in 0 .. 2 * n - 1 |-> IF source[slot] = n THEN 0 ELSE slots[source[slot]]]

(* Setting one more slot of the larger table is extending the record of    *)
(* the origins.                                                            *)
MovesOne(origin, n, order, j, at) ==
  [Moved(origin, n, order) EXCEPT ![at] = order[j + 1]]
    = Moved([origin EXCEPT ![at] = j + 1], n, order)

(* Placing one more entry extends the list of what was moved by one.       *)
LEMMA MovedOneMore ==
  ASSUME NEW n \in Nat, NEW j \in Nat, NEW order,
         NEW origin \in [0 .. 2 * n - 1 -> 0 .. j], NEW at
  PROVE  MovesOne(origin, n, order, j, at)
<1> DEFINE Dom == 0 .. 2 * n - 1
           more == [origin EXCEPT ![at] = j + 1]
<1> HIDE DEF Dom
<1>1. \A slot \in Dom : more[slot] = IF slot = at THEN j + 1 ELSE origin[slot]
  BY DEF Dom
<1>2. j + 1 # 0
  OBVIOUS
<1> HIDE DEF more
<1>3. \A slot \in Dom :
        (IF slot = at THEN order[j + 1] ELSE IF origin[slot] = 0 THEN 0 ELSE order[origin[slot]])
          = IF more[slot] = 0 THEN 0 ELSE order[more[slot]]
  BY <1>1, <1>2
<1>4. [Moved(origin, n, order) EXCEPT ![at] = order[j + 1]]
        = [slot \in Dom |-> IF slot = at THEN order[j + 1]
                            ELSE IF origin[slot] = 0 THEN 0 ELSE order[origin[slot]]]
  BY DEF Moved, Dom
<1>5. Moved(more, n, order) = [slot \in Dom |-> IF more[slot] = 0 THEN 0 ELSE order[more[slot]]]
  BY DEF Moved, Dom
<1>6. QED
  BY <1>3, <1>4, <1>5 DEF more, MovesOne

SameHashes(slots, others, n, hyps, hyps2) ==
  \A slot \in 0 .. n - 1 : slots[slot] # 0 =>
    /\ hyps[slots[slot]].hash \in Nat
    /\ hyps2[others[slot]].hash = hyps[slots[slot]].hash

RehashedAlike(table, other, hyps, hyps2, n) ==
  \E source : /\ Resettles(source, n, table)
              /\ Rehashed(table, hyps) = Resettled(source, n, table.slots)
              /\ Rehashed(other, hyps2) = Resettled(source, n, other.slots)

(* Growing loses no entry, duplicates none, and moves the entries of two   *)
(* tables that use the same slots for equal hashes alike.                  *)
LEMMA RehashedIs ==
  ASSUME NEW n \in Nat \ {0}, NEW table, NEW other, NEW hyps, NEW hyps2,
         SameUse(table.slots, other.slots, n), SameHashes(table.slots, other.slots, n, hyps, hyps2)
  PROVE  RehashedAlike(table, other, hyps, hyps2, n)
<1>0. /\ table.slots \in [0 .. n - 1 -> Nat] /\ other.slots \in [0 .. n - 1 -> Nat]
      /\ \A slot \in 0 .. n - 1 : table.slots[slot] = 0 <=> other.slots[slot] = 0
      /\ \A slot \in 0 .. n - 1 : table.slots[slot] # 0 =>
           /\ hyps[table.slots[slot]].hash \in Nat
           /\ hyps2[other.slots[slot]].hash = hyps[table.slots[slot]].hash
  BY DEF SameUse, SameHashes
<1>1. PICK m, pos : /\ Lists(pos, m, table.slots, n)
                    /\ InSlotOrder(table) = Listed(pos, m, table.slots)
                    /\ InSlotOrder(other) = Listed(pos, m, other.slots)
  <2>1. n \in Nat
    OBVIOUS
  <2>2. ReadAlike(table, other, n)
    BY ONLY <2>1, SameUse(table.slots, other.slots, n), SlotOrders
  <2>3. QED
    BY <2>2 DEF ReadAlike
<1> DEFINE order == Listed(pos, m, table.slots)
           order2 == Listed(pos, m, other.slots)
           Dom == 0 .. 2 * n - 1
<1>2. /\ m \in Nat /\ pos \in [1 .. m -> 0 .. n - 1]
      /\ \A a, b \in 1 .. m : a < b => pos[a] < pos[b]
      /\ \A slot \in 0 .. n - 1 : table.slots[slot] # 0 <=> \E k \in 1 .. m : pos[k] = slot
      /\ Cardinality({slot \in 0 .. n - 1 : table.slots[slot] # 0}) = m
  BY <1>1 DEF Lists
<1>3. Occupied(table) = {slot \in 0 .. n - 1 : table.slots[slot] # 0}
  BY <1>0 DEF Occupied
<1>4. Cardinality(Occupied(table)) = m /\ m <= n
  <2>1. 0 \in Int /\ n - 1 \in Int /\ ~ (0 > n - 1) /\ n - 1 - 0 + 1 = n
    OBVIOUS
  <2>2. IsFiniteSet(0 .. n - 1) /\ Cardinality(0 .. n - 1) = n
    BY <2>1, FS_Interval
  <2>3. Occupied(table) \in SUBSET (0 .. n - 1)
    BY <1>3
  <2>4. QED
    BY <1>2, <1>3, <2>2, <2>3, FS_Subset
<1>5. \A k \in 1 .. m : /\ order[k] = table.slots[pos[k]] /\ order2[k] = other.slots[pos[k]]
                        /\ order[k] # 0 /\ order2[k] # 0
                        /\ hyps[order[k]].hash \in Nat
                        /\ hyps2[order2[k]].hash = hyps[order[k]].hash
  <2>1. \A k \in 1 .. m : order[k] = table.slots[pos[k]] /\ order2[k] = other.slots[pos[k]]
    BY DEF Listed
  <2>2. \A k \in 1 .. m : pos[k] \in 0 .. n - 1 /\ table.slots[pos[k]] # 0
    BY <1>2
  <2> HIDE DEF order, order2
  <2>3. ASSUME NEW k \in 1 .. m
        PROVE  /\ order[k] # 0 /\ order2[k] # 0 /\ hyps[order[k]].hash \in Nat
               /\ hyps2[order2[k]].hash = hyps[order[k]].hash
    <3>1. /\ order[k] = table.slots[pos[k]] /\ order2[k] = other.slots[pos[k]]
          /\ pos[k] \in 0 .. n - 1 /\ table.slots[pos[k]] # 0
      BY <2>1, <2>2
    <3> DEFINE slot == pos[k]
    <3>2. slot \in 0 .. n - 1 /\ order[k] = table.slots[slot] /\ order2[k] = other.slots[slot]
          /\ table.slots[slot] # 0
      BY <3>1
    <3> HIDE DEF slot
    <3>3. other.slots[slot] # 0 /\ hyps[table.slots[slot]].hash \in Nat
          /\ hyps2[other.slots[slot]].hash = hyps[table.slots[slot]].hash
      BY <1>0, <3>2
    <3>4. QED
      BY <3>2, <3>3
  <2>4. QED
    BY <2>1, <2>3
<1>6. Len(order) = m /\ Len(order2) = m
  BY <1>2 DEF Listed
<1>7. Length(table) = n /\ Length(other) = n
  BY <1>0, LengthIs
<1> HIDE DEF order, order2
<1>8. PICK f : /\ f[0] = [slot \in 0 .. 2 * n - 1 |-> 0]
               /\ \A j \in 1 .. m :
                    f[j] = [f[j - 1] EXCEPT ![Slotted(f[j - 1], n, hyps[order[j]].hash)] = order[j]]
               /\ Rehashed(table, hyps) = f[m]
  <2>1. n \in Nat /\ m \in Nat /\ InSlotOrder(table) = order
    BY <1>1, <1>2 DEF order
  <2>2. FilledFrom(table, hyps, order, m, n)
    BY ONLY <2>1, <1>6, <1>7, RehashedLaw
  <2>3. QED
    BY <2>2 DEF FilledFrom
<1>9. PICK g : /\ g[0] = [slot \in 0 .. 2 * n - 1 |-> 0]
               /\ \A j \in 1 .. m :
                    g[j] = [g[j - 1] EXCEPT ![Slotted(g[j - 1], n, hyps2[order2[j]].hash)] = order2[j]]
               /\ Rehashed(other, hyps2) = g[m]
  <2>1. n \in Nat /\ m \in Nat /\ InSlotOrder(other) = order2
    BY <1>1, <1>2 DEF order2
  <2>2. FilledFrom(other, hyps2, order2, m, n)
    BY ONLY <2>1, <1>6, <1>7, RehashedLaw
  <2>3. QED
    BY <2>2 DEF FilledFrom
<1> DEFINE At(j, origin) == /\ Placed(origin, j, m, n)
                            /\ f[j] = Moved(origin, n, order)
                            /\ g[j] = Moved(origin, n, order2)
           S == {j \in Nat : j <= m => \E origin : At(j, origin)}
<1>10. 0 \in S
  <2> DEFINE none == [slot \in Dom |-> 0]
  <2>1. {slot \in Dom : none[slot] # 0} = {}
    OBVIOUS
  <2>2. Cardinality({slot \in Dom : none[slot] # 0}) = 0
    BY <2>1, FS_EmptySet
  <2>3. Placed(none, 0, m, n)
    BY <2>2 DEF Placed
  <2>4. Moved(none, n, order) = none /\ Moved(none, n, order2) = none
    BY DEF Moved
  <2>5. At(0, none)
    BY <1>8, <1>9, <2>3, <2>4
  <2> HIDE DEF At
  <2>6. QED
    BY <2>5
<1>11. ASSUME NEW j \in Nat, j + 1 <= m, NEW origin, At(j, origin)
       PROVE  \E origin2 : At(j + 1, origin2)
  <2> DEFINE hash == hyps[order[j + 1]].hash
             at == Slotted(f[j], n, hash)
             more == [origin EXCEPT ![at] = j + 1]
  <2>1. j + 1 \in 1 .. m /\ (j + 1) - 1 = j
    BY <1>11
  <2>2. hash \in Nat /\ hyps2[order2[j + 1]].hash = hash
    BY <1>5, <2>1
  <2>3. origin \in [Dom -> 0 .. j]
    BY <1>11 DEF Placed
  <2>4. Placed(more, j + 1, m, n)
    <3>1. \A k \in 1 .. m : order[k] # 0
      BY <1>5
    <3>2. Placed(origin, j, m, n) /\ f[j] = Moved(origin, n, order)
      BY <1>11
    <3>3. at = Slotted(Moved(origin, n, order), n, hash)
      BY <3>2
    <3> HIDE DEF hash, at
    <3>4. n \in Nat \ {0} /\ m \in Nat /\ m <= n /\ j \in Nat /\ j + 1 <= m /\ hash \in Nat
      BY <1>2, <1>4, <1>11, <2>2
    <3>5. Placed([origin EXCEPT ![Slotted(Moved(origin, n, order), n, hash)] = j + 1], j + 1, m, n)
      BY ONLY <3>1, <3>2, <3>4, PlacedOneMore
    <3>6. QED
      BY <3>3, <3>5
  <2>5. Slotted(g[j], n, hash) = at
    <3>1. \A slot \in Dom : f[j][slot] = 0 <=> g[j][slot] = 0
      <4>1. \A slot \in Dom : origin[slot] \in 1 .. m \/ origin[slot] = 0
        <5>1. \A x \in 0 .. j : x \in 1 .. m \/ x = 0
          BY <1>2, <1>11
        <5>2. QED
          BY <2>3, <5>1
      <4>2. f[j] = Moved(origin, n, order) /\ g[j] = Moved(origin, n, order2)
        BY <1>11
      <4>3. QED
        BY <1>5, <4>1, <4>2 DEF Moved
    <3>2. \A k \in 0 .. n - 1 : Probe(hash, n, k) \in Dom
      <4>1. \A k \in 0 .. n - 1 : k \in Nat
        OBVIOUS
      <4>2. \A slot \in 0 .. n - 1 : slot \in Dom
        OBVIOUS
      <4>3. n \in Nat \ {0}
        OBVIOUS
      <4> HIDE DEF hash, Dom
      <4>4. \A k \in Nat : Probe(hash, n, k) \in 0 .. n - 1
        BY ONLY <2>2, <4>3, ProbeReaches
      <4>5. QED
        BY <4>1, <4>2, <4>4
    <3>3. {k \in 0 .. n - 1 : f[j][Probe(hash, n, k)] = 0}
            = {k \in 0 .. n - 1 : g[j][Probe(hash, n, k)] = 0}
      BY <3>1, <3>2
    <3>4. QED
      BY <3>3 DEF Slotted
  <2>6. /\ f[j + 1] = [f[j] EXCEPT ![at] = order[j + 1]]
        /\ g[j + 1] = [g[j] EXCEPT ![at] = order2[j + 1]]
    BY <1>8, <1>9, <2>1, <2>2, <2>5
  <2>7. f[j + 1] = Moved(more, n, order) /\ g[j + 1] = Moved(more, n, order2)
    <3>1. f[j] = Moved(origin, n, order) /\ g[j] = Moved(origin, n, order2)
      BY <1>11
    <3>2. n \in Nat /\ j \in Nat /\ origin \in [0 .. 2 * n - 1 -> 0 .. j]
      BY <2>3
    <3> HIDE DEF at
    <3>3. MovesOne(origin, n, order, j, at) /\ MovesOne(origin, n, order2, j, at)
      BY ONLY <3>2, MovedOneMore
    <3>4. QED
      BY <2>6, <3>1, <3>3 DEF MovesOne
  <2> HIDE DEF more
  <2>8. At(j + 1, more)
    BY <2>4, <2>7
  <2> HIDE DEF At
  <2>9. QED
    BY <2>8
<1> HIDE DEF At
<1>12. \A j \in Nat : j \in S => j + 1 \in S
  <2>1. ASSUME NEW j \in Nat, j \in S, j + 1 <= m PROVE \E origin : At(j + 1, origin)
    <3>1. j <= m
      BY <1>2, <2>1
    <3>2. \E origin : At(j, origin)
      BY <2>1, <3>1
    <3>3. QED
      BY <1>11, <2>1, <3>2
  <2>2. QED
    BY <2>1
<1>13. m \in S
  <2> HIDE DEF S
  <2> QED BY <1>2, <1>10, <1>12, NatSetInduction
<1>14. PICK origin : At(m, origin)
  BY <1>2, <1>13
<1>15. /\ Placed(origin, m, m, n)
       /\ Rehashed(table, hyps) = Moved(origin, n, order)
       /\ Rehashed(other, hyps2) = Moved(origin, n, order2)
  BY <1>8, <1>9, <1>14 DEF At
<1> DEFINE source == [slot \in Dom |-> IF origin[slot] = 0 THEN n ELSE pos[origin[slot]]]
<1>16. /\ origin \in [Dom -> 0 .. m]
       /\ \A a, b \in Dom : origin[a] = origin[b] /\ origin[a] # 0 => a = b
       /\ \A k \in 1 .. m : \E slot \in Dom : origin[slot] = k
       /\ Cardinality({slot \in Dom : origin[slot] # 0}) <= m
  BY <1>15 DEF Placed
<1>17. \A slot \in Dom :
         \/ origin[slot] = 0 /\ source[slot] = n
         \/ /\ origin[slot] \in 1 .. m /\ origin[slot] # 0
            /\ source[slot] = pos[origin[slot]] /\ source[slot] \in 0 .. n - 1
            /\ source[slot] # n
  <2> SUFFICES ASSUME NEW slot \in Dom
               PROVE  \/ origin[slot] = 0 /\ source[slot] = n
                      \/ /\ origin[slot] \in 1 .. m /\ origin[slot] # 0
                         /\ source[slot] = pos[origin[slot]] /\ source[slot] \in 0 .. n - 1
                         /\ source[slot] # n
    OBVIOUS
  <2>1. source[slot] = IF origin[slot] = 0 THEN n ELSE pos[origin[slot]]
    OBVIOUS
  <2>2. origin[slot] \in 0 .. m
    BY <1>16
  <2>3. \A x \in 0 .. m : x # 0 => x \in 1 .. m
    BY <1>2
  <2>4. \A x \in 0 .. n - 1 : x # n
    OBVIOUS
  <2> HIDE DEF source, Dom
  <2>5. QED
    BY <1>2, <2>1, <2>2, <2>3, <2>4
<1> HIDE DEF Dom
<1>18. Resettled(source, n, table.slots) = Moved(origin, n, order)
       /\ Resettled(source, n, other.slots) = Moved(origin, n, order2)
  <2> HIDE DEF source
  <2>0. \A k \in 1 .. m : order[k] = table.slots[pos[k]] /\ order2[k] = other.slots[pos[k]]
    BY <1>5
  <2>1. \A slot \in Dom : (IF source[slot] = n THEN 0 ELSE table.slots[source[slot]])
                            = IF origin[slot] = 0 THEN 0 ELSE order[origin[slot]]
    BY ONLY <2>0, <1>17
  <2>2. \A slot \in Dom : (IF source[slot] = n THEN 0 ELSE other.slots[source[slot]])
                            = IF origin[slot] = 0 THEN 0 ELSE order2[origin[slot]]
    BY ONLY <2>0, <1>17
  <2>3. QED
    BY <2>1, <2>2 DEF Resettled, Moved, Dom
<1>19. source \in [Dom -> 0 .. n]
  <2>1. \A slot \in Dom : source[slot] \in 0 .. n
    BY <1>17
  <2>2. source = [slot \in Dom |-> source[slot]]
    OBVIOUS
  <2> HIDE DEF source
  <2>3. QED
    BY <2>1, <2>2
<1> HIDE DEF source
<1>20. \A a, b \in 1 .. m : pos[a] = pos[b] => a = b
  <2>1. \A a \in 1 .. m : pos[a] \in Nat
    BY <1>2
  <2>2. QED
    BY <1>2, <2>1
<1>21. Resettles(source, n, table)
  <2>1. \A slot \in Dom : source[slot] # n => table.slots[source[slot]] # 0
    <3>1. \A k \in 1 .. m : table.slots[pos[k]] # 0
      BY <1>5
    <3>2. QED
      BY ONLY <3>1, <1>17
  <2>2. \A a, b \in Dom : source[a] = source[b] /\ source[a] # n => a = b
    BY <1>16, <1>17, <1>20
  <2>3. ASSUME NEW old \in 0 .. n - 1, table.slots[old] # 0 PROVE \E slot \in Dom : source[slot] = old
    <3>1. PICK k \in 1 .. m : pos[k] = old
      BY <1>2, <2>3
    <3>2. PICK slot \in Dom : origin[slot] = k
      BY <1>16
    <3>3. k # 0
      OBVIOUS
    <3>4. QED
      BY <1>17, <3>1, <3>2, <3>3
  <2>4. {slot \in Dom : source[slot] # n} = {slot \in Dom : origin[slot] # 0}
    BY <1>17
  <2>5. QED
    BY <1>4, <1>16, <1>19, <2>1, <2>2, <2>3, <2>4 DEF Resettles, Dom
<1>22. QED
  BY <1>15, <1>18, <1>21 DEF RehashedAlike

(* No two slots hold the same entry.                                       *)
Distinct(slots, n) == \A a, b \in 0 .. n - 1 : slots[a] = slots[b] /\ slots[a] # 0 => a = b

(* What the two tables hold in one slot are hypotheses of this layer, and  *)
(* alike.                                                                  *)
EntryAlike(a, b, H, G, from, from2, Like) ==
  /\ a \in Nat /\ b \in Nat
  /\ a > from /\ a <= Len(H) /\ b > from2 /\ b <= Len(G)
  /\ <<H[a], G[b]>> \in Like

EntriesAlike(slots, others, n, H, G, from, from2, Like) ==
  \A slot \in 0 .. n - 1 :
    slots[slot] # 0 => EntryAlike(slots[slot], others[slot], H, G, from, from2, Like)

(* Alike hypotheses cannot be told apart by a table.                       *)
RelationOK(Like) ==
  \A h, g : <<h, g>> \in Like => /\ h.hash \in Nat /\ h.hash = g.hash
                                 /\ h.state = g.state /\ h.score = g.score

UsedOf(slots, n) == {slot \in 0 .. n - 1 : slots[slot] # 0}

(* What is true of the slots of two tables that hold alike entries.        *)
SlotsAlike(slots, others, n, H, G, from, from2, Like) ==
  /\ SameUse(slots, others, n)
  /\ Distinct(slots, n)
  /\ EntriesAlike(slots, others, n, H, G, from, from2, Like)

(* Growing keeps the entries of two tables alike.                          *)
LEMMA RehashKeeps ==
  ASSUME NEW n \in Nat \ {0}, NEW table, NEW other, NEW H, NEW G, NEW from \in Nat, NEW from2 \in Nat,
         NEW Like, RelationOK(Like),
         SlotsAlike(table.slots, other.slots, n, H, G, from, from2, Like)
  PROVE  /\ SlotsAlike(Rehashed(table, H), Rehashed(other, G), 2 * n, H, G, from, from2, Like)
         /\ Cardinality(UsedOf(Rehashed(table, H), 2 * n)) <= Cardinality(Occupied(table))
<1> DEFINE slots == table.slots
           others == other.slots
           Dom == 0 .. 2 * n - 1
<1>1. SameUse(slots, others, n) /\ Distinct(slots, n)
      /\ EntriesAlike(slots, others, n, H, G, from, from2, Like)
  BY DEF SlotsAlike
<1>2. /\ slots \in [0 .. n - 1 -> Nat] /\ others \in [0 .. n - 1 -> Nat]
      /\ \A slot \in 0 .. n - 1 : slots[slot] = 0 <=> others[slot] = 0
  BY <1>1 DEF SameUse
<1>3. SameHashes(slots, others, n, H, G)
  <2> SUFFICES ASSUME NEW slot \in 0 .. n - 1, slots[slot] # 0
               PROVE  H[slots[slot]].hash \in Nat /\ G[others[slot]].hash = H[slots[slot]].hash
    BY DEF SameHashes
  <2>1. <<H[slots[slot]], G[others[slot]]>> \in Like
    BY <1>1 DEF EntriesAlike, EntryAlike
  <2>2. QED
    BY <2>1 DEF RelationOK
<1>4. RehashedAlike(table, other, H, G, n)
  BY <1>1, <1>3, RehashedIs
<1> HIDE DEF slots, others
<1>5. PICK source : /\ Resettles(source, n, table)
                    /\ Rehashed(table, H) = Resettled(source, n, slots)
                    /\ Rehashed(other, G) = Resettled(source, n, others)
  BY <1>4 DEF RehashedAlike, slots, others
<1>6. /\ source \in [Dom -> 0 .. n]
      /\ \A slot \in Dom : source[slot] # n => slots[source[slot]] # 0
      /\ \A a, b \in Dom : source[a] = source[b] /\ source[a] # n => a = b
      /\ Cardinality({slot \in Dom : source[slot] # n}) <= Cardinality(Occupied(table))
  BY <1>5 DEF Resettles, slots
<1> DEFINE new == Resettled(source, n, slots)
           new2 == Resettled(source, n, others)
<1>7. \A slot \in Dom : /\ new[slot] = IF source[slot] = n THEN 0 ELSE slots[source[slot]]
                        /\ new2[slot] = IF source[slot] = n THEN 0 ELSE others[source[slot]]
  BY DEF Resettled
<1>8. \A slot \in Dom : source[slot] # n => source[slot] \in 0 .. n - 1
  <2>1. \A x \in 0 .. n : x # n => x \in 0 .. n - 1
    OBVIOUS
  <2> HIDE DEF Dom
  <2>2. QED
    BY <1>6, <2>1
<1>9. new = [slot \in Dom |-> new[slot]] /\ new2 = [slot \in Dom |-> new2[slot]]
  BY DEF Resettled
<1> HIDE DEF new, new2
<1>10. SameUse(new, new2, 2 * n)
  <2>1. ASSUME NEW slot \in Dom
        PROVE  new[slot] \in Nat /\ new2[slot] \in Nat /\ (new[slot] = 0 <=> new2[slot] = 0)
    <3>1. CASE source[slot] = n
      BY <1>7, <3>1
    <3>2. CASE source[slot] # n
      <4>1. source[slot] \in 0 .. n - 1 /\ new[slot] = slots[source[slot]] /\ new2[slot] = others[source[slot]]
        BY <1>7, <1>8, <3>2
      <4>2. QED
        BY <1>2, <4>1
    <3>3. QED
      BY <3>1, <3>2
  <2> HIDE DEF Dom
  <2>2. new \in [Dom -> Nat] /\ new2 \in [Dom -> Nat]
    BY <1>9, <2>1
  <2>3. QED
    BY <2>1, <2>2 DEF SameUse, Dom
<1> HIDE DEF Dom
<1>11. Distinct(new, 2 * n)
  <2>1. ASSUME NEW a \in Dom, NEW b \in Dom, new[a] = new[b], new[a] # 0 PROVE a = b
    <3>1. source[a] # n /\ source[b] # n
      BY <1>7, <2>1
    <3>2. slots[source[a]] = slots[source[b]] /\ slots[source[a]] # 0
          /\ source[a] \in 0 .. n - 1 /\ source[b] \in 0 .. n - 1
      BY <1>7, <1>8, <2>1, <3>1
    <3>3. source[a] = source[b]
      BY <1>1, <3>2 DEF Distinct
    <3>4. QED
      BY <1>6, <3>1, <3>3
  <2>2. QED
    BY <2>1 DEF Distinct, Dom
<1>12. EntriesAlike(new, new2, 2 * n, H, G, from, from2, Like)
  <2>1. ASSUME NEW slot \in Dom, new[slot] # 0
        PROVE  EntryAlike(new[slot], new2[slot], H, G, from, from2, Like)
    <3>1. source[slot] # n
      BY <1>7, <2>1
    <3>2. source[slot] \in 0 .. n - 1 /\ new[slot] = slots[source[slot]] /\ new2[slot] = others[source[slot]]
          /\ slots[source[slot]] # 0
      BY <1>6, <1>7, <1>8, <3>1
    <3>3. QED
      BY <1>1, <3>2 DEF EntriesAlike
  <2>2. QED
    BY <2>1 DEF EntriesAlike, Dom
<1>13. UsedOf(new, 2 * n) = {slot \in Dom : source[slot] # n}
  <2>1. \A slot \in Dom : new[slot] # 0 <=> source[slot] # n
    BY ONLY <1>6, <1>7
  <2>2. QED
    BY <2>1 DEF UsedOf, Dom
<1>14. QED
  BY <1>5, <1>6, <1>10, <1>11, <1>12, <1>13 DEF SlotsAlike, new, new2

(* The two tables, between calls or inside one, before they are grown.     *)
TablesAlike(t, u, n, H, G, from, from2, Like) ==
  /\ n \in Nat /\ n >= InitialSlots
  /\ t = [slots |-> t.slots, size |-> t.size] /\ u = [slots |-> u.slots, size |-> u.size]
  /\ t.size \in Nat /\ u.size = t.size /\ Cardinality(UsedOf(t.slots, n)) <= t.size
  /\ SlotsAlike(t.slots, u.slots, n, H, G, from, from2, Like)

(* Between calls a table is below its load limit.                          *)
Roomy(t, u, H, G, from, from2, Like) ==
  \E n : TablesAlike(t, u, n, H, G, from, from2, Like) /\ t.size < LoadLimit(n)

(* The slots of a table are as many as its domain has.                     *)
LEMMA TableLength ==
  ASSUME NEW t, NEW u, NEW n, NEW H, NEW G, NEW from, NEW from2, NEW Like,
         TablesAlike(t, u, n, H, G, from, from2, Like)
  PROVE  /\ Length(t) = n /\ Length(u) = n /\ Occupied(t) = UsedOf(t.slots, n)
         /\ DOMAIN t.slots = 0 .. n - 1 /\ DOMAIN u.slots = 0 .. n - 1
         /\ Occupied(u) = Occupied(t)
<1>1. n \in Nat /\ SameUse(t.slots, u.slots, n)
  BY DEF TablesAlike, SlotsAlike
<1>2. /\ DOMAIN t.slots = 0 .. n - 1 /\ DOMAIN u.slots = 0 .. n - 1
      /\ \A slot \in 0 .. n - 1 : t.slots[slot] = 0 <=> u.slots[slot] = 0
  BY <1>1 DEF SameUse
<1>3. Length(t) = n /\ Length(u) = n
  BY <1>1, <1>2, LengthIs
<1>4. QED
  BY <1>2, <1>3 DEF Occupied, UsedOf

(* Growth is decided alike and leaves room.                                *)
LEMMA ExpandAlike ==
  ASSUME NEW t, NEW u, NEW n, NEW H, NEW G, NEW from \in Nat, NEW from2 \in Nat,
         NEW Like, RelationOK(Like),
         TablesAlike(t, u, n, H, G, from, from2, Like), t.size <= LoadLimit(n)
  PROVE  Roomy(Expand(t, H), Expand(u, G), H, G, from, from2, Like)
<1>1. Length(t) = n /\ Length(u) = n /\ Occupied(t) = UsedOf(t.slots, n)
  BY TableLength
<1>2. n \in Nat /\ n >= InitialSlots /\ t.size \in Nat /\ u.size = t.size
      /\ Cardinality(UsedOf(t.slots, n)) <= t.size
      /\ SlotsAlike(t.slots, u.slots, n, H, G, from, from2, Like)
      /\ t = [slots |-> t.slots, size |-> t.size] /\ u = [slots |-> u.slots, size |-> u.size]
  BY DEF TablesAlike
<1>3. LoadLimit(n) \in Nat /\ LoadLimit(n) < LoadLimit(2 * n) /\ n \in Nat \ {0}
      /\ 2 * n \in Nat /\ 2 * n >= InitialSlots
  BY <1>2, LoadLimitIs DEF InitialSlots
<1>4. CASE t.size = LoadLimit(n)
  <2> DEFINE slots == Rehashed(t, H)
             others == Rehashed(u, G)
  <2>1. Expand(t, H) = [slots |-> slots, size |-> t.size] /\ Expand(u, G) = [slots |-> others, size |-> t.size]
    <3>1. Expand(t, H) = [t EXCEPT !.slots = slots] /\ Expand(u, G) = [u EXCEPT !.slots = others]
      BY <1>1, <1>2, <1>4 DEF Expand
    <3> HIDE DEF slots, others
    <3>2. QED
      BY <1>2, <3>1
  <2>2. SlotsAlike(slots, others, 2 * n, H, G, from, from2, Like)
        /\ Cardinality(UsedOf(slots, 2 * n)) <= Cardinality(Occupied(t))
    BY <1>2, <1>3, RehashKeeps
  <2> HIDE DEF slots, others
  <2> DEFINE new == Expand(t, H)
             new2 == Expand(u, G)
  <2>3. new.slots = slots /\ new2.slots = others /\ new.size = t.size /\ new2.size = t.size
        /\ new = [slots |-> new.slots, size |-> new.size] /\ new2 = [slots |-> new2.slots, size |-> new2.size]
    BY <2>1
  <2> HIDE DEF new, new2
  <2>4. Cardinality(UsedOf(slots, 2 * n)) <= t.size
    <3>1. SameUse(slots, others, 2 * n)
      BY <2>2 DEF SlotsAlike
    <3>2. IsFiniteSet(UsedOf(slots, 2 * n)) /\ IsFiniteSet(UsedOf(t.slots, n))
      <4>1. IsFiniteSet(0 .. 2 * n - 1) /\ IsFiniteSet(0 .. n - 1)
        <5>1. 0 \in Int /\ 2 * n - 1 \in Int /\ n - 1 \in Int
          BY <1>3
        <5>2. QED
          BY ONLY <5>1, FS_Interval
      <4>2. UsedOf(slots, 2 * n) \subseteq 0 .. 2 * n - 1 /\ UsedOf(t.slots, n) \subseteq 0 .. n - 1
        BY DEF UsedOf
      <4>3. QED
        BY <4>1, <4>2, FS_Subset
    <3>3. Cardinality(UsedOf(slots, 2 * n)) \in Nat /\ Cardinality(UsedOf(t.slots, n)) \in Nat
      BY <3>2, FS_CardinalityType
    <3>4. QED
      BY <1>1, <1>2, <2>2, <3>3
  <2>5. TablesAlike(new, new2, 2 * n, H, G, from, from2, Like) /\ new.size < LoadLimit(2 * n)
    BY <1>2, <1>3, <1>4, <2>2, <2>3, <2>4 DEF TablesAlike
  <2>6. QED
    BY <2>5 DEF Roomy, new, new2
<1>5. CASE t.size # LoadLimit(n)
  <2>1. Expand(t, H) = t /\ Expand(u, G) = u
    BY <1>1, <1>2, <1>5 DEF Expand
  <2>2. t.size < LoadLimit(n)
    BY <1>2, <1>3, <1>5
  <2>3. QED
    BY <2>1, <2>2 DEF Roomy
<1>6. QED
  BY <1>4, <1>5

(* A table between calls has an empty slot.                                *)
LEMMA HasRoom ==
  ASSUME NEW t, NEW u, NEW n, NEW H, NEW G, NEW from, NEW from2, NEW Like,
         TablesAlike(t, u, n, H, G, from, from2, Like), t.size < LoadLimit(n)
  PROVE  /\ \E empty \in 0 .. n - 1 : t.slots[empty] = 0
         /\ Occupied(t) # DOMAIN t.slots /\ Occupied(u) # DOMAIN u.slots
<1>1. /\ Occupied(t) = UsedOf(t.slots, n) /\ Occupied(u) = Occupied(t)
      /\ DOMAIN t.slots = 0 .. n - 1 /\ DOMAIN u.slots = 0 .. n - 1
  BY TableLength
<1>2. /\ n \in Nat /\ n >= InitialSlots /\ t.size \in Nat
      /\ Cardinality(UsedOf(t.slots, n)) <= t.size
  BY DEF TablesAlike
<1>3. n \in Nat \ {0} /\ LoadLimit(n) \in Nat /\ LoadLimit(n) < n
  BY <1>2, LoadLimitIs DEF InitialSlots
<1> DEFINE Dom == 0 .. n - 1
<1>4. UsedOf(t.slots, n) # Dom
  <2> SUFFICES ASSUME UsedOf(t.slots, n) = Dom PROVE FALSE
    OBVIOUS
  <2>1. 0 \in Int /\ n - 1 \in Int /\ ~ (0 > n - 1) /\ n - 1 - 0 + 1 = n
    BY <1>3
  <2>2. Cardinality(Dom) = n
    BY <2>1, FS_Interval
  <2> HIDE DEF Dom
  <2>3. QED
    BY <1>2, <1>3, <2>2
<1>5. \E empty \in Dom : t.slots[empty] = 0
  <2>1. UsedOf(t.slots, n) \subseteq Dom
    BY DEF UsedOf
  <2>2. QED
    BY <1>4, <2>1 DEF UsedOf
<1>6. QED
  BY <1>1, <1>4, <1>5

(* So every probe ends, and both tables end it in the same slot.           *)
LEMMA LocateAlike ==
  ASSUME NEW t, NEW u, NEW n, NEW H, NEW G, NEW from, NEW from2,
         NEW Like, RelationOK(Like),
         TablesAlike(t, u, n, H, G, from, from2, Like), t.size < LoadLimit(n),
         NEW h, NEW g, <<h, g>> \in Like
  PROVE  /\ Locate(u, G, g) = Locate(t, H, h) /\ Locate(t, H, h) \in 0 .. n - 1
         /\ \/ t.slots[Locate(t, H, h)] = 0
            \/ H[t.slots[Locate(t, H, h)]].state = h.state
<1>1. /\ Length(t) = n /\ Length(u) = n /\ Occupied(t) = UsedOf(t.slots, n)
      /\ DOMAIN t.slots = 0 .. n - 1
  BY TableLength
<1>2. /\ n \in Nat /\ n >= InitialSlots /\ t.size \in Nat
      /\ Cardinality(UsedOf(t.slots, n)) <= t.size
      /\ SameUse(t.slots, u.slots, n) /\ EntriesAlike(t.slots, u.slots, n, H, G, from, from2, Like)
  BY DEF TablesAlike, SlotsAlike
<1>3. n \in Nat \ {0} /\ LoadLimit(n) \in Nat /\ LoadLimit(n) < n
  BY <1>2, LoadLimitIs DEF InitialSlots
<1>4. h.hash \in Nat /\ h.hash = g.hash /\ h.state = g.state
  BY DEF RelationOK
<1> DEFINE Dom == 0 .. n - 1
           hash == h.hash
           Stops(k) == t.slots[Probe(hash, n, k)] = 0 \/ H[t.slots[Probe(hash, n, k)]].state = h.state
           free == {k \in Dom : Stops(k)}
<1>6. PICK empty \in Dom : t.slots[empty] = 0
  BY HasRoom
<1>7. /\ \A k \in Dom : Probe(hash, n, k) \in Dom
      /\ \E k \in Dom : Probe(hash, n, k) = empty
  <2>1. \A k \in Dom : k \in Nat
    BY <1>3
  <2>2. hash \in Nat
    BY <1>4
  <2> HIDE DEF hash
  <2>3. (\A k \in Nat : Probe(hash, n, k) \in 0 .. n - 1)
        /\ \A slot \in 0 .. n - 1 : \E k \in 0 .. n - 1 : Probe(hash, n, k) = slot
    BY ONLY <1>3, <2>2, ProbeReaches
  <2>4. QED
    BY <1>6, <2>1, <2>3
<1>8. Min(free) \in free
  <2>1. free # {}
    BY <1>6, <1>7
  <2>2. free \in SUBSET Nat
    BY <1>3
  <2> HIDE DEF free
  <2>3. QED
    BY <2>1, <2>2, MinOfNaturals
<1>9. Locate(t, H, h) = Probe(hash, n, Min(free))
  BY <1>1 DEF Locate
<1>10. free = {k \in Dom : u.slots[Probe(g.hash, n, k)] = 0
                          \/ G[u.slots[Probe(g.hash, n, k)]].state = g.state}
  <2> SUFFICES ASSUME NEW k \in Dom
               PROVE  Stops(k) <=> \/ u.slots[Probe(hash, n, k)] = 0
                                   \/ G[u.slots[Probe(hash, n, k)]].state = h.state
    BY <1>4
  <2> DEFINE slot == Probe(hash, n, k)
  <2>1. slot \in 0 .. n - 1
    BY <1>7
  <2> HIDE DEF slot
  <2>2. t.slots[slot] = 0 <=> u.slots[slot] = 0
    BY <1>2, <2>1 DEF SameUse
  <2>3. t.slots[slot] # 0 => <<H[t.slots[slot]], G[u.slots[slot]]>> \in Like
    BY <1>2, <2>1 DEF EntriesAlike, EntryAlike
  <2>4. t.slots[slot] # 0 => H[t.slots[slot]].state = G[u.slots[slot]].state
    BY <2>3 DEF RelationOK
  <2>5. QED
    BY <2>2, <2>4 DEF slot
<1>11. Locate(u, G, g) = Probe(g.hash, n, Min(free))
  BY <1>1, <1>10 DEF Locate
<1>12. QED
  BY <1>1, <1>4, <1>7, <1>8, <1>9, <1>11

PutsAlike(slots, others, n, at, a, b, H, G, from, from2, Like) ==
  /\ SlotsAlike([slots EXCEPT ![at] = a], [others EXCEPT ![at] = b], n, H, G, from, from2, Like)
  /\ UsedOf([slots EXCEPT ![at] = a], n) = UsedOf(slots, n) \union {at}

(* Alike entries are put into the same slot of both tables.                *)
LEMMA PutAlike ==
  ASSUME NEW n \in Nat, NEW slots, NEW others, NEW H, NEW G, NEW H2, NEW G2,
         NEW from \in Nat, NEW from2 \in Nat, NEW Like,
         SlotsAlike(slots, others, n, H, G, from, from2, Like),
         NEW at \in 0 .. n - 1, NEW a, NEW b,
         EntryAlike(a, b, H2, G2, from, from2, Like),
         \A slot \in 0 .. n - 1 : slot # at /\ slots[slot] # 0 =>
           slots[slot] # a /\ EntryAlike(slots[slot], others[slot], H2, G2, from, from2, Like)
  PROVE  PutsAlike(slots, others, n, at, a, b, H2, G2, from, from2, Like)
<1> DEFINE Dom == 0 .. n - 1
           new == [slots EXCEPT ![at] = a]
           new2 == [others EXCEPT ![at] = b]
<1> HIDE DEF Dom
<1>1. /\ slots \in [Dom -> Nat] /\ others \in [Dom -> Nat]
      /\ \A slot \in Dom : slots[slot] = 0 <=> others[slot] = 0
      /\ \A c, d \in Dom : slots[c] = slots[d] /\ slots[c] # 0 => c = d
  BY DEF SlotsAlike, SameUse, Distinct, Dom
<1>2. a \in Nat /\ b \in Nat /\ a # 0 /\ b # 0 /\ at \in Dom
  BY DEF EntryAlike, Dom
<1>3. \A slot \in Dom : /\ new[slot] = IF slot = at THEN a ELSE slots[slot]
                        /\ new2[slot] = IF slot = at THEN b ELSE others[slot]
  BY <1>1
<1>4. new \in [Dom -> Nat] /\ new2 \in [Dom -> Nat]
  BY <1>1, <1>2
<1> HIDE DEF new, new2
<1>5. SameUse(new, new2, n)
  <2>1. \A slot \in Dom : new[slot] = 0 <=> new2[slot] = 0
    BY <1>1, <1>2, <1>3
  <2>2. QED
    BY <1>4, <2>1 DEF SameUse, Dom
<1>6. \A slot \in Dom : slot # at /\ slots[slot] # 0 =>
        slots[slot] # a /\ EntryAlike(slots[slot], others[slot], H2, G2, from, from2, Like)
  BY DEF Dom
<1>7. Distinct(new, n)
  <2>1. \A c, d \in Dom : new[c] = new[d] /\ new[c] # 0 => c = d
    BY <1>1, <1>3, <1>6
  <2>2. QED
    BY <2>1 DEF Distinct, Dom
<1>8. EntriesAlike(new, new2, n, H2, G2, from, from2, Like)
  <2>1. \A slot \in Dom : new[slot] # 0 => EntryAlike(new[slot], new2[slot], H2, G2, from, from2, Like)
    BY <1>3, <1>6
  <2>2. QED
    BY <2>1 DEF EntriesAlike, Dom
<1>9. UsedOf(new, n) = UsedOf(slots, n) \union {at}
  <2>1. \A slot \in Dom : new[slot] # 0 <=> slots[slot] # 0 \/ slot = at
    BY <1>2, <1>3
  <2>2. QED
    BY <1>2, <2>1 DEF UsedOf, Dom
<1>10. QED
  BY <1>5, <1>7, <1>8, <1>9 DEF PutsAlike, SlotsAlike, new, new2

(* A layer leaves the hypotheses of the layers before as they were.        *)
Keeps(hyps, base) == Len(base) <= Len(hyps) /\ \A i \in 1 .. Len(base) : hyps[i] = base[i]

(* The two decoders inside a layer: c is the compact one, r the reference. *)
Parallel(c, r, base, base2, S, S2, Like) ==
  /\ c.hypotheses \in Seq(S) /\ r.hypotheses \in Seq(S2)
  /\ Keeps(c.hypotheses, base) /\ Keeps(r.hypotheses, base2)
  /\ Roomy(c.table, r.table, c.hypotheses, r.hypotheses, Len(base), Len(base2), Like)

(* What appending leaves and adds.                                         *)
LEMMA AppendKeeps ==
  ASSUME NEW S, NEW H \in Seq(S), NEW h \in S, NEW base, Len(base) \in Nat, Keeps(H, base)
  PROVE  /\ Append(H, h) \in Seq(S) /\ Len(H) \in Nat /\ Len(Append(H, h)) = Len(H) + 1
         /\ Append(H, h)[Len(H) + 1] = h /\ \A i \in 1 .. Len(H) : Append(H, h)[i] = H[i]
         /\ Keeps(Append(H, h), base) /\ Len(base) <= Len(H)
<1>1. /\ Append(H, h) \in Seq(S) /\ Len(H) \in Nat /\ Len(Append(H, h)) = Len(H) + 1
      /\ Append(H, h)[Len(H) + 1] = h /\ \A i \in 1 .. Len(H) : Append(H, h)[i] = H[i]
  OBVIOUS
<1>2. Len(base) <= Len(H) /\ \A i \in 1 .. Len(base) : H[i] = base[i]
  BY DEF Keeps
<1>3. \A i \in 1 .. Len(base) : i \in 1 .. Len(H)
  BY <1>1, <1>2
<1> DEFINE new == Append(H, h)
<1> HIDE DEF new
<1>4. Keeps(new, base)
  <2>1. Len(new) = Len(H) + 1 /\ Len(H) \in Nat /\ \A i \in 1 .. Len(H) : new[i] = H[i]
    BY <1>1 DEF new
  <2>2. Len(base) <= Len(new)
    BY <1>2, <2>1
  <2>3. \A i \in 1 .. Len(base) : new[i] = base[i]
    BY <1>2, <1>3, <2>1
  <2>4. QED
    BY <2>2, <2>3 DEF Keeps
<1>5. QED
  BY <1>1, <1>2, <1>4 DEF new

(* What overwriting a hypothesis of this layer leaves and adds.            *)
LEMMA ReplaceKeeps ==
  ASSUME NEW S, NEW H \in Seq(S), NEW h \in S, NEW base, Len(base) \in Nat, Keeps(H, base),
         NEW index \in Nat, index > Len(base), index <= Len(H)
  PROVE  /\ [H EXCEPT ![index] = h] \in Seq(S) /\ Len([H EXCEPT ![index] = h]) = Len(H)
         /\ \A i \in 1 .. Len(H) : [H EXCEPT ![index] = h][i] = IF i = index THEN h ELSE H[i]
         /\ Keeps([H EXCEPT ![index] = h], base)
<1> DEFINE new == [H EXCEPT ![index] = h]
<1>1. Len(H) \in Nat /\ H \in [1 .. Len(H) -> S]
  OBVIOUS
<1>2. \A i \in 1 .. Len(H) : new[i] = IF i = index THEN h ELSE H[i]
  BY <1>1
<1>3. new \in Seq(S) /\ Len(new) = Len(H)
  OBVIOUS
<1> HIDE DEF new
<1>4. Len(base) <= Len(H) /\ \A i \in 1 .. Len(base) : H[i] = base[i]
  BY DEF Keeps
<1>5. \A i \in 1 .. Len(base) : i \in 1 .. Len(H) /\ i # index
  BY <1>1, <1>4
<1>6. Keeps(new, base)
  BY <1>2, <1>3, <1>4, <1>5 DEF Keeps
<1>7. QED
  BY <1>2, <1>3, <1>6 DEF new

(* The entry stays what it is when its hypotheses are left alone.          *)
LEMMA EntryStays ==
  ASSUME NEW a, NEW b, NEW H, NEW G, NEW H2, NEW G2, NEW from, NEW from2, NEW Like,
         from \in Nat, from2 \in Nat, Len(H) \in Nat, Len(G) \in Nat, Len(H2) \in Nat, Len(G2) \in Nat,
         EntryAlike(a, b, H, G, from, from2, Like),
         Len(H) <= Len(H2), Len(G) <= Len(G2),
         a \in 1 .. Len(H) => H2[a] = H[a], b \in 1 .. Len(G) => G2[b] = G[b]
  PROVE  EntryAlike(a, b, H2, G2, from, from2, Like)
<1>1. a \in Nat /\ b \in Nat /\ a > from /\ a <= Len(H) /\ b > from2 /\ b <= Len(G)
      /\ <<H[a], G[b]>> \in Like
  BY DEF EntryAlike
<1>2. a \in 1 .. Len(H) /\ b \in 1 .. Len(G) /\ a <= Len(H2) /\ b <= Len(G2)
  BY <1>1
<1>3. QED
  BY <1>1, <1>2 DEF EntryAlike

(* One transition of each: the compact decoder overwrites, the reference   *)
(* pushes and moves the slot.                                              *)
LEMMA StepAlike ==
  ASSUME NEW S, NEW S2, NEW Like, RelationOK(Like), NEW base, NEW base2,
         Len(base) \in Nat, Len(base2) \in Nat, NEW c, NEW r,
         Parallel(c, r, base, base2, S, S2, Like), NEW h \in S, NEW g \in S2, <<h, g>> \in Like
  PROVE  Parallel(AddCandidate(c.table, c.hypotheses, h), Add(r.table, r.hypotheses, g),
                  base, base2, S, S2, Like)
<1> DEFINE t == c.table
           u == r.table
           H == c.hypotheses
           G == r.hypotheses
           from == Len(base)
           from2 == Len(base2)
<1>1. H \in Seq(S) /\ G \in Seq(S2) /\ Keeps(H, base) /\ Keeps(G, base2)
      /\ Roomy(t, u, H, G, from, from2, Like)
  BY DEF Parallel
<1>2. PICK n : TablesAlike(t, u, n, H, G, from, from2, Like) /\ t.size < LoadLimit(n)
  BY <1>1 DEF Roomy
<1>3. from \in Nat /\ from2 \in Nat /\ Len(H) \in Nat /\ Len(G) \in Nat
      /\ from <= Len(H) /\ from2 <= Len(G)
  BY <1>1 DEF Keeps
<1> DEFINE at == Locate(t, H, h)
           index == t.slots[at]
           index2 == u.slots[at]
           pushed == Append(G, g)
<1> HIDE DEF t, u, H, G, from, from2
<1>4. Locate(u, G, g) = at /\ at \in 0 .. n - 1
  BY <1>2, LocateAlike
<1>5. /\ Length(t) = n /\ Length(u) = n
      /\ DOMAIN t.slots = 0 .. n - 1 /\ DOMAIN u.slots = 0 .. n - 1
  BY <1>2, TableLength
<1>6. /\ n \in Nat /\ n >= InitialSlots
      /\ t = [slots |-> t.slots, size |-> t.size] /\ u = [slots |-> u.slots, size |-> u.size]
      /\ t.size \in Nat /\ u.size = t.size /\ Cardinality(UsedOf(t.slots, n)) <= t.size
      /\ SlotsAlike(t.slots, u.slots, n, H, G, from, from2, Like)
  BY <1>2 DEF TablesAlike
<1>7. LoadLimit(n) \in Nat
  BY <1>6, LoadLimitIs
<1> HIDE DEF at
<1>8. /\ index \in Nat /\ index2 \in Nat /\ (index = 0 <=> index2 = 0)
      /\ \A slot \in 0 .. n - 1 : t.slots[slot] = t.slots[at] /\ t.slots[slot] # 0 => slot = at
      /\ \A slot \in 0 .. n - 1 : t.slots[slot] # 0 =>
           EntryAlike(t.slots[slot], u.slots[slot], H, G, from, from2, Like)
  BY <1>4, <1>6 DEF SlotsAlike, SameUse, Distinct, EntriesAlike
<1>9. h.score = g.score
  BY DEF RelationOK
<1>10. /\ pushed \in Seq(S2) /\ Len(pushed) = Len(G) + 1 /\ pushed[Len(G) + 1] = g
       /\ \A i \in 1 .. Len(G) : pushed[i] = G[i]
       /\ Keeps(pushed, base2)
  BY <1>1, <1>3, AppendKeeps
<1> HIDE DEF pushed, index, index2
<1>11. CASE index = 0
  <2> DEFINE H2 == Append(H, h)
             new == [slots |-> [t.slots EXCEPT ![at] = Len(H) + 1], size |-> t.size + 1]
             new2 == [slots |-> [u.slots EXCEPT ![at] = Len(G) + 1], size |-> u.size + 1]
  <2>1. /\ H2 \in Seq(S) /\ Len(H2) = Len(H) + 1 /\ H2[Len(H) + 1] = h
        /\ \A i \in 1 .. Len(H) : H2[i] = H[i]
        /\ Keeps(H2, base)
    BY <1>1, <1>3, AppendKeeps
  <2>2. AddCandidate(t, H, h) = [hypotheses |-> H2, table |-> Expand(new, H2)]
    BY <1>11 DEF AddCandidate, InsertCandidate, at, index
  <2>3. Add(u, G, g) = [hypotheses |-> pushed, table |-> Expand(new2, pushed)]
    BY <1>4, <1>8, <1>10, <1>11 DEF Add, pushed, index2
  <2> HIDE DEF H2
  <2>4. EntryAlike(Len(H) + 1, Len(G) + 1, H2, pushed, from, from2, Like)
    BY <1>3, <1>10, <2>1 DEF EntryAlike
  <2>5. ASSUME NEW slot \in 0 .. n - 1, slot # at, t.slots[slot] # 0
        PROVE  /\ t.slots[slot] # Len(H) + 1
               /\ EntryAlike(t.slots[slot], u.slots[slot], H2, pushed, from, from2, Like)
    <3>1. EntryAlike(t.slots[slot], u.slots[slot], H, G, from, from2, Like)
      BY <1>8, <2>5
    <3>2. t.slots[slot] \in Nat /\ t.slots[slot] <= Len(H)
      BY <3>1 DEF EntryAlike
    <3>3. QED
      <4>1. Len(H2) \in Nat /\ Len(pushed) \in Nat /\ Len(H) <= Len(H2) /\ Len(G) <= Len(pushed)
        BY <1>3, <1>10, <2>1
      <4>2. EntryAlike(t.slots[slot], u.slots[slot], H2, pushed, from, from2, Like)
        BY <1>3, <1>10, <2>1, <3>1, <4>1, EntryStays
      <4>3. QED
        BY <1>3, <3>2, <4>2
  <2>6. /\ SlotsAlike(new.slots, new2.slots, n, H2, pushed, from, from2, Like)
        /\ UsedOf(new.slots, n) = UsedOf(t.slots, n) \union {at}
    <3>1. /\ SlotsAlike([t.slots EXCEPT ![at] = Len(H) + 1], [u.slots EXCEPT ![at] = Len(G) + 1],
                        n, H2, pushed, from, from2, Like)
          /\ UsedOf([t.slots EXCEPT ![at] = Len(H) + 1], n) = UsedOf(t.slots, n) \union {at}
      <4>1. PutsAlike(t.slots, u.slots, n, at, Len(H) + 1, Len(G) + 1, H2, pushed, from, from2, Like)
        BY ONLY <1>3, <1>4, <1>6, <2>4, <2>5, PutAlike
      <4>2. QED
        BY ONLY <4>1 DEF PutsAlike
    <3>2. QED
      BY <3>1
  <2>7. Cardinality(UsedOf(new.slots, n)) <= t.size + 1
    <3>1. IsFiniteSet(UsedOf(t.slots, n))
      <4>1. 0 \in Int /\ n - 1 \in Int
        BY <1>6
      <4>2. IsFiniteSet(0 .. n - 1)
        BY ONLY <4>1, FS_Interval
      <4>3. UsedOf(t.slots, n) \subseteq 0 .. n - 1
        BY DEF UsedOf
      <4>4. QED
        BY <4>2, <4>3, FS_Subset
    <3> DEFINE old == UsedOf(t.slots, n)
    <3> HIDE DEF old, new
    <3>2. IsFiniteSet(old) /\ Cardinality(old) <= t.size /\ UsedOf(new.slots, n) = old \union {at}
      BY <1>6, <2>6, <3>1 DEF old
    <3>3. Cardinality(old) \in Nat /\ Cardinality(old \union {at}) \in Nat
          /\ Cardinality(old \union {at}) <= Cardinality(old) + 1
      <4>1. IsFiniteSet(old \union {at}) /\ Cardinality(old) \in Nat
        BY <3>2, FS_AddElement, FS_CardinalityType
      <4>2. Cardinality(old \union {at}) \in Nat
        BY <4>1, FS_CardinalityType
      <4>3. Cardinality(old \union {at}) <= Cardinality(old) + 1
        BY <3>2, <4>1, FS_AddElement
      <4>4. QED
        BY <4>1, <4>2, <4>3
    <3>4. QED
      BY <1>6, <3>2, <3>3
  <2>8. TablesAlike(new, new2, n, H2, pushed, from, from2, Like)
    BY <1>6, <2>6, <2>7 DEF TablesAlike
  <2>9. new.size <= LoadLimit(n)
    BY <1>2, <1>6, <1>7
  <2> HIDE DEF new, new2
  <2>10. Roomy(Expand(new, H2), Expand(new2, pushed), H2, pushed, from, from2, Like)
    BY <1>3, <2>8, <2>9, ExpandAlike
  <2>11. QED
    BY <1>10, <2>1, <2>2, <2>3, <2>10 DEF Parallel, t, u, H, G, from, from2
<1>12. CASE index # 0
  <2>1. EntryAlike(index, index2, H, G, from, from2, Like)
    BY <1>4, <1>8, <1>12 DEF index, index2
  <2>2. index > from /\ index <= Len(H) /\ H[index].score = G[index2].score
    BY <2>1 DEF EntryAlike, RelationOK
  <2> DEFINE better == H[index].score < h.score
             H2 == IF better THEN [H EXCEPT ![index] = h] ELSE H
             kept == IF better THEN Len(G) + 1 ELSE index2
             new2 == [slots |-> [u.slots EXCEPT ![at] = kept], size |-> u.size]
  <2>3. AddCandidate(t, H, h) = [hypotheses |-> H2, table |-> t]
    BY <1>12 DEF AddCandidate, at, index
  <2>4. Add(u, G, g) = [hypotheses |-> pushed, table |-> Expand(new2, pushed)]
    BY <1>4, <1>8, <1>9, <1>10, <1>12, <2>2 DEF Add, pushed, index2
  <2>5. /\ H2 \in Seq(S) /\ Len(H2) = Len(H) /\ Keeps(H2, base)
        /\ \A i \in 1 .. Len(H) : H2[i] = IF i = index /\ better THEN h ELSE H[i]
    <3>1. CASE better
      BY <1>1, <1>3, <1>8, <2>2, <3>1, ReplaceKeeps DEF from
    <3>2. CASE ~ better
      BY <1>1, <3>2
    <3>3. QED
      BY <3>1, <3>2
  <2>16. /\ better => H2[index] = h /\ kept = Len(G) + 1
         /\ ~ better => H2 = H /\ kept = index2
    <3>1. index \in 1 .. Len(H)
      BY <1>3, <1>8, <2>2
    <3>2. ASSUME better PROVE H2[index] = h
      BY <2>5, <3>1, <3>2
    <3>3. QED
      BY <3>2
  <2> HIDE DEF H2, kept, better
  <2>6. EntryAlike(index, kept, H2, pushed, from, from2, Like)
    <3>1. CASE better
      <4>1. H2[index] = h /\ kept = Len(G) + 1 /\ pushed[Len(G) + 1] = g
        BY <1>10, <2>16, <3>1
      <4>2. <<H2[index], pushed[kept]>> \in Like
        BY <4>1
      <4>3. kept \in Nat /\ kept > from2 /\ kept <= Len(pushed)
        BY <1>3, <1>10, <4>1
      <4>4. QED
        BY <1>8, <2>2, <2>5, <4>2, <4>3 DEF EntryAlike
    <3>2. CASE ~ better
      <4>1. Len(pushed) \in Nat /\ Len(G) <= Len(pushed) /\ Len(H) <= Len(H)
        BY <1>3, <1>10
      <4>2. EntryAlike(index, index2, H, pushed, from, from2, Like)
        BY <1>3, <1>10, <2>1, <4>1, EntryStays
      <4>3. QED
        BY <2>16, <3>2, <4>2
    <3>3. QED
      BY <3>1, <3>2
  <2>7. ASSUME NEW slot \in 0 .. n - 1, slot # at, t.slots[slot] # 0
        PROVE  /\ t.slots[slot] # index
               /\ EntryAlike(t.slots[slot], u.slots[slot], H2, pushed, from, from2, Like)
    <3>1. EntryAlike(t.slots[slot], u.slots[slot], H, G, from, from2, Like)
      BY <1>8, <2>7
    <3>2. t.slots[slot] # index
      BY <1>8, <2>7 DEF index
    <3>3. QED
      <4>1. Len(H2) \in Nat /\ Len(pushed) \in Nat /\ Len(H) <= Len(H2) /\ Len(G) <= Len(pushed)
        BY <1>3, <1>10, <2>5
      <4>2. t.slots[slot] \in 1 .. Len(H) => H2[t.slots[slot]] = H[t.slots[slot]]
        BY <2>5, <3>2
      <4>3. u.slots[slot] \in 1 .. Len(G) => pushed[u.slots[slot]] = G[u.slots[slot]]
        BY <1>10
      <4>4. EntryAlike(t.slots[slot], u.slots[slot], H2, pushed, from, from2, Like)
        BY <1>3, <3>1, <4>1, <4>2, <4>3, EntryStays
      <4>5. QED
        BY <3>2, <4>4
  <2>8. [t.slots EXCEPT ![at] = index] = t.slots /\ at \in UsedOf(t.slots, n)
    <3>1. t.slots \in [0 .. n - 1 -> Nat]
      BY <1>6 DEF SlotsAlike, SameUse
    <3>2. at \in UsedOf(t.slots, n)
      BY <1>4, <1>12 DEF index, UsedOf
    <3>3. [t.slots EXCEPT ![at] = t.slots[at]] = t.slots
      BY <3>1
    <3>4. QED
      BY <3>2, <3>3 DEF index
  <2>9. SlotsAlike([t.slots EXCEPT ![at] = index], new2.slots, n, H2, pushed, from, from2, Like)
    <3>1. PutsAlike(t.slots, u.slots, n, at, index, kept, H2, pushed, from, from2, Like)
      BY ONLY <1>3, <1>4, <1>6, <2>6, <2>7, PutAlike
    <3>2. QED
      BY <3>1 DEF PutsAlike
  <2>10. TablesAlike(t, new2, n, H2, pushed, from, from2, Like)
    BY <1>6, <2>8, <2>9 DEF TablesAlike
  <2>11. new2.size = t.size
    BY <1>6
  <2> HIDE DEF new2
  <2>12. Length(new2) = n
    BY <2>10, TableLength
  <2>13. Expand(new2, pushed) = new2
    BY <1>2, <1>6, <1>7, <2>11, <2>12 DEF Expand
  <2>14. Roomy(t, new2, H2, pushed, from, from2, Like)
    BY <1>2, <2>10 DEF Roomy
  <2>15. QED
    BY <1>10, <2>3, <2>4, <2>5, <2>13, <2>14 DEF Parallel, t, u, H, G, from, from2
<1>13. QED
  BY <1>11, <1>12

(* The lists of the two tables hold alike entries, position by position.   *)
AlikeOrders(order, order2, H, G, from, from2, Like) ==
  /\ Len(order) \in Nat /\ Len(order2) = Len(order)
  /\ DOMAIN order = 1 .. Len(order) /\ DOMAIN order2 = 1 .. Len(order)
  /\ \A k \in 1 .. Len(order) : EntryAlike(order[k], order2[k], H, G, from, from2, Like)

(* Alike tables are read alike.                                            *)
LEMMA OrderAlike ==
  ASSUME NEW t, NEW u, NEW H, NEW G, NEW from, NEW from2, NEW Like,
         Roomy(t, u, H, G, from, from2, Like)
  PROVE  AlikeOrders(InSlotOrder(t), InSlotOrder(u), H, G, from, from2, Like)
<1>1. PICK n : TablesAlike(t, u, n, H, G, from, from2, Like)
  BY DEF Roomy
<1>2. n \in Nat /\ SameUse(t.slots, u.slots, n)
      /\ EntriesAlike(t.slots, u.slots, n, H, G, from, from2, Like)
  BY <1>1 DEF TablesAlike, SlotsAlike
<1>3. ReadAlike(t, u, n)
  BY <1>2, SlotOrders
<1>4. PICK m, pos : /\ Lists(pos, m, t.slots, n)
                    /\ InSlotOrder(t) = Listed(pos, m, t.slots)
                    /\ InSlotOrder(u) = Listed(pos, m, u.slots)
  BY <1>3 DEF ReadAlike
<1>5. /\ m \in Nat /\ pos \in [1 .. m -> 0 .. n - 1]
      /\ \A slot \in 0 .. n - 1 : t.slots[slot] # 0 <=> \E k \in 1 .. m : pos[k] = slot
  BY <1>4 DEF Lists
<1> DEFINE order == Listed(pos, m, t.slots)
           order2 == Listed(pos, m, u.slots)
<1>6. /\ Len(order) = m /\ Len(order2) = m /\ DOMAIN order = 1 .. m /\ DOMAIN order2 = 1 .. m
      /\ \A k \in 1 .. m : order[k] = t.slots[pos[k]] /\ order2[k] = u.slots[pos[k]]
  BY <1>5 DEF Listed
<1> HIDE DEF order, order2
<1>7. \A k \in 1 .. m : EntryAlike(order[k], order2[k], H, G, from, from2, Like)
  <2> SUFFICES ASSUME NEW k \in 1 .. m
               PROVE  EntryAlike(t.slots[pos[k]], u.slots[pos[k]], H, G, from, from2, Like)
    BY <1>6
  <2>1. pos[k] \in 0 .. n - 1 /\ t.slots[pos[k]] # 0
    BY <1>5
  <2>2. QED
    BY <1>2, <2>1 DEF EntriesAlike
<1>8. QED
  BY <1>4, <1>5, <1>6, <1>7 DEF AlikeOrders, order, order2

(* Back pointers point back.                                               *)
Descending(hyps) ==
  Len(hyps) \in Nat /\ \A i \in 1 .. Len(hyps) : hyps[i].back \in 0 .. i - 1

(* The recursion that Reconstruct is chosen by has a solution.             *)
LEMMA ReconstructIs ==
  ASSUME NEW hyps, Descending(hyps)
  PROVE  /\ Reconstruct(hyps, 0) = <<>>
         /\ \A i \in 1 .. Len(hyps) :
              Reconstruct(hyps, i) = IF hyps[i].back = 0 THEN <<>>
                                     ELSE Append(Reconstruct(hyps, hyps[i].back), hyps[i].current[2])
<1> DEFINE n == Len(hyps)
           Step(f, i) == Append(f[hyps[i].back], hyps[i].current[2])
           First(i) == i = 0 \/ hyps[i].back = 0
           Law(f, b) == f = [i \in 0 .. b |-> IF i = 0 \/ hyps[i].back = 0 THEN <<>>
                                              ELSE Append(f[hyps[i].back], hyps[i].current[2])]
           S == {b \in Nat : b <= n => \E f : Law(f, b)}
<1>0. n \in Nat /\ \A i \in 1 .. n : hyps[i].back \in 0 .. i - 1
  BY DEF Descending
<1> HIDE DEF n
<1>1. 0 \in S
  <2>1. Law([i \in 0 .. 0 |-> <<>>], 0)
    OBVIOUS
  <2> HIDE DEF Law
  <2>2. QED
    BY <2>1
<1>2. ASSUME NEW b \in Nat, b + 1 <= n, NEW f, Law(f, b) PROVE \E g : Law(g, b + 1)
  <2> DEFINE g == [i \in 0 .. b + 1 |-> IF i # b + 1 THEN f[i]
                                        ELSE IF First(b + 1) THEN <<>> ELSE Step(f, b + 1)]
  <2>1. \A i \in 0 .. b : f[i] = IF First(i) THEN <<>> ELSE Step(f, i)
    BY <1>2
  <2>2. \A i \in 0 .. b : g[i] = f[i]
    OBVIOUS
  <2>3. \A i \in 1 .. b + 1 : hyps[i].back \in 0 .. b
    <3>1. \A i \in 1 .. b + 1 : i \in 1 .. n /\ \A x \in 0 .. i - 1 : x \in 0 .. b
      BY <1>0, <1>2
    <3>2. QED
      BY <1>0, <3>1
  <2>4. g[b + 1] = IF First(b + 1) THEN <<>> ELSE Step(f, b + 1)
    OBVIOUS
  <2>5. g = [i \in 0 .. b + 1 |-> g[i]]
    OBVIOUS
  <2> HIDE DEF g
  <2>6. \A i \in 1 .. b + 1 : Step(g, i) = Step(f, i)
    BY <2>2, <2>3
  <2>7. ASSUME NEW i \in 0 .. b + 1 PROVE g[i] = IF First(i) THEN <<>> ELSE Step(g, i)
    <3>1. i = 0 \/ i \in 1 .. b + 1
      OBVIOUS
    <3>2. i \in 0 .. b \/ i = b + 1
      OBVIOUS
    <3> HIDE DEF Step
    <3>3. i # 0 => Step(g, i) = Step(f, i)
      BY <2>6, <3>1
    <3>4. QED
      BY <2>1, <2>2, <2>4, <3>2, <3>3
  <2>8. Law(g, b + 1)
    BY <2>5, <2>7
  <2> HIDE DEF Law
  <2>9. QED
    BY <2>8
<1>3. \A b \in Nat : b \in S => b + 1 \in S
  <2> HIDE DEF Law
  <2>1. ASSUME NEW b \in Nat, b \in S, b + 1 <= n PROVE \E g : Law(g, b + 1)
    <3>1. \E f : Law(f, b)
      BY <1>0, <2>1
    <3>2. QED
      BY <1>2, <2>1, <3>1
  <2>2. QED
    BY <2>1
<1>4. n \in S
  <2> HIDE DEF S
  <2> QED BY <1>0, <1>1, <1>3, NatSetInduction
<1> DEFINE path == CHOOSE f : Law(f, n)
<1>5. Law(path, n)
  <2>1. \E f : Law(f, n)
    BY <1>0, <1>4
  <2> HIDE DEF Law
  <2>2. QED
    BY <2>1
<1>6. \A i : Reconstruct(hyps, i) = path[i]
  BY DEF Reconstruct, n
<1> HIDE DEF path
<1>7. \A i \in 0 .. n : path[i] = IF First(i) THEN <<>> ELSE Step(path, i)
  BY <1>5
<1>8. 0 \in 0 .. n /\ \A i \in 1 .. n : i \in 0 .. n /\ i # 0
  BY <1>0
<1>9. QED
  BY <1>6, <1>7, <1>8 DEF n

(* A path depends on the back pointers below its end and on nothing else.  *)
SameBacks(hyps, base, n) ==
  \A i \in 1 .. n : hyps[i].back = base[i].back /\ hyps[i].current = base[i].current

(* Hypotheses with the same back pointers end the same paths.              *)
LEMMA SamePaths ==
  ASSUME NEW hyps, NEW base, NEW n \in Nat, Descending(hyps), Descending(base),
         n <= Len(hyps), n <= Len(base), SameBacks(hyps, base, n)
  PROVE  \A i \in 0 .. n : Reconstruct(hyps, i) = Reconstruct(base, i)
<1> DEFINE Same(i) == Reconstruct(hyps, i) = Reconstruct(base, i)
           S == {j \in Nat : \A i \in 0 .. j : i <= n => Same(i)}
<1>1. /\ Len(hyps) \in Nat /\ Len(base) \in Nat
      /\ \A i \in 1 .. n : i \in 1 .. Len(hyps) /\ i \in 1 .. Len(base)
  BY DEF Descending
<1>2. \A i \in 1 .. n : /\ hyps[i].back = base[i].back /\ hyps[i].current = base[i].current
                        /\ hyps[i].back \in 0 .. i - 1
  BY <1>1 DEF SameBacks, Descending
<1>3. Same(0)
  BY ReconstructIs
<1>4. ASSUME NEW i \in 1 .. n, hyps[i].back # 0 => Same(hyps[i].back) PROVE Same(i)
  <2>1. Reconstruct(hyps, i) = IF hyps[i].back = 0 THEN <<>>
                               ELSE Append(Reconstruct(hyps, hyps[i].back), hyps[i].current[2])
    BY <1>1, ReconstructIs
  <2>2. Reconstruct(base, i) = IF base[i].back = 0 THEN <<>>
                               ELSE Append(Reconstruct(base, base[i].back), base[i].current[2])
    BY <1>1, ReconstructIs
  <2>3. QED
    BY <1>2, <1>4, <2>1, <2>2
<1> HIDE DEF Same
<1>5. 0 \in S
  <2>1. \A i \in 0 .. 0 : i = 0
    OBVIOUS
  <2>2. QED
    BY <1>3, <2>1
<1>6. ASSUME NEW j \in Nat, j \in S PROVE j + 1 \in S
  <2> SUFFICES ASSUME NEW i \in 0 .. j + 1, i <= n PROVE Same(i)
    OBVIOUS
  <2>1. CASE i \in 0 .. j
    BY <1>6, <2>1
  <2>2. CASE i = j + 1
    <3>1. i \in 1 .. n
      BY <2>2
    <3>2. hyps[i].back \in 0 .. j /\ hyps[i].back <= n
      <4>1. hyps[i].back \in 0 .. i - 1
        BY <1>2, <3>1
      <4>2. QED
        BY <2>2, <3>1, <4>1
    <3>3. Same(hyps[i].back)
      BY <1>6, <3>2
    <3>4. QED
      BY <1>4, <3>1, <3>3
  <2>3. QED
    BY <2>1, <2>2
<1>7. n \in S
  <2> HIDE DEF S
  <2> QED BY <1>5, <1>6, NatSetInduction
<1>8. QED
  BY <1>7 DEF Same

(* The analyses of a sentence, the begin and end markers included.         *)
Analyses(s) ==
  {Begin, <<Tokens(s) + 1, 1>>}
    \union {a \in Nat \X Nat : a[1] \in 1 .. Tokens(s) /\ a[2] \in 1 .. Candidates(s, a[1])}

(* The hypotheses of a layer that follows n hypotheses.                    *)
HypothesesOf(s, n) ==
  {Hypothesis(s, previous, current, back, score) :
     previous \in Analyses(s), current \in Analyses(s), back \in 0 .. n, score \in Int}

(* Hypotheses that differ at most in where they point back to, at the end  *)
(* of the same path.                                                       *)
LikeOf(base, base2, S, S2) ==
  {pair \in S \X S2 :
     /\ pair[1].previous = pair[2].previous /\ pair[1].current = pair[2].current
     /\ pair[1].score = pair[2].score
     /\ pair[1].state = pair[2].state /\ pair[1].hash = pair[2].hash
     /\ pair[1].back = 0 <=> pair[2].back = 0
     /\ Reconstruct(base, pair[1].back) = Reconstruct(base2, pair[2].back)}

(* What a sentence's words, weights and hashes are.                        *)
LEMMA WordsAre ==
  ASSUME NEW s \in Sentences
  PROVE  /\ Tokens(s) \in Nat /\ Tokens(s) > 0
         /\ \A t \in 1 .. Tokens(s) : Candidates(s, t) \in Nat /\ Candidates(s, t) > 0
         /\ \A a \in Analyses(s) : WordOf(s, a) \in WordsOf(s)
         /\ \A a, b \in Analyses(s) : HashOf(s, WordOf(s, a), WordOf(s, b)) \in Nat
         /\ \A a, b, c \in Analyses(s) : Weight(s, a, b, c) \in Int
<1>1. SentenceOK(s)
  BY DecoderConstants
<1>2. /\ s.words \in Seq(Seq(Nat)) /\ Len(s.words) > 0
      /\ \A t \in DOMAIN s.words : Len(s.words[t]) > 0
  BY <1>1 DEF SentenceOK
<1>3. /\ Tokens(s) \in Nat /\ DOMAIN s.words = 1 .. Tokens(s)
      /\ \A t \in 1 .. Tokens(s) : s.words[t] \in Seq(Nat)
  BY <1>2 DEF Tokens
<1>4. \A t \in 1 .. Tokens(s) :
        /\ Candidates(s, t) = Len(s.words[t]) /\ Len(s.words[t]) \in Nat
        /\ DOMAIN s.words[t] = 1 .. Len(s.words[t])
  BY <1>3 DEF Candidates
<1>5. ASSUME NEW a \in Analyses(s) PROVE WordOf(s, a) \in WordsOf(s)
  <2>1. CASE a = Begin
    <3>1. a[1] = 0 /\ a[1] # Tokens(s) + 1
      BY <1>3, <2>1 DEF Begin
    <3>2. WordOf(s, a) = BeginWord
      BY <3>1 DEF WordOf
    <3>3. QED
      BY <3>2 DEF WordsOf
  <2>2. CASE a = <<Tokens(s) + 1, 1>>
    <3>1. a[1] # 0 /\ a[1] = Tokens(s) + 1
      BY <1>3, <2>2
    <3>2. QED
      <4>1. WordOf(s, a) = EndWord
        BY <3>1 DEF WordOf
      <4>2. QED
        BY <4>1 DEF WordsOf
  <2>3. CASE a[1] \in 1 .. Tokens(s) /\ a[2] \in 1 .. Candidates(s, a[1])
    <3> DEFINE t == a[1]
               i == a[2]
    <3>1. t \in 1 .. Tokens(s) /\ i \in DOMAIN s.words[t] /\ t # 0 /\ t # Tokens(s) + 1
      BY <1>3, <1>4, <2>3
    <3>2. WordOf(s, a) = s.words[t][i]
      BY <3>1 DEF WordOf
    <3> HIDE DEF t, i
    <3>3. s.words[t][i] \in {s.words[t][x] : x \in DOMAIN s.words[t]}
      BY <3>1
    <3>4. {s.words[t][x] : x \in DOMAIN s.words[t]}
            \in {{s.words[y][x] : x \in DOMAIN s.words[y]} : y \in DOMAIN s.words}
      BY <1>3, <3>1
    <3>5. QED
      BY <3>2, <3>3, <3>4 DEF WordsOf
  <2>4. QED
    BY <2>1, <2>2, <2>3 DEF Analyses
<1>6. /\ \A a, b \in Analyses(s) : HashOf(s, WordOf(s, a), WordOf(s, b)) \in Nat
      /\ \A a, b, c \in Analyses(s) : Weight(s, a, b, c) \in Int
  <2>1. \A a, b, c \in WordsOf(s) : WeightOf(s, a, b, c) \in Int /\ HashOf(s, a, b) \in Nat
    BY <1>1 DEF SentenceOK
  <2>2. QED
    BY <1>5, <2>1 DEF Weight
<1>7. QED
  BY <1>2, <1>3, <1>4, <1>5, <1>6 DEF Tokens

(* What the hypotheses of a sentence are.                                  *)
LEMMA HypothesesAre ==
  ASSUME NEW s \in Sentences, NEW n \in Nat
  PROVE  /\ \A h \in HypothesesOf(s, n) :
              /\ h.previous \in Analyses(s) /\ h.current \in Analyses(s)
              /\ h.back \in 0 .. n /\ h.score \in Int /\ h.hash \in Nat
              /\ h = Hypothesis(s, h.previous, h.current, h.back, h.score)
         /\ \A m \in Nat : n <= m => HypothesesOf(s, n) \subseteq HypothesesOf(s, m)
<1>1. ASSUME NEW h \in HypothesesOf(s, n)
      PROVE  /\ h.previous \in Analyses(s) /\ h.current \in Analyses(s)
             /\ h.back \in 0 .. n /\ h.score \in Int /\ h.hash \in Nat
             /\ h = Hypothesis(s, h.previous, h.current, h.back, h.score)
  <2>1. PICK previous \in Analyses(s), current \in Analyses(s), back \in 0 .. n, score \in Int :
          h = Hypothesis(s, previous, current, back, score)
    BY DEF HypothesesOf
  <2>2. h.previous = previous /\ h.current = current /\ h.back = back /\ h.score = score
        /\ h.hash = HashOf(s, WordOf(s, previous), WordOf(s, current))
    BY <2>1 DEF Hypothesis
  <2>3. QED
    BY <2>1, <2>2, WordsAre
<1>2. ASSUME NEW m \in Nat, n <= m PROVE HypothesesOf(s, n) \subseteq HypothesesOf(s, m)
  <2>1. \A x \in 0 .. n : x \in 0 .. m
    BY <1>2
  <2>2. QED
    BY <2>1 DEF HypothesesOf
<1>3. QED
  BY <1>1, <1>2

(* Hypotheses that are alike are alike to a table.                         *)
LEMMA LikeIsOK ==
  ASSUME NEW s \in Sentences, NEW n \in Nat, NEW m \in Nat, NEW base, NEW base2
  PROVE  RelationOK(LikeOf(base, base2, HypothesesOf(s, n), HypothesesOf(s, m)))
<1> DEFINE S == HypothesesOf(s, n)
           S2 == HypothesesOf(s, m)
<1>1. \A h \in S : h.hash \in Nat
  BY HypothesesAre
<1> HIDE DEF S, S2
<1>2. RelationOK(LikeOf(base, base2, S, S2))
  <2> SUFFICES ASSUME NEW h, NEW g, <<h, g>> \in LikeOf(base, base2, S, S2)
               PROVE  h.hash \in Nat /\ h.hash = g.hash /\ h.state = g.state /\ h.score = g.score
    BY DEF RelationOK
  <2>1. h \in S /\ h.hash = g.hash /\ h.state = g.state /\ h.score = g.score
    BY DEF LikeOf
  <2>2. QED
    BY <1>1, <2>1
<1>3. QED
  BY <1>2 DEF S, S2

(* What the n-th transition of a layer offers.                             *)
Offer(s, hyps, token, order, n) ==
  Continue(s, hyps, Transition(s, token, order, n).from, Transition(s, token, order, n).analysis)

(* One transition of a layer.                                              *)
LayerStep(compact, s, token, hyps, order, before, n) ==
  LET next == Offer(s, hyps, token, order, n)
  IN  IF compact THEN AddCandidate(before.table, before.hypotheses, next)
                 ELSE Add(before.table, before.hypotheses, next)

LayerFrom(compact, s, token, hyps, order, steps) ==
  \E after : /\ after[0] = [hypotheses |-> hyps, table |-> EmptyTable]
             /\ \A n \in 1 .. steps :
                  after[n] = LayerStep(compact, s, token, hyps, order, after[n - 1], n)
             /\ HashLayerOf(compact, s, token, hyps, order) = after[steps]

(* The recursion that HashLayerOf is chosen by has a solution.             *)
LEMMA LayerLaw ==
  ASSUME NEW compact, NEW s, NEW token, NEW hyps, NEW order,
         NEW n \in Nat, LayerSteps(s, token, order) = n
  PROVE  LayerFrom(compact, s, token, hyps, order, n)
<1> DEFINE Base == [hypotheses |-> hyps, table |-> EmptyTable]
           Step(x, j) == LayerStep(compact, s, token, hyps, order, x, j)
           Law(f, b) == f = [j \in 0 .. b |-> IF j = 0 THEN Base ELSE Step(f[j - 1], j)]
           S == {b \in Nat : \E f : Law(f, b)}
<1> HIDE DEF Step, Base
<1>1. 0 \in S
  <2>1. Law([j \in 0 .. 0 |-> Base], 0)
    OBVIOUS
  <2> HIDE DEF Law
  <2>2. QED
    BY <2>1
<1>2. ASSUME NEW b \in Nat, b \in S PROVE b + 1 \in S
  <2>1. PICK f : Law(f, b)
    BY <1>2
  <2> DEFINE g == [j \in 0 .. b + 1 |-> IF j = b + 1 THEN Step(f[b], b + 1) ELSE f[j]]
  <2>2. \A j \in 0 .. b : f[j] = IF j = 0 THEN Base ELSE Step(f[j - 1], j)
    BY <2>1
  <2>3. ASSUME NEW j \in 0 .. b + 1 PROVE g[j] = IF j = 0 THEN Base ELSE Step(g[j - 1], j)
    <3>1. CASE j = b + 1
      <4>1. j - 1 = b /\ b \in 0 .. b + 1 /\ b # b + 1 /\ j # 0
        BY <3>1
      <4>2. g[j - 1] = f[b] /\ g[j] = Step(f[b], b + 1)
        BY <3>1, <4>1
      <4>3. QED
        BY <3>1, <4>1, <4>2
    <3>2. CASE j # b + 1
      <4>1. j \in 0 .. b /\ g[j] = f[j]
        BY <3>2
      <4>2. j # 0 => j - 1 \in 0 .. b + 1 /\ j - 1 # b + 1 /\ g[j - 1] = f[j - 1]
        BY <4>1
      <4> HIDE DEF g
      <4>3. QED
        BY <2>2, <4>1, <4>2
    <3>3. QED
      BY <3>1, <3>2
  <2>4. Law(g, b + 1)
    <3>1. g = [j \in 0 .. b + 1 |-> g[j]]
      OBVIOUS
    <3> HIDE DEF g
    <3>2. QED
      BY <2>3, <3>1
  <2> HIDE DEF Law, g
  <2>5. QED
    BY <2>4
<1>3. n \in S
  <2> HIDE DEF S
  <2> QED BY <1>1, <1>2, NatSetInduction
<1> DEFINE after == CHOOSE f : Law(f, n)
<1>4. Law(after, n)
  <2>1. \E f : Law(f, n)
    BY <1>3
  <2> HIDE DEF Law
  <2>2. QED
    BY <2>1
<1>5. HashLayerOf(compact, s, token, hyps, order) = after[n]
  BY DEF HashLayerOf, Step, Base, LayerStep, Offer
<1> HIDE DEF after
<1>6. \A j \in 0 .. n : after[j] = IF j = 0 THEN Base ELSE Step(after[j - 1], j)
  BY <1>4
<1>7. after[0] = Base /\ \A j \in 1 .. n : after[j] = Step(after[j - 1], j)
  BY <1>6
<1>8. QED
  BY <1>5, <1>7 DEF Step, Base, LayerFrom

(* A transition leads from an entry of the list to a candidate of the      *)
(* token, whatever the list holds.                                         *)
TransitionWithin(s, token, m, c, n) ==
  \E k \in 1 .. m, i \in 1 .. c :
    \A list : Len(list) = m =>
      /\ Transition(s, token, list, n).analysis = <<token, i>>
      /\ Transition(s, token, list, n).from = list[k]

(* Each transition of a layer stays within its candidates and the list.    *)
LEMMA TransitionIs ==
  ASSUME NEW s, NEW token, NEW m \in Nat, NEW c \in Nat, NEW n \in 1 .. c * m
  PROVE  TransitionWithin(s, token, m, c, n)
<1>1. m # 0
  <2>1. c * 0 = 0
    OBVIOUS
  <2>2. QED
    BY <2>1
<1> DEFINE k == ((n - 1) % m) + 1
           d == (n - 1) \div m
<1>2. c * m \in Nat
  OBVIOUS
<1>3. n - 1 \in Nat /\ n - 1 < c * m
  BY <1>2
<1>4. \A x \in Nat : x % m \in 0 .. m - 1 /\ x \div m \in Nat /\ x = m * (x \div m) + (x % m)
  BY <1>1
<1>5. d \in Nat /\ n - 1 = m * d + ((n - 1) % m) /\ (n - 1) % m \in 0 .. m - 1
  BY <1>3, <1>4
<1>6. k \in 1 .. m
  BY <1>5
<1>7. d < c
  <2> SUFFICES ASSUME c <= d PROVE FALSE
    BY <1>5
  <2> HIDE DEF d
  <2>1. c * m <= d * m
    BY <1>5, ProductMonotone
  <2>2. m * d = d * m /\ d * m \in Nat
    BY <1>5
  <2>3. QED
    BY <1>2, <1>3, <1>5, <2>1, <2>2
<1>8. d + 1 \in 1 .. c
  BY <1>5, <1>7
<1>9. \A list : Len(list) = m =>
        /\ Transition(s, token, list, n).analysis = <<token, d + 1>>
        /\ Transition(s, token, list, n).from = list[k]
  BY DEF Transition
<1> HIDE DEF k, d
<1>10. QED
  BY <1>6, <1>8, <1>9 DEF TransitionWithin

Alike(base, base2, s) ==
  LikeOf(base, base2, HypothesesOf(s, Len(base)), HypothesesOf(s, Len(base2)))

(* The two decoders at the end of a layer; base and base2 are the          *)
(* hypotheses of all the layers before.                                    *)
LayerDone(c, r, base, base2, s) ==
  /\ Descending(base) /\ Descending(base2)
  /\ Parallel(c, r, base, base2, HypothesesOf(s, Len(base)), HypothesesOf(s, Len(base2)),
              Alike(base, base2, s))

Between(c, r, s) == \E base, base2 : LayerDone(c, r, base, base2, s)

(* A layer's hypotheses point back beyond the layer.                       *)
LEMMA HypothesesDescend ==
  ASSUME NEW s \in Sentences, NEW base, Descending(base),
         NEW H \in Seq(HypothesesOf(s, Len(base))), Keeps(H, base)
  PROVE  Descending(H) /\ SameBacks(H, base, Len(base)) /\ Len(base) <= Len(H)
<1>1. /\ Len(base) \in Nat /\ Len(H) \in Nat /\ Len(base) <= Len(H)
      /\ \A i \in 1 .. Len(base) : H[i] = base[i] /\ base[i].back \in 0 .. i - 1
  BY DEF Descending, Keeps
<1>2. \A i \in 1 .. Len(H) : H[i] \in HypothesesOf(s, Len(base))
  OBVIOUS
<1>3. \A i \in 1 .. Len(H) : H[i].back \in 0 .. Len(base)
  BY <1>1, <1>2, HypothesesAre
<1>4. ASSUME NEW i \in 1 .. Len(H) PROVE H[i].back \in 0 .. i - 1
  <2>1. CASE i \in 1 .. Len(base)
    BY <1>1, <2>1
  <2>2. CASE i > Len(base)
    <3>1. \A x \in 0 .. Len(base) : x \in 0 .. i - 1
      BY <1>1, <2>2
    <3>2. QED
      BY <1>3, <3>1
  <2>3. QED
    BY <1>1, <2>1, <2>2
<1>5. QED
  BY <1>1, <1>4 DEF Descending, SameBacks

(* Two hypotheses with the same analyses and score, at the end of the same *)
(* path.                                                                   *)
EndAlike(H, G, a, b) ==
  /\ a \in 1 .. Len(H) /\ b \in 1 .. Len(G)
  /\ H[a].previous = G[b].previous /\ H[a].current = G[b].current /\ H[a].score = G[b].score
  /\ Reconstruct(H, a) = Reconstruct(G, b)

(* Alike entries end alike paths.                                          *)
LEMMA PathsAlike ==
  ASSUME NEW s \in Sentences, NEW base, NEW base2, NEW c, NEW r,
         LayerDone(c, r, base, base2, s), NEW a, NEW b,
         EntryAlike(a, b, c.hypotheses, r.hypotheses, Len(base), Len(base2), Alike(base, base2, s))
  PROVE  EndAlike(c.hypotheses, r.hypotheses, a, b)
<1> DEFINE H == c.hypotheses
           G == r.hypotheses
           S == HypothesesOf(s, Len(base))
           S2 == HypothesesOf(s, Len(base2))
<1>1. /\ Descending(base) /\ Descending(base2)
      /\ H \in Seq(S) /\ G \in Seq(S2) /\ Keeps(H, base) /\ Keeps(G, base2)
  BY DEF LayerDone, Parallel
<1> HIDE DEF H, G
<1>2. /\ Descending(H) /\ SameBacks(H, base, Len(base)) /\ Len(base) <= Len(H)
      /\ Descending(G) /\ SameBacks(G, base2, Len(base2)) /\ Len(base2) <= Len(G)
  BY <1>1, HypothesesDescend
<1>3. /\ a \in Nat /\ b \in Nat /\ a > Len(base) /\ a <= Len(H) /\ b > Len(base2) /\ b <= Len(G)
      /\ <<H[a], G[b]>> \in Alike(base, base2, s)
  BY DEF EntryAlike, H, G
<1>4. /\ H[a] \in S /\ G[b] \in S2
      /\ H[a].previous = G[b].previous /\ H[a].current = G[b].current /\ H[a].score = G[b].score
      /\ H[a].back = 0 <=> G[b].back = 0
      /\ Reconstruct(base, H[a].back) = Reconstruct(base2, G[b].back)
  BY <1>3 DEF Alike, LikeOf
<1>5. Len(base) \in Nat /\ Len(base2) \in Nat /\ Len(H) \in Nat /\ Len(G) \in Nat
  BY <1>1, <1>2 DEF Descending
<1>6. H[a].back \in 0 .. Len(base) /\ G[b].back \in 0 .. Len(base2)
  BY <1>4, <1>5, HypothesesAre
<1>7. a \in 1 .. Len(H) /\ b \in 1 .. Len(G)
  BY <1>3, <1>5
<1>8. /\ \A i \in 0 .. Len(base) : Reconstruct(H, i) = Reconstruct(base, i)
      /\ \A i \in 0 .. Len(base2) : Reconstruct(G, i) = Reconstruct(base2, i)
  <2>1. Len(base) <= Len(base) /\ Len(base2) <= Len(base2)
    BY <1>5
  <2>2. QED
    BY <1>1, <1>2, <1>5, <2>1, SamePaths
<1>9. Reconstruct(H, H[a].back) = Reconstruct(G, G[b].back)
  BY <1>4, <1>6, <1>8
<1>10. Reconstruct(H, a) = IF H[a].back = 0 THEN <<>>
                           ELSE Append(Reconstruct(H, H[a].back), H[a].current[2])
  BY <1>2, <1>7, ReconstructIs
<1>11. Reconstruct(G, b) = IF G[b].back = 0 THEN <<>>
                           ELSE Append(Reconstruct(G, G[b].back), G[b].current[2])
  BY <1>2, <1>7, ReconstructIs
<1>12. Reconstruct(H, a) = Reconstruct(G, b)
  BY <1>4, <1>9, <1>10, <1>11
<1>13. QED
  BY <1>4, <1>7, <1>12 DEF EndAlike, H, G

(* Alike hypotheses are continued alike.                                   *)
LEMMA ContinueAlike ==
  ASSUME NEW s \in Sentences, NEW base, NEW base2, NEW c, NEW r,
         LayerDone(c, r, base, base2, s), NEW a, NEW b,
         EntryAlike(a, b, c.hypotheses, r.hypotheses, Len(base), Len(base2), Alike(base, base2, s)),
         NEW analysis \in Analyses(s)
  PROVE  /\ Continue(s, c.hypotheses, a, analysis) \in HypothesesOf(s, Len(c.hypotheses))
         /\ Continue(s, r.hypotheses, b, analysis) \in HypothesesOf(s, Len(r.hypotheses))
         /\ <<Continue(s, c.hypotheses, a, analysis), Continue(s, r.hypotheses, b, analysis)>>
              \in Alike(c.hypotheses, r.hypotheses, s)
<1> DEFINE H == c.hypotheses
           G == r.hypotheses
           h == Continue(s, H, a, analysis)
           g == Continue(s, G, b, analysis)
<1>1. /\ a \in 1 .. Len(H) /\ b \in 1 .. Len(G)
      /\ H[a].previous = G[b].previous /\ H[a].current = G[b].current /\ H[a].score = G[b].score
      /\ Reconstruct(H, a) = Reconstruct(G, b)
  <2>1. EndAlike(c.hypotheses, r.hypotheses, a, b)
    BY PathsAlike
  <2>2. QED
    BY <2>1 DEF EndAlike
<1>2. /\ H \in Seq(HypothesesOf(s, Len(base))) /\ G \in Seq(HypothesesOf(s, Len(base2)))
      /\ Len(base) \in Nat /\ Len(base2) \in Nat
  BY DEF LayerDone, Parallel, Descending
<1> HIDE DEF H, G
<1>3. /\ H[a] \in HypothesesOf(s, Len(base)) /\ G[b] \in HypothesesOf(s, Len(base2))
      /\ Len(H) \in Nat /\ Len(G) \in Nat
  BY <1>1, <1>2
<1>4. /\ H[a].previous \in Analyses(s) /\ H[a].current \in Analyses(s) /\ H[a].score \in Int
      /\ G[b].previous \in Analyses(s) /\ G[b].current \in Analyses(s) /\ G[b].score \in Int
  BY <1>2, <1>3, HypothesesAre
<1> DEFINE score == H[a].score + Weight(s, H[a].previous, H[a].current, analysis)
           from == H[a].current
<1>5. score \in Int /\ from \in Analyses(s) /\ a \in 0 .. Len(H) /\ b \in 0 .. Len(G) /\ a # 0 /\ b # 0
  <2>1. Weight(s, H[a].previous, H[a].current, analysis) \in Int
    BY <1>4, WordsAre
  <2>2. QED
    BY <1>1, <1>3, <1>4, <2>1
<1>6. h = Hypothesis(s, from, analysis, a, score) /\ g = Hypothesis(s, from, analysis, b, score)
  BY <1>1 DEF Continue
<1> HIDE DEF score, from, h, g
<1>7. h \in HypothesesOf(s, Len(H)) /\ g \in HypothesesOf(s, Len(G))
  BY <1>5, <1>6 DEF HypothesesOf
<1>8. /\ h.previous = g.previous /\ h.current = g.current /\ h.score = g.score
      /\ h.state = g.state /\ h.hash = g.hash /\ h.back = a /\ g.back = b
  BY <1>6 DEF Hypothesis
<1>9. <<h, g>> \in Alike(H, G, s)
  BY <1>1, <1>5, <1>7, <1>8 DEF Alike, LikeOf
<1>10. QED
  BY <1>7, <1>9 DEF H, G, h, g

(* A layer begins with an empty table.                                     *)
LEMMA EmptyAlike ==
  ASSUME NEW S, NEW S2, NEW H \in Seq(S), NEW G \in Seq(S2), NEW Like
  PROVE  Parallel([hypotheses |-> H, table |-> EmptyTable], [hypotheses |-> G, table |-> EmptyTable],
                  H, G, S, S2, Like)
<1> DEFINE slots == [slot \in 0 .. InitialSlots - 1 |-> 0]
           t == EmptyTable
<1>1. t = [slots |-> slots, size |-> 0] /\ t.slots = slots /\ t.size = 0
  BY DEF EmptyTable
<1>2. InitialSlots \in Nat /\ 0 < LoadLimit(InitialSlots)
  BY LoadLimitIs DEF InitialSlots
<1>3. UsedOf(slots, InitialSlots) = {} /\ Cardinality({}) = 0
  BY FS_EmptySet DEF UsedOf
<1>4. SlotsAlike(slots, slots, InitialSlots, H, G, Len(H), Len(G), Like)
  <2>1. slots \in [0 .. InitialSlots - 1 -> Nat] /\ \A slot \in 0 .. InitialSlots - 1 : slots[slot] = 0
    OBVIOUS
  <2> HIDE DEF slots
  <2>2. QED
    BY <2>1 DEF SlotsAlike, SameUse, Distinct, EntriesAlike
<1> HIDE DEF t, slots
<1>5. TablesAlike(t, t, InitialSlots, H, G, Len(H), Len(G), Like)
  <2>1. t = [slots |-> t.slots, size |-> t.size]
    BY <1>1
  <2>2. Cardinality(UsedOf(t.slots, InitialSlots)) <= t.size /\ t.size \in Nat
    <3>1. UsedOf(t.slots, InitialSlots) = {}
      BY <1>1, <1>3
    <3>2. t.size = 0 /\ Cardinality({}) = 0
      BY <1>1, <1>3
    <3>3. QED
      BY <3>1, <3>2
  <2>3. InitialSlots >= InitialSlots
    BY <1>2
  <2>4. QED
    BY <1>1, <1>2, <1>4, <2>1, <2>2, <2>3 DEF TablesAlike
<1>6. Roomy(t, t, H, G, Len(H), Len(G), Like)
  BY <1>1, <1>2, <1>5 DEF Roomy
<1>7. Keeps(H, H) /\ Keeps(G, G)
  BY DEF Keeps
<1>8. QED
  BY <1>6, <1>7 DEF Parallel, t

(* The n-th transition offers alike hypotheses to the two decoders.        *)
OfferedAlike(s, token, H, G, order, order2, n) ==
  /\ Offer(s, H, token, order, n) \in HypothesesOf(s, Len(H))
  /\ Offer(s, G, token, order2, n) \in HypothesesOf(s, Len(G))
  /\ <<Offer(s, H, token, order, n), Offer(s, G, token, order2, n)>> \in Alike(H, G, s)

(* The states of two decoders inside a layer, transition by transition.    *)
LayerBeside(s, token, c, r) ==
  LET H == c.hypotheses
      G == r.hypotheses
      order == InSlotOrder(c.table)
      steps == LayerSteps(s, token, order)
  IN  \E f, g :
        /\ steps \in Nat /\ Descending(H) /\ Descending(G)
        /\ f[0] = [hypotheses |-> H, table |-> EmptyTable]
        /\ \A n \in 1 .. steps : f[n] = LayerStep(TRUE, s, token, H, order, f[n - 1], n)
        /\ HashLayerOf(TRUE, s, token, H, order) = f[steps]
        /\ HashLayerOf(FALSE, s, token, G, InSlotOrder(r.table)) = g[steps]
        /\ \A n \in 0 .. steps :
             Parallel(f[n], g[n], H, G, HypothesesOf(s, Len(H)), HypothesesOf(s, Len(G)),
                      Alike(H, G, s))
        /\ \A n \in 1 .. steps : OfferedAlike(s, token, H, G, order, InSlotOrder(r.table), n)

(* The hash decoder and the reference go through a layer beside each       *)
(* other.                                                                  *)
LEMMA LayerRunsBeside ==
  ASSUME NEW s \in Sentences, NEW c, NEW r, Between(c, r, s), NEW token \in 1 .. Tokens(s)
  PROVE  LayerBeside(s, token, c, r)
<1>1. PICK base, base2 : LayerDone(c, r, base, base2, s)
  BY DEF Between
<1> DEFINE H == c.hypotheses
           G == r.hypotheses
           order == InSlotOrder(c.table)
           order2 == InSlotOrder(r.table)
           m == Len(order)
           count == Candidates(s, token)
           S == HypothesesOf(s, Len(H))
           S2 == HypothesesOf(s, Len(G))
           Like == Alike(H, G, s)
           new == HashLayerOf(TRUE, s, token, H, order)
           new2 == HashLayerOf(FALSE, s, token, G, order2)
<1>2. /\ Descending(base) /\ Descending(base2)
      /\ H \in Seq(HypothesesOf(s, Len(base))) /\ G \in Seq(HypothesesOf(s, Len(base2)))
      /\ Keeps(H, base) /\ Keeps(G, base2)
      /\ Roomy(c.table, r.table, H, G, Len(base), Len(base2), Alike(base, base2, s))
  BY <1>1 DEF LayerDone, Parallel
<1>3. AlikeOrders(order, order2, H, G, Len(base), Len(base2), Alike(base, base2, s))
  BY <1>2, OrderAlike
<1>4. m \in Nat /\ Len(order2) = m /\ count \in Nat
      /\ \A k \in 1 .. m : EntryAlike(order[k], order2[k], H, G, Len(base), Len(base2), Alike(base, base2, s))
  BY <1>3, WordsAre DEF AlikeOrders
<1> HIDE DEF H, G, order, order2, m, count
<1>5. Descending(H) /\ Descending(G)
  BY <1>2, HypothesesDescend
<1>6. H \in Seq(S) /\ G \in Seq(S2) /\ Len(H) \in Nat /\ Len(G) \in Nat
  <2>1. Len(base) \in Nat /\ Len(base2) \in Nat /\ Len(H) \in Nat /\ Len(G) \in Nat
        /\ Len(base) <= Len(H) /\ Len(base2) <= Len(G)
    BY <1>2, <1>5 DEF Descending, Keeps
  <2>2. HypothesesOf(s, Len(base)) \subseteq S /\ HypothesesOf(s, Len(base2)) \subseteq S2
    BY <2>1, HypothesesAre
  <2> HIDE DEF S, S2
  <2>3. QED
    BY <1>2, <2>1, <2>2
<1>7. RelationOK(Like)
  BY <1>6, LikeIsOK DEF Alike
<1> DEFINE steps == count * m
<1>8. /\ LayerSteps(s, token, order) = steps /\ LayerSteps(s, token, order2) = steps
      /\ steps \in Nat
  <2>1. count * m \in Nat
    BY <1>4
  <2>2. QED
    BY <1>4, <2>1 DEF LayerSteps, count, m
<1> HIDE DEF steps
<1>9. LayerFrom(TRUE, s, token, H, order, steps) /\ LayerFrom(FALSE, s, token, G, order2, steps)
  BY <1>8, LayerLaw
<1>10. PICK f : /\ f[0] = [hypotheses |-> H, table |-> EmptyTable]
                /\ \A n \in 1 .. steps : f[n] = LayerStep(TRUE, s, token, H, order, f[n - 1], n)
                /\ new = f[steps]
  BY <1>9 DEF LayerFrom
<1>11. PICK g : /\ g[0] = [hypotheses |-> G, table |-> EmptyTable]
                /\ \A n \in 1 .. steps : g[n] = LayerStep(FALSE, s, token, G, order2, g[n - 1], n)
                /\ new2 = g[steps]
  BY <1>9 DEF LayerFrom
<1> HIDE DEF new, new2, Like, S, S2
<1> DEFINE Good(n) == Parallel(f[n], g[n], H, G, S, S2, Like)
           N == {n \in Nat : n <= steps => Good(n)}
<1>12. Good(0)
  BY <1>6, <1>10, <1>11, EmptyAlike
<1>13. ASSUME NEW n \in 1 .. steps PROVE OfferedAlike(s, token, H, G, order, order2, n)
  <2>1. n \in 1 .. count * m
    BY <1>8 DEF steps
  <2>2. PICK k \in 1 .. m, i \in 1 .. count :
          \A list : Len(list) = m =>
             /\ Transition(s, token, list, n).analysis = <<token, i>>
             /\ Transition(s, token, list, n).from = list[k]
    <3>1. TransitionWithin(s, token, m, count, n)
      BY <1>4, <2>1, TransitionIs DEF m, count
    <3>2. QED
      BY <3>1 DEF TransitionWithin
  <2> DEFINE analysis == <<token, i>>
             next == Continue(s, H, order[k], analysis)
             next2 == Continue(s, G, order2[k], analysis)
  <2>3. analysis \in Analyses(s)
    <3>1. token \in Nat /\ i \in Nat /\ i \in 1 .. Candidates(s, token)
      BY <1>4, WordsAre DEF count
    <3>2. QED
      BY <3>1 DEF Analyses
  <2>4. next \in S /\ next2 \in S2 /\ <<next, next2>> \in Like
    <3> HIDE DEF analysis
    <3>1. EntryAlike(order[k], order2[k], c.hypotheses, r.hypotheses, Len(base), Len(base2),
                     Alike(base, base2, s))
      BY <1>4 DEF H, G
    <3>2. QED
      BY <1>1, <2>3, <3>1, ContinueAlike DEF S, S2, Like, H, G
  <2>5. Offer(s, H, token, order, n) = next /\ Offer(s, G, token, order2, n) = next2
    BY <1>4, <2>2 DEF Offer, m
  <2> HIDE DEF next, next2
  <2>6. QED
    BY <2>4, <2>5 DEF OfferedAlike, S, S2, Like
<1>14. ASSUME NEW n \in Nat, n + 1 <= steps, Good(n) PROVE Good(n + 1)
  <2>1. n + 1 \in 1 .. steps /\ (n + 1) - 1 = n
    BY <1>8, <1>14
  <2> DEFINE next == Offer(s, H, token, order, n + 1)
             next2 == Offer(s, G, token, order2, n + 1)
  <2>2. next \in S /\ next2 \in S2 /\ <<next, next2>> \in Like
    BY <1>13, <2>1 DEF OfferedAlike, S, S2, Like
  <2>3. f[n + 1] = AddCandidate(f[n].table, f[n].hypotheses, next)
    <3>1. f[n + 1] = LayerStep(TRUE, s, token, H, order, f[n], n + 1)
      BY <1>10, <2>1
    <3>2. QED
      BY <3>1 DEF LayerStep
  <2>4. g[n + 1] = Add(g[n].table, g[n].hypotheses, next2)
    <3>1. g[n + 1] = LayerStep(FALSE, s, token, G, order2, g[n], n + 1)
      BY <1>11, <2>1
    <3>2. QED
      BY <3>1 DEF LayerStep
  <2> HIDE DEF next, next2
  <2>5. QED
    BY <1>6, <1>7, <1>14, <2>2, <2>3, <2>4, StepAlike
<1> HIDE DEF Good
<1>15. \A n \in Nat : n \in N => n + 1 \in N
  <2>1. ASSUME NEW n \in Nat, n \in N, n + 1 <= steps PROVE Good(n + 1)
    BY <1>8, <1>14, <2>1
  <2>2. QED
    BY <2>1
<1>16. \A n \in 0 .. steps : Good(n)
  <2>1. 0 \in N
    BY <1>12
  <2>2. Nat \subseteq N
    <3> HIDE DEF N
    <3> QED BY <1>15, <2>1, NatSetInduction
  <2>3. \A n \in 0 .. steps : n \in Nat /\ n <= steps
    BY <1>8
  <2>4. QED
    BY <2>2, <2>3
<1>17. QED
  BY <1>5, <1>8, <1>10, <1>11, <1>13, <1>16
  DEF Good, LayerBeside, new, new2, H, G, order, order2, S, S2, Like

(* So they end the layer alike.                                            *)
LEMMA LayerAlike ==
  ASSUME NEW s \in Sentences, NEW c, NEW r, Between(c, r, s), NEW token \in 1 .. Tokens(s)
  PROVE  Between(HashLayerOf(TRUE, s, token, c.hypotheses, InSlotOrder(c.table)),
                 HashLayerOf(FALSE, s, token, r.hypotheses, InSlotOrder(r.table)), s)
<1> DEFINE H == c.hypotheses
           G == r.hypotheses
           order == InSlotOrder(c.table)
           steps == LayerSteps(s, token, order)
           new == HashLayerOf(TRUE, s, token, H, order)
           new2 == HashLayerOf(FALSE, s, token, G, InSlotOrder(r.table))
<1>1. LayerBeside(s, token, c, r)
  BY LayerRunsBeside
<1>2. PICK f, g :
        /\ steps \in Nat /\ Descending(H) /\ Descending(G)
        /\ new = f[steps] /\ new2 = g[steps]
        /\ \A n \in 0 .. steps :
             Parallel(f[n], g[n], H, G, HypothesesOf(s, Len(H)), HypothesesOf(s, Len(G)),
                      Alike(H, G, s))
  BY <1>1 DEF LayerBeside
<1> HIDE DEF H, G, steps, new, new2
<1>3. steps \in 0 .. steps
  BY <1>2
<1>4. LayerDone(new, new2, H, G, s)
  BY <1>2, <1>3 DEF LayerDone
<1>5. QED
  BY <1>4 DEF Between, new, new2, H, G, order

(* A decoder before its first layer.                                       *)
Start(s) == [hypotheses |-> <<Root(s)>>, table |-> Add(EmptyTable, <<>>, Root(s)).table]

Nothing == [hypotheses |-> <<>>, table |-> EmptyTable]

(* The root is added to nothing, by the hash decoder as by the reference.  *)
StartsWithRoot(s) ==
  LET Beside(c, r) == Parallel(c, r, <<>>, <<>>, HypothesesOf(s, 0), HypothesesOf(s, 0),
                               Alike(<<>>, <<>>, s))
  IN  /\ Start(s) = AddCandidate(EmptyTable, <<>>, Root(s))
      /\ Root(s) \in HypothesesOf(s, 0) /\ <<Root(s), Root(s)>> \in Alike(<<>>, <<>>, s)
      /\ RelationOK(Alike(<<>>, <<>>, s))
      /\ Beside(Nothing, Nothing) /\ Beside(Start(s), Start(s))

(* So both decoders start alike.                                           *)
LEMMA RootAlike ==
  ASSUME NEW s \in Sentences
  PROVE  StartsWithRoot(s)
<1> DEFINE h == Root(s)
           S == HypothesesOf(s, 0)
           none == Nothing
           Like == Alike(<<>>, <<>>, s)
           t == EmptyTable
<1>1. Len(<<>>) = 0 /\ Descending(<<>>) /\ <<>> \in Seq(S) /\ 0 \in Nat
  BY DEF Descending
<1>2. h \in S
  <2>1. Begin \in Analyses(s) /\ 0 \in 0 .. 0 /\ 0 \in Int
    BY DEF Analyses
  <2>2. QED
    BY <2>1 DEF Root, HypothesesOf
<1>3. RelationOK(Like)
  BY <1>1, LikeIsOK DEF Alike
<1>4. <<h, h>> \in Like
  BY <1>1, <1>2 DEF Alike, LikeOf
<1> HIDE DEF S, Like, h
<1>5. Parallel(none, none, <<>>, <<>>, S, S, Like)
  BY <1>1, EmptyAlike DEF Nothing
<1>6. Parallel(AddCandidate(t, <<>>, h), Add(t, <<>>, h), <<>>, <<>>, S, S, Like)
  <2>1. none.table = t /\ none.hypotheses = <<>>
    BY DEF Nothing
  <2> HIDE DEF none, t
  <2>2. Parallel(AddCandidate(none.table, none.hypotheses, h), Add(none.table, none.hypotheses, h),
                 <<>>, <<>>, S, S, Like)
    BY <1>1, <1>2, <1>3, <1>4, <1>5, StepAlike
  <2>3. QED
    BY <2>1, <2>2
<1> DEFINE at == Locate(t, <<>>, h)
<1>7. t.slots[at] = 0 /\ t.size = 0
  <2>1. Roomy(t, t, <<>>, <<>>, Len(<<>>), Len(<<>>), Like)
    BY <1>5 DEF Parallel, Nothing
  <2>2. PICK n : TablesAlike(t, t, n, <<>>, <<>>, Len(<<>>), Len(<<>>), Like) /\ t.size < LoadLimit(n)
    BY <2>1 DEF Roomy
  <2> HIDE DEF t
  <2>3. at \in 0 .. n - 1
    BY <1>3, <1>4, <2>2, LocateAlike
  <2>4. DOMAIN t.slots = 0 .. n - 1
    BY <2>2, TableLength
  <2> HIDE DEF at
  <2>5. at \in DOMAIN t.slots
    BY <2>3, <2>4
  <2>6. t.slots = [slot \in 0 .. InitialSlots - 1 |-> 0] /\ t.size = 0
    BY DEF t, EmptyTable
  <2>7. QED
    BY <2>5, <2>6
<1> DEFINE pushed == Append(<<>>, h)
           new == [slots |-> [t.slots EXCEPT ![at] = 1], size |-> 1]
<1>8. pushed = <<h>> /\ Len(pushed) = 1
  OBVIOUS
<1> HIDE DEF t, at, pushed
<1>9. AddCandidate(t, <<>>, h) = [hypotheses |-> pushed, table |-> Expand(new, pushed)]
  BY <1>1, <1>7 DEF AddCandidate, InsertCandidate, at, pushed
<1>10. Add(t, <<>>, h) = [hypotheses |-> pushed, table |-> Expand(new, pushed)]
  BY <1>1, <1>7, <1>8 DEF Add, at, pushed
<1>11. Start(s) = [hypotheses |-> pushed, table |-> Expand(new, pushed)]
  <2>1. Start(s) = [hypotheses |-> <<h>>, table |-> Add(t, <<>>, h).table]
    BY DEF Start, t, h
  <2> HIDE DEF new
  <2>2. QED
    BY <1>8, <1>10, <2>1
<1> HIDE DEF new
<1>12. Parallel(Start(s), Start(s), <<>>, <<>>, S, S, Like)
  BY <1>6, <1>9, <1>10, <1>11
<1>13. Start(s) = AddCandidate(t, <<>>, h)
  BY <1>9, <1>11
<1>14. QED
  BY <1>2, <1>3, <1>4, <1>5, <1>12, <1>13 DEF StartsWithRoot, S, Like, t, h

(* Both decoders start between two layers.                                 *)
LEMMA StartAlike ==
  ASSUME NEW s \in Sentences
  PROVE  Between(Start(s), Start(s), s)
<1>1. StartsWithRoot(s)
  BY RootAlike
<1>2. Len(<<>>) = 0 /\ Descending(<<>>)
  BY DEF Descending
<1>3. LayerDone(Start(s), Start(s), <<>>, <<>>, s)
  BY <1>1, <1>2 DEF StartsWithRoot, LayerDone
<1>4. QED
  BY <1>3 DEF Between

(* The first of the best entries up to each position of the list.          *)
Better(hyps, order, b, n) ==
  IF b = 0 \/ hyps[b].score < hyps[order[n]].score THEN order[n] ELSE b

BestFrom(table, hyps, order, m) ==
  \E best : /\ best[0] = 0
            /\ \A n \in 1 .. m : best[n] = Better(hyps, order, best[n - 1], n)
            /\ Best(table, hyps) = best[m]

(* The recursion that Best is chosen by has a solution.                    *)
LEMMA BestLaw ==
  ASSUME NEW table, NEW hyps, NEW order, InSlotOrder(table) = order,
         NEW n \in Nat, Len(order) = n
  PROVE  BestFrom(table, hyps, order, n)
<1> DEFINE Step(x, j) == Better(hyps, order, x, j)
           Law(f, b) == f = [j \in 0 .. b |-> IF j = 0 THEN 0 ELSE Step(f[j - 1], j)]
           S == {b \in Nat : \E f : Law(f, b)}
<1> HIDE DEF Step
<1>1. 0 \in S
  <2>1. Law([j \in 0 .. 0 |-> 0], 0)
    OBVIOUS
  <2> HIDE DEF Law
  <2>2. QED
    BY <2>1
<1>2. ASSUME NEW b \in Nat, b \in S PROVE b + 1 \in S
  <2>1. PICK f : Law(f, b)
    BY <1>2
  <2> DEFINE g == [j \in 0 .. b + 1 |-> IF j = b + 1 THEN Step(f[b], b + 1) ELSE f[j]]
  <2>2. \A j \in 0 .. b : f[j] = IF j = 0 THEN 0 ELSE Step(f[j - 1], j)
    BY <2>1
  <2>3. ASSUME NEW j \in 0 .. b + 1 PROVE g[j] = IF j = 0 THEN 0 ELSE Step(g[j - 1], j)
    <3>1. CASE j = b + 1
      <4>1. j - 1 = b /\ b \in 0 .. b + 1 /\ b # b + 1 /\ j # 0
        BY <3>1
      <4>2. g[j - 1] = f[b] /\ g[j] = Step(f[b], b + 1)
        BY <3>1, <4>1
      <4>3. QED
        BY <3>1, <4>1, <4>2
    <3>2. CASE j # b + 1
      <4>1. j \in 0 .. b /\ g[j] = f[j]
        BY <3>2
      <4>2. j # 0 => j - 1 \in 0 .. b + 1 /\ j - 1 # b + 1 /\ g[j - 1] = f[j - 1]
        BY <4>1
      <4> HIDE DEF g
      <4>3. QED
        BY <2>2, <4>1, <4>2
    <3>3. QED
      BY <3>1, <3>2
  <2>4. Law(g, b + 1)
    <3>1. g = [j \in 0 .. b + 1 |-> g[j]]
      OBVIOUS
    <3> HIDE DEF g
    <3>2. QED
      BY <2>3, <3>1
  <2> HIDE DEF Law, g
  <2>5. QED
    BY <2>4
<1>3. n \in S
  <2> HIDE DEF S
  <2> QED BY <1>1, <1>2, NatSetInduction
<1> DEFINE best == CHOOSE f : Law(f, n)
<1>4. Law(best, n)
  <2>1. \E f : Law(f, n)
    BY <1>3
  <2> HIDE DEF Law
  <2>2. QED
    BY <2>1
<1>5. Best(table, hyps) = best[n]
  BY DEF Best, Step, Better
<1> HIDE DEF best
<1>6. \A j \in 0 .. n : best[j] = IF j = 0 THEN 0 ELSE Step(best[j - 1], j)
  BY <1>4
<1>7. best[0] = 0 /\ \A j \in 1 .. n : best[j] = Step(best[j - 1], j)
  BY <1>6
<1>8. QED
  BY <1>5, <1>7 DEF Step, BestFrom

(* What the end transition leaves and adds.                                *)
EndsAs(final, s, H, listed) ==
  /\ Descending(final) /\ Len(final) = Len(H) /\ SameBacks(final, H, Len(H))
  /\ \A i \in 1 .. Len(H) : i \in listed =>
       final[i].score = H[i].score + Weight(s, H[i].previous, H[i].current, <<Tokens(s) + 1, 1>>)

(* The end transition leaves every path as it was.                         *)
LEMMA TerminatedIs ==
  ASSUME NEW s \in Sentences, NEW n \in Nat, NEW H \in Seq(HypothesesOf(s, n)), Descending(H), NEW listed
  PROVE  EndsAs(Terminated(s, H, listed), s, H, listed)
<1> DEFINE final == Terminated(s, H, listed)
           end(i) == Weight(s, H[i].previous, H[i].current, <<Tokens(s) + 1, 1>>)
<1>1. Len(H) \in Nat /\ DOMAIN H = 1 .. Len(H) /\ \A i \in 1 .. Len(H) : H[i].back \in 0 .. i - 1
  BY DEF Descending
<1>2. \A i \in 1 .. Len(H) : H[i] = Hypothesis(s, H[i].previous, H[i].current, H[i].back, H[i].score)
  <2>1. \A i \in 1 .. Len(H) : H[i] \in HypothesesOf(s, n)
    OBVIOUS
  <2>2. QED
    BY <2>1, HypothesesAre
<1>3. DOMAIN final = 1 .. Len(H) /\ Len(final) = Len(H)
  BY <1>1 DEF Terminated
<1>4. ASSUME NEW i \in 1 .. Len(H)
      PROVE  /\ final[i].back = H[i].back /\ final[i].current = H[i].current
             /\ i \in listed => final[i].score = H[i].score + end(i)
  <2>1. final[i] = IF i \in listed THEN [H[i] EXCEPT !.score = @ + end(i)] ELSE H[i]
    BY <1>1 DEF Terminated
  <2>2. H[i] = Hypothesis(s, H[i].previous, H[i].current, H[i].back, H[i].score)
    BY <1>2
  <2> DEFINE x == H[i]
  <2> HIDE DEF end, final
  <2>3. CASE i \in listed
    <3>1. final[i] = [x EXCEPT !.score = x.score + end(i)]
      BY <2>1, <2>3
    <3>2. DOMAIN x = {"previous", "current", "back", "score", "state", "hash"}
      BY <2>2 DEF Hypothesis
    <3> HIDE DEF x
    <3>3. final[i].back = x.back /\ final[i].current = x.current /\ final[i].score = x.score + end(i)
      BY <3>1, <3>2
    <3>4. QED
      BY <3>3 DEF x
  <2>4. CASE i \notin listed
    BY <2>1, <2>4
  <2>5. QED
    BY <2>3, <2>4
<1> HIDE DEF final
<1>5. Descending(final) /\ SameBacks(final, H, Len(H))
  BY <1>1, <1>3, <1>4 DEF Descending, SameBacks
<1>6. QED
  BY <1>3, <1>4, <1>5 DEF EndsAs, final

(* Chosen, of the state a decoder ends in.                                 *)
ChosenFrom(s, c) ==
  LET order == InSlotOrder(c.table)
      final == Terminated(s, c.hypotheses, {order[i] : i \in DOMAIN order})
  IN  Reconstruct(final, Best(c.table, final))

(* Alike decoders choose the same path: the first of the best in the same  *)
(* order of slots.                                                         *)
LEMMA ChosenAlike ==
  ASSUME NEW s \in Sentences, NEW c, NEW r, Between(c, r, s)
  PROVE  ChosenFrom(s, c) = ChosenFrom(s, r)
<1>1. PICK base, base2 : LayerDone(c, r, base, base2, s)
  BY DEF Between
<1> DEFINE H == c.hypotheses
           G == r.hypotheses
           order == InSlotOrder(c.table)
           order2 == InSlotOrder(r.table)
           m == Len(order)
           listed == {order[i] : i \in DOMAIN order}
           listed2 == {order2[i] : i \in DOMAIN order2}
           final == Terminated(s, H, listed)
           final2 == Terminated(s, G, listed2)
<1>2. /\ Descending(base) /\ Descending(base2)
      /\ H \in Seq(HypothesesOf(s, Len(base))) /\ G \in Seq(HypothesesOf(s, Len(base2)))
      /\ Keeps(H, base) /\ Keeps(G, base2)
      /\ Roomy(c.table, r.table, H, G, Len(base), Len(base2), Alike(base, base2, s))
  BY <1>1 DEF LayerDone, Parallel
<1>3. AlikeOrders(order, order2, H, G, Len(base), Len(base2), Alike(base, base2, s))
  BY <1>2, OrderAlike
<1>4. /\ m \in Nat /\ Len(order2) = m /\ DOMAIN order = 1 .. m /\ DOMAIN order2 = 1 .. m
      /\ \A k \in 1 .. m : EntryAlike(order[k], order2[k], H, G, Len(base), Len(base2), Alike(base, base2, s))
  BY <1>3 DEF AlikeOrders
<1>5. \A k \in 1 .. m : EndAlike(H, G, order[k], order2[k])
  BY <1>1, <1>4, PathsAlike
<1> HIDE DEF H, G, order, order2, m
<1>6. Descending(H) /\ Descending(G) /\ Len(base) \in Nat /\ Len(base2) \in Nat
  BY <1>2, HypothesesDescend DEF Descending
<1>7. EndsAs(final, s, H, listed) /\ EndsAs(final2, s, G, listed2)
  <2> HIDE DEF listed, listed2
  <2> QED BY <1>2, <1>6, TerminatedIs
<1> DEFINE end == <<Tokens(s) + 1, 1>>
<1> HIDE DEF final, final2
<1>8. ASSUME NEW k \in 1 .. m
      PROVE  /\ order[k] \in 1 .. Len(H) /\ order2[k] \in 1 .. Len(G)
             /\ order[k] # 0 /\ order2[k] # 0
             /\ final[order[k]].score = final2[order2[k]].score
             /\ Reconstruct(final, order[k]) = Reconstruct(final2, order2[k])
  <2> DEFINE a == order[k]
             b == order2[k]
  <2>1. EndAlike(H, G, a, b)
    BY <1>5
  <2>2. a \in listed /\ b \in listed2
    BY <1>4
  <2> HIDE DEF a, b, listed, listed2
  <2>3. /\ a \in 1 .. Len(H) /\ b \in 1 .. Len(G)
        /\ H[a].previous = G[b].previous /\ H[a].current = G[b].current /\ H[a].score = G[b].score
        /\ Reconstruct(H, a) = Reconstruct(G, b)
    BY <2>1 DEF EndAlike
  <2>4. /\ final[a].score = H[a].score + Weight(s, H[a].previous, H[a].current, end)
        /\ final2[b].score = G[b].score + Weight(s, G[b].previous, G[b].current, end)
    BY <1>7, <2>2, <2>3 DEF EndsAs
  <2>5. final[a].score = final2[b].score
    BY <2>3, <2>4
  <2>6. /\ Descending(final) /\ Len(final) = Len(H) /\ SameBacks(final, H, Len(H))
        /\ Descending(final2) /\ Len(final2) = Len(G) /\ SameBacks(final2, G, Len(G))
    BY <1>7 DEF EndsAs
  <2>7. Len(H) \in Nat /\ Len(G) \in Nat /\ Len(H) <= Len(H) /\ Len(G) <= Len(G)
        /\ Len(H) <= Len(final) /\ Len(G) <= Len(final2)
    BY <1>6, <2>6 DEF Descending
  <2>8. /\ \A i \in 0 .. Len(H) : Reconstruct(final, i) = Reconstruct(H, i)
        /\ \A i \in 0 .. Len(G) : Reconstruct(final2, i) = Reconstruct(G, i)
    BY <1>6, <2>6, <2>7, SamePaths
  <2>9. a \in 0 .. Len(H) /\ b \in 0 .. Len(G) /\ a # 0 /\ b # 0
    BY <2>3, <2>7
  <2>10. Reconstruct(final, a) = Reconstruct(final2, b)
    BY <2>3, <2>8, <2>9
  <2>11. QED
    BY <2>3, <2>5, <2>9, <2>10 DEF a, b
<1>9. BestFrom(c.table, final, order, m) /\ BestFrom(r.table, final2, order2, m)
  BY <1>4, BestLaw DEF order, order2, m
<1>10. PICK f : /\ f[0] = 0 /\ \A n \in 1 .. m : f[n] = Better(final, order, f[n - 1], n)
                /\ Best(c.table, final) = f[m]
  BY <1>9 DEF BestFrom
<1>11. PICK g : /\ g[0] = 0 /\ \A n \in 1 .. m : g[n] = Better(final2, order2, g[n - 1], n)
                /\ Best(r.table, final2) = g[m]
  BY <1>9 DEF BestFrom
<1> DEFINE PickedAlike(a, b) == (a = 0 /\ b = 0) \/ (\E k \in 1 .. m : a = order[k] /\ b = order2[k])
           N == {n \in Nat : n <= m => PickedAlike(f[n], g[n])}
<1>12. ASSUME NEW n \in Nat, n + 1 <= m, PickedAlike(f[n], g[n]) PROVE PickedAlike(f[n + 1], g[n + 1])
  <2>1. n + 1 \in 1 .. m /\ (n + 1) - 1 = n
    BY <1>4, <1>12
  <2>2. f[n + 1] = Better(final, order, f[n], n + 1) /\ g[n + 1] = Better(final2, order2, g[n], n + 1)
    BY <1>10, <1>11, <2>1
  <2>3. f[n] = 0 <=> g[n] = 0
    BY <1>8, <1>12
  <2>4. f[n] # 0 => final[f[n]].score = final2[g[n]].score
    BY <1>8, <1>12
  <2>5. final[order[n + 1]].score = final2[order2[n + 1]].score
    BY <1>8, <2>1
  <2>6. \/ f[n + 1] = order[n + 1] /\ g[n + 1] = order2[n + 1]
        \/ f[n + 1] = f[n] /\ g[n + 1] = g[n]
    BY <2>2, <2>3, <2>4, <2>5 DEF Better
  <2>7. QED
    BY <1>12, <2>1, <2>6
<1>13. m \in N
  <2>1. 0 \in N
    BY <1>10, <1>11
  <2>2. \A n \in Nat : n \in N => n + 1 \in N
    <3> HIDE DEF PickedAlike
    <3>1. ASSUME NEW n \in Nat, n \in N, n + 1 <= m PROVE PickedAlike(f[n + 1], g[n + 1])
      BY <1>4, <1>12, <3>1
    <3>2. QED
      BY <3>1
  <2> HIDE DEF N
  <2>3. QED
    BY <1>4, <2>1, <2>2, NatSetInduction
<1>14. PickedAlike(f[m], g[m])
  BY <1>4, <1>13
<1>15. Reconstruct(final, f[m]) = Reconstruct(final2, g[m])
  <2>1. Reconstruct(final, 0) = <<>> /\ Reconstruct(final2, 0) = <<>>
    BY <1>7, ReconstructIs DEF EndsAs
  <2>2. QED
    BY <1>8, <1>14, <2>1
<1>16. ChosenFrom(s, c) = Reconstruct(final, f[m]) /\ ChosenFrom(s, r) = Reconstruct(final2, g[m])
  BY <1>10, <1>11 DEF ChosenFrom, final, final2, H, G, order, order2
<1>17. QED
  BY <1>15, <1>16

(* Between layers both tables have room.                                   *)
LEMMA BetweenHasRoom ==
  ASSUME NEW s, NEW c, NEW r, Between(c, r, s)
  PROVE  /\ Occupied(c.table) # DOMAIN c.table.slots
         /\ Occupied(r.table) # DOMAIN r.table.slots
<1>1. PICK base, base2 : LayerDone(c, r, base, base2, s)
  BY DEF Between
<1>2. Roomy(c.table, r.table, c.hypotheses, r.hypotheses, Len(base), Len(base2), Alike(base, base2, s))
  BY <1>1 DEF LayerDone, Parallel
<1>3. PICK n : /\ TablesAlike(c.table, r.table, n, c.hypotheses, r.hypotheses, Len(base), Len(base2),
                              Alike(base, base2, s))
               /\ c.table.size < LoadLimit(n)
  BY <1>2 DEF Roomy
<1>4. QED
  BY <1>3, HasRoom

(* Two decoders with the same hypotheses and the same table.               *)
SameState(c, d) == c.hypotheses = d.hypotheses /\ c.table = d.table

(* What is known of a decoder carries over to one in the same state.       *)
LEMMA SameStateSame ==
  ASSUME NEW s, NEW c, NEW d, SameState(c, d), NEW r
  PROVE  /\ Between(c, r, s) => Between(d, r, s)
         /\ Between(r, c, s) => Between(r, d, s)
         /\ ChosenFrom(s, c) = ChosenFrom(s, d)
<1>1. c.hypotheses = d.hypotheses /\ c.table = d.table
  BY DEF SameState
<1>2. \A base, base2 : /\ LayerDone(c, r, base, base2, s) => LayerDone(d, r, base, base2, s)
                       /\ LayerDone(r, c, base, base2, s) => LayerDone(r, d, base, base2, s)
  BY <1>1 DEF LayerDone, Parallel
<1>3. QED
  BY <1>1, <1>2 DEF Between, ChosenFrom

-----------------------------------------------------------------------------
(* A run of the hash decoder up to a layer.                                *)
RunTo(run, s, last) ==
  /\ run[1] = Start(s)
  /\ \A k \in 1 .. last - 1 :
       run[k + 1] = HashLayerOf(TRUE, s, k, run[k].hypotheses, InSlotOrder(run[k].table))

Current == [hypotheses |-> hypotheses, table |-> active]

DecoderShape ==
  /\ sentence \in Sentences
  /\ layer \in 1 .. Tokens(sentence) + 1
  /\ DOMAIN selected = {"dense", "hash", "rich"}
  /\ decoder # "done" => selected["rich"] = None
  /\ decoder = "dense" => active = EmptyTable

(* While the hash decoder runs, the reference could be run beside it.      *)
HashShape ==
  decoder = "hash" =>
    \E run : /\ RunTo(run, sentence, layer)
             /\ SameState(run[layer], Current)
             /\ \E r : Between(Current, r, sentence)

(* While the reference runs, it is layer by layer what the hash decoder    *)
(* was.                                                                    *)
RichShape ==
  decoder = "rich" =>
    \E run : /\ RunTo(run, sentence, Tokens(sentence) + 1)
             /\ selected["hash"] = ChosenFrom(sentence, run[Tokens(sentence) + 1])
             /\ Between(run[layer], Current, sentence)

DoneShape ==
  decoder = "done" =>
    /\ selected["rich"] = selected["hash"]
    /\ Occupied(active) # DOMAIN active.slots

IInv ==
  /\ decoder \in {"dense", "hash", "rich", "done"}
  /\ DecoderShape /\ HashShape /\ RichShape /\ DoneShape

(* The inductive invariant implies both properties.                        *)
LEMMA InvariantImplies ==
  ASSUME IInv
  PROVE  TableHasRoom /\ CompactAgreesWithReference
<1>1. TableHasRoom
  <2>1. CASE decoder = "dense"
    <3>1. active = [slots |-> [slot \in 0 .. InitialSlots - 1 |-> 0], size |-> 0]
      BY <2>1 DEF IInv, DecoderShape, EmptyTable
    <3>2. active.slots = [slot \in 0 .. InitialSlots - 1 |-> 0]
      BY <3>1
    <3>3. Occupied(active) = {} /\ 0 \in DOMAIN active.slots
      BY <3>2 DEF Occupied, InitialSlots
    <3>4. QED
      BY <3>3 DEF TableHasRoom
  <2>2. CASE decoder = "hash"
    <3>1. PICK r : Between(Current, r, sentence)
      BY <2>2 DEF IInv, HashShape
    <3>2. Current.table = active
      BY DEF Current
    <3>3. QED
      BY <3>1, <3>2, BetweenHasRoom DEF TableHasRoom
  <2>3. CASE decoder = "rich"
    <3>1. PICK c : Between(c, Current, sentence)
      BY <2>3 DEF IInv, RichShape
    <3>2. Current.table = active
      BY DEF Current
    <3>3. QED
      BY <3>1, <3>2, BetweenHasRoom DEF TableHasRoom
  <2>4. CASE decoder = "done"
    BY <2>4 DEF IInv, DoneShape, TableHasRoom
  <2>5. QED
    BY <2>1, <2>2, <2>3, <2>4 DEF IInv
<1>2. CompactAgreesWithReference
  <2>1. CASE decoder = "done"
    BY <2>1 DEF IInv, DoneShape, CompactAgreesWithReference
  <2>2. CASE decoder # "done"
    BY <2>2 DEF IInv, DecoderShape, CompactAgreesWithReference, Answered
  <2>3. QED
    BY <2>1, <2>2
<1>3. QED
  BY <1>1, <1>2

(* It holds initially.                                                     *)
LEMMA InitEstablishes == Init => IInv
<1> SUFFICES ASSUME Init PROVE IInv
  OBVIOUS
<1>1. Tokens(sentence) \in Nat /\ sentence \in Sentences
  BY WordsAre DEF Init
<1>2. 1 \in 1 .. Tokens(sentence) + 1
  BY <1>1
<1>3. DOMAIN selected = {"dense", "hash", "rich"} /\ selected["rich"] = None
  BY DEF Init
<1>4. DecoderShape
  BY <1>1, <1>2, <1>3 DEF Init, DecoderShape
<1>5. QED
  BY <1>4 DEF Init, IInv, HashShape, RichShape, DoneShape

(* Starting a decoder begins a layer sequence over.                        *)
LEMMA StartsAlike ==
  ASSUME IInv, NEW next, NEW answer, StartNext(next, answer)
  PROVE  /\ Current' = Start(sentence') /\ layer' = 1 /\ sentence' = sentence
         /\ 1 \in 1 .. Tokens(sentence) + 1
         /\ Between(Start(sentence), Start(sentence), sentence)
         /\ DOMAIN selected' = {"dense", "hash", "rich"}
         /\ selected'[decoder] = IF decoder = "done" THEN selected'[decoder] ELSE answer
         /\ \A d \in {"dense", "hash", "rich"} : d # decoder => selected'[d] = selected[d]
<1>1. Tokens(sentence) \in Nat /\ sentence \in Sentences
  BY WordsAre DEF IInv, DecoderShape
<1>2. /\ layer' = 1 /\ hypotheses' = <<Root(sentence)>> /\ sentence' = sentence
      /\ active' = Add(EmptyTable, <<>>, Root(sentence)).table
      /\ selected' = [selected EXCEPT ![decoder] = answer]
  BY DEF StartNext
<1>3. DOMAIN selected = {"dense", "hash", "rich"} /\ decoder \in {"dense", "hash", "rich", "done"}
  BY DEF IInv, DecoderShape
<1>4. Current' = Start(sentence')
  BY <1>2 DEF Current, Start
<1>5. 1 \in 1 .. Tokens(sentence) + 1
  BY <1>1
<1>6. Between(Start(sentence), Start(sentence), sentence)
  BY <1>1, StartAlike
<1>7. QED
  BY <1>2, <1>3, <1>4, <1>5, <1>6

(* A run that goes one layer further.                                      *)
Longer(s, last, next) == \E longer : RunTo(longer, s, last + 1) /\ longer[last + 1] = next

(* A run of the hash decoder is extended by its next layer.                *)
LEMMA RunGoesOn ==
  ASSUME NEW s, NEW last \in Nat, last >= 1, NEW run, RunTo(run, s, last), NEW next,
         next = HashLayerOf(TRUE, s, last, run[last].hypotheses, InSlotOrder(run[last].table))
  PROVE  Longer(s, last, next)
<1> DEFINE longer == [k \in 1 .. last + 1 |-> IF k = last + 1 THEN next ELSE run[k]]
           After(x, k) == HashLayerOf(TRUE, s, k, x.hypotheses, InSlotOrder(x.table))
<1>1. /\ run[1] = Start(s) /\ \A k \in 1 .. last - 1 : run[k + 1] = After(run[k], k)
      /\ next = After(run[last], last)
  BY DEF RunTo
<1> HIDE DEF After
<1>2. longer[last + 1] = next /\ \A k \in 1 .. last : longer[k] = run[k]
  <2>1. last + 1 \in 1 .. last + 1 /\ \A k \in 1 .. last : k \in 1 .. last + 1 /\ k # last + 1
    OBVIOUS
  <2>2. QED
    BY <2>1
<1> HIDE DEF longer
<1>3. longer[1] = Start(s)
  BY <1>1, <1>2
<1>4. ASSUME NEW k \in 1 .. (last + 1) - 1 PROVE longer[k + 1] = After(longer[k], k)
  <2>1. k \in 1 .. last /\ longer[k] = run[k]
    BY <1>2
  <2>2. CASE k = last
    BY <1>1, <1>2, <2>1, <2>2
  <2>3. CASE k # last
    <3>1. k \in 1 .. last - 1 /\ k + 1 \in 1 .. last
      BY <2>1, <2>3
    <3>2. QED
      BY <1>1, <1>2, <2>1, <3>1
  <2>4. QED
    BY <2>2, <2>3
<1>5. RunTo(longer, s, last + 1)
  BY <1>3, <1>4 DEF RunTo, After
<1>6. QED
  BY <1>2, <1>5 DEF Longer

(* Every step preserves it.                                                *)
LEMMA NextPreserves == IInv /\ [Next]_vars => IInv'
<1> SUFFICES ASSUME IInv, [Next]_vars PROVE IInv'
  OBVIOUS
<1>1. /\ sentence \in Sentences /\ Tokens(sentence) \in Nat
      /\ layer \in 1 .. Tokens(sentence) + 1
      /\ DOMAIN selected = {"dense", "hash", "rich"}
      /\ decoder # "done" => selected["rich"] = None
  BY WordsAre DEF IInv, DecoderShape
<1>2. ASSUME NEW answer, decoder = "dense", StartNext("hash", answer) PROVE IInv'
  <2>1. /\ Current' = Start(sentence) /\ layer' = 1 /\ sentence' = sentence
        /\ 1 \in 1 .. Tokens(sentence) + 1
        /\ Between(Start(sentence), Start(sentence), sentence)
        /\ DOMAIN selected' = {"dense", "hash", "rich"}
        /\ selected'["rich"] = selected["rich"]
    BY <1>2, StartsAlike
  <2>2. decoder' = "hash"
    BY <1>2 DEF StartNext
  <2>3. DecoderShape'
    BY <1>1, <1>2, <2>1, <2>2 DEF DecoderShape
  <2>4. HashShape'
    <3> DEFINE run == [k \in 1 .. 1 |-> Start(sentence)]
    <3>1. RunTo(run, sentence', 1) /\ SameState(run[1], Current')
      BY <2>1 DEF RunTo, SameState
    <3>2. Between(Current', Start(sentence), sentence')
      BY <2>1
    <3> HIDE DEF run
    <3>3. QED
      BY <2>1, <3>1, <3>2 DEF HashShape
  <2>5. QED
    BY <2>2, <2>3, <2>4 DEF IInv, RichShape, DoneShape
<1>3. CASE DenseReject
  BY <1>2, <1>3 DEF DenseReject
<1>4. CASE DenseLayer
  <2>1. decoder = "dense" /\ layer <= Tokens(sentence)
    BY <1>4 DEF DenseLayer
  <2>2. CASE StartNext("hash", Fallback)
    BY <1>2, <2>1, <2>2
  <2>3. CASE ~ StartNext("hash", Fallback)
    <3>1. layer' = layer + 1 /\ UNCHANGED <<sentence, decoder, active, selected>>
      BY <1>4, <2>3 DEF DenseLayer
    <3>2. layer' \in 1 .. Tokens(sentence') + 1
      BY <1>1, <2>1, <3>1
    <3>3. DecoderShape'
      BY <1>1, <3>1, <3>2 DEF IInv, DecoderShape
    <3>4. QED
      BY <2>1, <3>1, <3>3 DEF IInv, HashShape, RichShape, DoneShape
  <2>4. QED
    BY <2>2, <2>3
<1>5. CASE DenseFinish
  BY <1>2, <1>5 DEF DenseFinish
<1>6. CASE HashLayer
  <2>1. decoder = "hash" /\ layer <= Tokens(sentence) /\ layer \in Nat /\ layer >= 1
        /\ layer \in 1 .. Tokens(sentence)
    BY <1>1, <1>6 DEF HashLayer
  <2> DEFINE next == HashLayerOf(TRUE, sentence, layer, hypotheses, InSlotOrder(active))
  <2>2. /\ hypotheses' = next.hypotheses /\ active' = next.table /\ layer' = layer + 1
        /\ UNCHANGED <<sentence, decoder, dense, selected>>
    BY <1>6 DEF HashLayer, TakeLayer
  <2> HIDE DEF next
  <2>3. layer' \in 1 .. Tokens(sentence') + 1
    BY <1>1, <2>1, <2>2
  <2>4. DecoderShape'
    BY <1>1, <2>1, <2>2, <2>3 DEF IInv, DecoderShape
  <2>5. PICK run, r : /\ RunTo(run, sentence, layer) /\ SameState(run[layer], Current)
                      /\ Between(Current, r, sentence)
    BY <2>1 DEF IInv, HashShape
  <2>6. Current.hypotheses = hypotheses /\ Current.table = active
    BY DEF Current
  <2>7. next = HashLayerOf(TRUE, sentence, layer, run[layer].hypotheses, InSlotOrder(run[layer].table))
    BY <2>5, <2>6 DEF next, SameState
  <2>8. PICK longer : RunTo(longer, sentence, layer + 1) /\ longer[layer + 1] = next
    <3>1. Longer(sentence, layer, next)
      BY <2>1, <2>5, <2>7, RunGoesOn
    <3>2. QED
      BY <3>1 DEF Longer
  <2>9. PICK r2 : Between(next, r2, sentence)
    <3>1. Between(HashLayerOf(TRUE, sentence, layer, Current.hypotheses, InSlotOrder(Current.table)),
                  HashLayerOf(FALSE, sentence, layer, r.hypotheses, InSlotOrder(r.table)), sentence)
      BY <1>1, <2>1, <2>5, LayerAlike
    <3>2. QED
      BY <2>6, <3>1 DEF next
  <2>10. SameState(next, Current') /\ Between(Current', r2, sentence)
    <3>1. SameState(next, Current')
      BY <2>2 DEF Current, SameState
    <3>2. QED
      BY <2>9, <3>1, SameStateSame
  <2>11. HashShape'
    BY <2>2, <2>8, <2>10 DEF HashShape
  <2>12. QED
    BY <2>1, <2>2, <2>4, <2>11 DEF IInv, RichShape, DoneShape
<1>7. CASE HashFinish
  <2>1. decoder = "hash" /\ layer > Tokens(sentence) /\ StartNext("rich", Chosen)
    BY <1>7 DEF HashFinish
  <2>2. layer = Tokens(sentence) + 1
    BY <1>1, <2>1
  <2>3. PICK run : RunTo(run, sentence, layer) /\ SameState(run[layer], Current)
    BY <2>1 DEF IInv, HashShape
  <2>4. Chosen = ChosenFrom(sentence, Current)
    BY DEF Chosen, ChosenFrom, Current
  <2>5. /\ Current' = Start(sentence) /\ layer' = 1 /\ sentence' = sentence
        /\ 1 \in 1 .. Tokens(sentence) + 1
        /\ Between(Start(sentence), Start(sentence), sentence)
        /\ DOMAIN selected' = {"dense", "hash", "rich"}
        /\ selected'["hash"] = Chosen /\ selected'["rich"] = selected["rich"]
    BY <2>1, StartsAlike
  <2>6. decoder' = "rich"
    BY <2>1 DEF StartNext
  <2>7. DecoderShape'
    BY <1>1, <2>1, <2>5, <2>6 DEF DecoderShape
  <2>8. RichShape'
    <3>1. RunTo(run, sentence', Tokens(sentence') + 1) /\ run[1] = Start(sentence)
      BY <2>2, <2>3, <2>5 DEF RunTo
    <3>2. selected'["hash"] = ChosenFrom(sentence', run[Tokens(sentence') + 1])
      BY <2>2, <2>3, <2>4, <2>5, SameStateSame
    <3>3. Between(run[layer'], Current', sentence')
      BY <2>5, <3>1
    <3>4. QED
      BY <3>1, <3>2, <3>3 DEF RichShape
  <2>9. QED
    BY <2>6, <2>7, <2>8 DEF IInv, HashShape, DoneShape
<1>8. CASE RichLayer
  <2>1. decoder = "rich" /\ layer <= Tokens(sentence) /\ layer \in Nat /\ layer >= 1
        /\ layer \in 1 .. Tokens(sentence)
    BY <1>1, <1>8 DEF RichLayer
  <2> DEFINE next == HashLayerOf(FALSE, sentence, layer, hypotheses, InSlotOrder(active))
  <2>2. /\ hypotheses' = next.hypotheses /\ active' = next.table /\ layer' = layer + 1
        /\ UNCHANGED <<sentence, decoder, dense, selected>>
    BY <1>8 DEF RichLayer, TakeLayer
  <2> HIDE DEF next
  <2>3. layer' \in 1 .. Tokens(sentence') + 1
    BY <1>1, <2>1, <2>2
  <2>4. DecoderShape'
    BY <1>1, <2>1, <2>2, <2>3 DEF IInv, DecoderShape
  <2>5. PICK run : /\ RunTo(run, sentence, Tokens(sentence) + 1)
                   /\ selected["hash"] = ChosenFrom(sentence, run[Tokens(sentence) + 1])
                   /\ Between(run[layer], Current, sentence)
    BY <2>1 DEF IInv, RichShape
  <2>6. Current.hypotheses = hypotheses /\ Current.table = active
    BY DEF Current
  <2>7. run[layer + 1] = HashLayerOf(TRUE, sentence, layer, run[layer].hypotheses, InSlotOrder(run[layer].table))
    <3>1. layer \in 1 .. (Tokens(sentence) + 1) - 1
      BY <1>1, <2>1
    <3>2. QED
      BY <2>5, <3>1 DEF RunTo
  <2>8. Between(run[layer + 1], next, sentence)
    <3>1. Between(HashLayerOf(TRUE, sentence, layer, run[layer].hypotheses, InSlotOrder(run[layer].table)),
                  HashLayerOf(FALSE, sentence, layer, Current.hypotheses, InSlotOrder(Current.table)), sentence)
      BY <1>1, <2>1, <2>5, LayerAlike
    <3>2. QED
      BY <2>6, <2>7, <3>1 DEF next
  <2>9. Between(run[layer + 1], Current', sentence)
    <3>1. SameState(next, Current')
      BY <2>2 DEF Current, SameState
    <3> DEFINE now == Current'
               before == run[layer + 1]
    <3>2. SameState(next, now) /\ Between(before, next, sentence)
      BY <2>8, <3>1
    <3> HIDE DEF now, before
    <3>3. Between(before, now, sentence)
      BY ONLY <3>2, SameStateSame
    <3>4. QED
      BY <3>3 DEF now, before
  <2>10. RichShape'
    BY <2>2, <2>5, <2>9 DEF RichShape
  <2>11. QED
    BY <2>1, <2>2, <2>4, <2>10 DEF IInv, HashShape, DoneShape
<1>9. CASE RichFinish
  <2>1. decoder = "rich" /\ layer > Tokens(sentence) /\ StartNext("done", Chosen)
    BY <1>9 DEF RichFinish
  <2>2. layer = Tokens(sentence) + 1
    BY <1>1, <2>1
  <2>3. PICK run : /\ selected["hash"] = ChosenFrom(sentence, run[Tokens(sentence) + 1])
                   /\ Between(run[layer], Current, sentence)
    BY <2>1 DEF IInv, RichShape
  <2>4. Chosen = ChosenFrom(sentence, Current)
    BY DEF Chosen, ChosenFrom, Current
  <2>5. Chosen = selected["hash"]
    <3>1. ChosenFrom(sentence, run[layer]) = ChosenFrom(sentence, Current)
      BY <1>1, <2>3, ChosenAlike
    <3>2. QED
      BY <2>2, <2>3, <2>4, <3>1
  <2>6. /\ Current' = Start(sentence) /\ layer' = 1 /\ sentence' = sentence
        /\ 1 \in 1 .. Tokens(sentence) + 1
        /\ Between(Start(sentence), Start(sentence), sentence)
        /\ DOMAIN selected' = {"dense", "hash", "rich"}
        /\ selected'["rich"] = Chosen /\ selected'["hash"] = selected["hash"]
    BY <2>1, StartsAlike
  <2>7. decoder' = "done"
    BY <2>1 DEF StartNext
  <2>8. DecoderShape'
    BY <1>1, <2>6, <2>7 DEF DecoderShape
  <2>9. DoneShape'
    <3>1. Occupied(Start(sentence).table) # DOMAIN Start(sentence).table.slots
      BY <2>6, BetweenHasRoom
    <3>2. active' = Start(sentence).table
      BY <2>6 DEF Current
    <3>3. Occupied(active') # DOMAIN active'.slots
      BY <3>1, <3>2
    <3>4. QED
      BY <2>5, <2>6, <3>3 DEF DoneShape, Occupied
  <2>10. QED
    BY <2>7, <2>8, <2>9 DEF IInv, HashShape, RichShape
<1>10. CASE UNCHANGED vars
  BY <1>10 DEF vars, IInv, DecoderShape, HashShape, RichShape, DoneShape, Current
<1>11. QED
  BY <1>3, <1>4, <1>5, <1>6, <1>7, <1>8, <1>9, <1>10 DEF Next

(* No table of the hash decoders is ever full, so that Locate and the      *)
(* rehashing always end their probes.                                      *)
THEOREM TablesHaveRoom == Spec => []TableHasRoom
<1>1. IInv => TableHasRoom
  BY InvariantImplies
<1>2. QED
  BY <1>1, InitEstablishes, NextPreserves, PTL DEF Spec

(* For every sentence, the compact decoder, which overwrites hypotheses in *)
(* place, selects what the reference selects, which keeps them all.        *)
THEOREM CompactIsReference == Spec => []CompactAgreesWithReference
<1>1. IInv => CompactAgreesWithReference
  BY InvariantImplies
<1>2. QED
  BY <1>1, InitEstablishes, NextPreserves, PTL DEF Spec
-----------------------------------------------------------------------------
(* Numbers have a common bound.                                            *)
LEMMA CandidatesBounded ==
  ASSUME NEW s \in Sentences
  PROVE  \E b \in Nat : \A t \in 1 .. Tokens(s) : Candidates(s, t) <= b
<1> DEFINE Bounded(m) == \E b \in Nat : \A t \in 1 .. m : Candidates(s, t) <= b
           S == {m \in Nat : m <= Tokens(s) => Bounded(m)}
<1>1. Tokens(s) \in Nat /\ \A t \in 1 .. Tokens(s) : Candidates(s, t) \in Nat
  BY WordsAre
<1>2. 0 \in S
  BY <1>1
<1>3. ASSUME NEW m \in Nat, m + 1 <= Tokens(s), Bounded(m) PROVE Bounded(m + 1)
  <2>1. PICK b \in Nat : \A t \in 1 .. m : Candidates(s, t) <= b
    BY <1>3
  <2>2. m + 1 \in 1 .. Tokens(s) /\ \A t \in 1 .. m + 1 : t \in 1 .. m \/ t = m + 1
    BY <1>1, <1>3
  <2>3. Candidates(s, m + 1) \in Nat
    BY <1>1, <2>2
  <2> DEFINE c == b + Candidates(s, m + 1)
  <2>4. c \in Nat /\ c >= b /\ c >= Candidates(s, m + 1)
    BY <2>3
  <2>5. \A t \in 1 .. m : Candidates(s, t) \in Nat
    BY <1>1, <1>3
  <2> HIDE DEF c
  <2>6. \A t \in 1 .. m + 1 : Candidates(s, t) <= c
    BY <2>1, <2>2, <2>3, <2>4, <2>5
  <2>7. QED
    BY <2>4, <2>6
<1>4. \A m \in Nat : m \in S => m + 1 \in S
  <2> HIDE DEF Bounded
  <2>1. \A m \in Nat : m + 1 <= Tokens(s) => m <= Tokens(s)
    BY <1>1
  <2>2. QED
    BY <1>3, <2>1
<1>5. Tokens(s) \in S
  <2> HIDE DEF S
  <2> QED BY <1>1, <1>2, <1>4, NatSetInduction
<1>6. QED
  BY <1>1, <1>5

(* A path chooses one candidate for each token.                            *)
Chooses(s, path) ==
  path \in [1 .. Tokens(s) -> Nat] /\ \A t \in 1 .. Tokens(s) : path[t] \in 1 .. Candidates(s, t)

(* The paths of a sentence are all the ways to choose.                     *)
LEMMA PathsAre ==
  ASSUME NEW s \in Sentences, NEW path
  PROVE  path \in Paths(s) <=> Chooses(s, path)
<1> DEFINE T == 1 .. Tokens(s)
           C == {Candidates(s, t) : t \in T}
<1>1. Tokens(s) \in Nat /\ Tokens(s) > 0 /\ \A t \in T : Candidates(s, t) \in Nat /\ Candidates(s, t) > 0
  BY WordsAre
<1>2. PICK b \in Nat : \A t \in T : Candidates(s, t) <= b
  BY CandidatesBounded
<1>3. C \in SUBSET (1 .. b) /\ C # {}
  <2>1. 1 \in T
    BY <1>1
  <2>2. \A t \in T : Candidates(s, t) \in 1 .. b
    BY <1>1, <1>2
  <2>3. QED
    BY <2>1, <2>2
<1>4. Max(C) \in Nat /\ \A t \in T : Max(C) >= Candidates(s, t)
  <2>1. Max(C) \in C /\ \A y \in C : Max(C) >= y
    <3> HIDE DEF C
    <3> QED BY <1>3, MaxOfNaturals
  <2>2. QED
    BY <1>3, <2>1
<1> DEFINE top == Max(C)
<1> HIDE DEF top, C
<1>5. Paths(s) = {p \in [T -> 1 .. top] : \A t \in T : p[t] <= Candidates(s, t)}
  BY DEF Paths, top, C
<1>6. ASSUME path \in Paths(s) PROVE Chooses(s, path)
  <2>1. path \in [T -> 1 .. top] /\ \A t \in T : path[t] <= Candidates(s, t)
    BY <1>5, <1>6
  <2>2. \A t \in T : path[t] \in 1 .. Candidates(s, t)
    BY <1>1, <1>4, <2>1 DEF top
  <2>3. QED
    BY <1>1, <1>4, <2>1, <2>2 DEF Chooses, top
<1>7. ASSUME Chooses(s, path) PROVE path \in Paths(s)
  <2>1. path \in [T -> Nat] /\ \A t \in T : path[t] \in 1 .. Candidates(s, t)
    BY <1>7 DEF Chooses
  <2>2. \A t \in T : path[t] \in 1 .. top /\ path[t] <= Candidates(s, t)
    BY <1>1, <1>4, <2>1 DEF top
  <2> HIDE DEF T
  <2>3. QED
    BY <1>5, <2>1, <2>2
<1>8. QED
  BY <1>6, <1>7

(* There is a path: every token has a first candidate.                     *)
LEMMA PathsExist ==
  ASSUME NEW s \in Sentences
  PROVE  \E path \in Paths(s) : TRUE
<1> DEFINE p == [t \in 1 .. Tokens(s) |-> 1]
<1>1. \A t \in 1 .. Tokens(s) : Candidates(s, t) \in Nat /\ Candidates(s, t) > 0
  BY WordsAre
<1>2. Chooses(s, p)
  BY <1>1 DEF Chooses
<1>3. p \in Paths(s)
  BY <1>2, PathsAre
<1>4. QED
  BY <1>3

(* A path with another candidate for one token is a path.                  *)
LEMMA PathChanged ==
  ASSUME NEW s \in Sentences, NEW path \in Paths(s), NEW t \in 1 .. Tokens(s),
         NEW c \in 1 .. Candidates(s, t)
  PROVE  [path EXCEPT ![t] = c] \in Paths(s)
<1>1. Chooses(s, path) /\ Candidates(s, t) \in Nat
  BY PathsAre, WordsAre
<1>2. Chooses(s, [path EXCEPT ![t] = c])
  BY <1>1 DEF Chooses
<1>3. QED
  BY <1>2, PathsAre

(* The analyses along a path are analyses of the sentence.                 *)
LEMMA AnalysesAlong ==
  ASSUME NEW s \in Sentences, NEW path \in Paths(s), NEW t \in Int, t <= Tokens(s) + 1
  PROVE  AnalysisAt(s, path, t) \in Analyses(s)
<1>1. Tokens(s) \in Nat /\ Chooses(s, path)
  BY PathsAre, WordsAre
<1>2. CASE t <= 0
  BY <1>2 DEF AnalysisAt, Analyses
<1>3. CASE t > Tokens(s)
  BY <1>1, <1>3 DEF AnalysisAt, Analyses
<1>4. CASE t \in 1 .. Tokens(s)
  <2>1. AnalysisAt(s, path, t) = <<t, path[t]>>
    BY <1>1, <1>4 DEF AnalysisAt
  <2>2. t \in Nat /\ path[t] \in Nat /\ path[t] \in 1 .. Candidates(s, t)
    BY <1>1, <1>4 DEF Chooses
  <2>3. QED
    BY <1>4, <2>1, <2>2 DEF Analyses
<1>5. QED
  BY <1>1, <1>2, <1>3, <1>4

(* The weight of the t-th step of a path.                                  *)
StepWeight(s, path, t) ==
  Weight(s, AnalysisAt(s, path, t - 2), AnalysisAt(s, path, t - 1), AnalysisAt(s, path, t))

(* The score of a path is summed up step by step.                          *)
LEMMA ScoreUptoIs ==
  ASSUME NEW s \in Sentences, NEW path \in Paths(s)
  PROVE  /\ ScoreUpto(s, path)[0] = 0
         /\ \A t \in 0 .. Tokens(s) + 1 : ScoreUpto(s, path)[t] \in Int
         /\ \A t \in 1 .. Tokens(s) + 1 :
              /\ StepWeight(s, path, t) \in Int
              /\ ScoreUpto(s, path)[t] = ScoreUpto(s, path)[t - 1] + StepWeight(s, path, t)
         /\ PathScore(s, path) = ScoreUpto(s, path)[Tokens(s) + 1]
<1> DEFINE n == Tokens(s) + 1
           W(t) == StepWeight(s, path, t)
           Step == [pair \in Int \X (1 .. n) |-> pair[1] + W(pair[2])]
           Law(f) == f = [t \in 0 .. n |-> IF t = 0 THEN 0 ELSE f[t - 1] + W(t)]
<1>1. n \in Nat /\ Tokens(s) \in Nat
  BY WordsAre
<1>2. \A t \in 1 .. n : W(t) \in Int
  <2> SUFFICES ASSUME NEW t \in 1 .. n PROVE W(t) \in Int
    OBVIOUS
  <2>1. t \in Int /\ t - 1 \in Int /\ t - 2 \in Int /\ t <= Tokens(s) + 1
        /\ t - 1 <= Tokens(s) + 1 /\ t - 2 <= Tokens(s) + 1
    BY <1>1
  <2>2. /\ AnalysisAt(s, path, t) \in Analyses(s) /\ AnalysisAt(s, path, t - 1) \in Analyses(s)
        /\ AnalysisAt(s, path, t - 2) \in Analyses(s)
    BY <2>1, AnalysesAlong
  <2>3. QED
    BY <2>2, WordsAre DEF StepWeight
<1> HIDE DEF n, W
<1>3. Step \in [Int \X (1 .. n) -> Int]
  BY <1>2
<1>4. PICK g : IsRecursion(g, n, Int, 0, Step)
  <2>1. 0 \in Int
    OBVIOUS
  <2> HIDE DEF Step
  <2>2. QED
    BY <1>1, <1>3, <2>1, RecursionExists
<1>5. Law(g)
  <2>1. g \in [0 .. n -> Int] /\ g[0] = 0 /\ \A t \in 1 .. n : g[t] = Step[<<g[t - 1], t>>]
    BY <1>4 DEF IsRecursion
  <2>2. ASSUME NEW t \in 0 .. n PROVE g[t] = IF t = 0 THEN 0 ELSE g[t - 1] + W(t)
    <3>1. CASE t = 0
      BY <2>1, <3>1
    <3>2. CASE t # 0
      <4>1. t \in 1 .. n /\ t - 1 \in 0 .. n
        BY <1>1, <3>2
      <4>2. g[t - 1] \in Int
        BY <2>1, <4>1
      <4>3. Step[<<g[t - 1], t>>] = g[t - 1] + W(t)
        BY <4>1, <4>2
      <4>4. QED
        BY <2>1, <3>2, <4>1, <4>3
    <3>3. QED
      BY <3>1, <3>2
  <2>3. QED
    BY <2>1, <2>2
<1> DEFINE f == CHOOSE f : Law(f)
<1>6. Law(f)
  <2> HIDE DEF Law
  <2> QED BY <1>5
<1>7. ScoreUpto(s, path) = f
  BY DEF ScoreUpto, n, W, StepWeight
<1> HIDE DEF f
<1>8. \A t \in 0 .. n : f[t] = IF t = 0 THEN 0 ELSE f[t - 1] + W(t)
  BY <1>6
<1>9. f[0] = 0 /\ \A t \in 1 .. n : f[t] = f[t - 1] + W(t)
  BY <1>1, <1>8
<1>10. \A t \in 0 .. n : f[t] \in Int
  <2> DEFINE N == {t \in Nat : t <= n => f[t] \in Int}
  <2>1. 0 \in N
    BY <1>9
  <2>2. ASSUME NEW t \in Nat, t \in N PROVE t + 1 \in N
    <3>1. t + 1 <= n => t <= n /\ t + 1 \in 1 .. n /\ (t + 1) - 1 = t
      BY <1>1
    <3>2. t + 1 <= n => f[t] \in Int /\ W(t + 1) \in Int /\ f[t + 1] = f[t] + W(t + 1)
      BY <1>2, <1>9, <2>2, <3>1
    <3>3. QED
      BY <3>2
  <2>3. Nat \subseteq N
    <3> HIDE DEF N
    <3> QED BY <2>1, <2>2, NatSetInduction
  <2>4. QED
    BY <1>1, <2>3
<1>11. QED
  BY <1>2, <1>7, <1>9, <1>10 DEF n, W, PathScore

(* A score depends on the analyses up to its step and on nothing else.     *)
LEMMA ScoreUptoAgrees ==
  ASSUME NEW s \in Sentences, NEW path \in Paths(s), NEW other \in Paths(s), NEW b \in 0 .. Tokens(s),
         \A t \in 1 .. b : path[t] = other[t]
  PROVE  /\ \A t \in 0 .. b : ScoreUpto(s, path)[t] = ScoreUpto(s, other)[t]
         /\ \A t \in Int : t <= b => AnalysisAt(s, path, t) = AnalysisAt(s, other, t)
<1> DEFINE f == ScoreUpto(s, path)
           g == ScoreUpto(s, other)
<1>1. Tokens(s) \in Nat /\ b \in Nat
  BY WordsAre
<1>2. ASSUME NEW t \in Int, t <= b PROVE AnalysisAt(s, path, t) = AnalysisAt(s, other, t)
  <2>1. t <= 0 \/ t \in 1 .. b
    BY <1>1, <1>2
  <2>2. QED
    BY <1>2, <2>1 DEF AnalysisAt
<1>3. f[0] = g[0]
  BY ScoreUptoIs
<1>4. ASSUME NEW t \in 1 .. b, f[t - 1] = g[t - 1] PROVE f[t] = g[t]
  <2>1. t \in 1 .. Tokens(s) + 1 /\ t \in Int /\ t - 1 \in Int /\ t - 2 \in Int
        /\ t <= b /\ t - 1 <= b /\ t - 2 <= b
    BY <1>1
  <2>2. StepWeight(s, path, t) = StepWeight(s, other, t)
    BY <1>2, <2>1 DEF StepWeight
  <2>3. f[t] = f[t - 1] + StepWeight(s, path, t) /\ g[t] = g[t - 1] + StepWeight(s, other, t)
    BY <2>1, ScoreUptoIs
  <2>4. QED
    BY <1>4, <2>2, <2>3
<1> HIDE DEF f, g
<1>5. SameSteps(f, g, b)
  BY <1>3, <1>4 DEF SameSteps
<1>6. \A t \in 0 .. b : f[t] = g[t]
  BY <1>1, <1>5, SameRecursion
<1>7. QED
  BY <1>2, <1>6 DEF f, g

-----------------------------------------------------------------------------
(* What a layer keeps.  The dense decoder (exact) identifies a hypothesis  *)
(* by its two analyses and gives up on equal scores; the hash decoder      *)
(* identifies it by its state.                                             *)

Same(exact, g, h) ==
  g.state = h.state /\ (exact => g.previous = h.previous /\ g.current = h.current)

Beats(exact, g, h) == g.score > h.score \/ (g.score = h.score /\ (exact => g = h))

(* Of what was offered, the entries E are the best of each state.          *)
Kept(exact, H, E, from, offered) ==
  /\ \A i \in E : i \in Nat /\ i > from /\ i <= Len(H) /\ H[i] \in offered
  /\ \A x \in offered : \E i \in E : Same(exact, H[i], x) /\ Beats(exact, H[i], x)

(* One more hypothesis is offered: it is added, or held against the entry  *)
(* of its state.                                                           *)
Adds(exact, H, E, H2, E2, h) ==
  \/ H2 = Append(H, h) /\ E2 = E \union {Len(H) + 1}
  \/ \E i \in E : /\ Same(exact, H[i], h) /\ E2 = E
                  /\ exact => H[i].score # h.score
                  /\ H2 = IF H[i].score < h.score THEN [H EXCEPT ![i] = h] ELSE H

(* The state of the search after an offer.                                 *)
KeptOn(exact, H, E, base, S, offered) ==
  H \in Seq(S) /\ Keeps(H, base) /\ Kept(exact, H, E, Len(base), offered)

(* The best of each state are kept, whatever is offered.                   *)
LEMMA OfferKeeps ==
  ASSUME NEW S, \A x \in S : x.score \in Int, NEW exact \in BOOLEAN, NEW base, Len(base) \in Nat,
         NEW offered \in SUBSET S, NEW H, NEW E, NEW H2, NEW E2, NEW h \in S,
         KeptOn(exact, H, E, base, S, offered), Adds(exact, H, E, H2, E2, h)
  PROVE  KeptOn(exact, H2, E2, base, S, offered \union {h})
<1> DEFINE from == Len(base)
           all == offered \union {h}
<1>1. H \in Seq(S) /\ Keeps(H, base) /\ Kept(exact, H, E, from, offered)
  BY DEF KeptOn
<1>2. Len(H) \in Nat /\ from <= Len(H) /\ \A i \in 1 .. Len(H) : H[i] \in S /\ H[i].score \in Int
  BY <1>1 DEF Keeps
<1>3. \A i \in E : i \in Nat /\ i > from /\ i <= Len(H) /\ i \in 1 .. Len(H) /\ H[i] \in offered
  BY <1>1 DEF Kept
<1>4. \A x \in offered : \E i \in E : Same(exact, H[i], x) /\ Beats(exact, H[i], x)
  BY <1>1 DEF Kept
<1>5. CASE H2 = Append(H, h) /\ E2 = E \union {Len(H) + 1}
  <2>1. /\ H2 \in Seq(S) /\ Len(H2) = Len(H) + 1 /\ Keeps(H2, base)
        /\ H2[Len(H) + 1] = h /\ \A i \in 1 .. Len(H) : H2[i] = H[i]
    BY <1>1, <1>5, AppendKeeps
  <2>2. \A i \in E2 : i \in Nat /\ i > from /\ i <= Len(H2) /\ H2[i] \in all
    <3> SUFFICES ASSUME NEW i \in E2 PROVE i \in Nat /\ i > from /\ i <= Len(H2) /\ H2[i] \in all
      OBVIOUS
    <3>1. CASE i \in E
      BY <1>2, <1>3, <2>1, <3>1
    <3>2. CASE i = Len(H) + 1
      BY <1>2, <2>1, <3>2
    <3>3. QED
      BY <1>5, <3>1, <3>2
  <2>3. \A x \in offered : \E i \in E2 : Same(exact, H2[i], x) /\ Beats(exact, H2[i], x)
    <3> SUFFICES ASSUME NEW x \in offered PROVE \E i \in E2 : Same(exact, H2[i], x) /\ Beats(exact, H2[i], x)
      OBVIOUS
    <3>1. PICK i \in E : Same(exact, H[i], x) /\ Beats(exact, H[i], x)
      BY <1>4
    <3>2. H2[i] = H[i] /\ i \in E2
      BY <1>3, <1>5, <2>1
    <3>3. QED
      BY <3>1, <3>2
  <2>4. \E i \in E2 : Same(exact, H2[i], h) /\ Beats(exact, H2[i], h)
    <3>1. Len(H) + 1 \in E2 /\ Same(exact, h, h) /\ Beats(exact, h, h)
      BY <1>5 DEF Same, Beats
    <3>2. QED
      BY <2>1, <3>1
  <2>5. Kept(exact, H2, E2, from, all)
    BY <2>2, <2>3, <2>4 DEF Kept
  <2>6. QED
    BY <2>1, <2>5 DEF KeptOn
<1>6. ASSUME NEW i \in E, Same(exact, H[i], h), E2 = E, exact => H[i].score # h.score,
             H[i].score < h.score, H2 = [H EXCEPT ![i] = h]
      PROVE  KeptOn(exact, H2, E2, base, S, all)
  <2>1. i \in Nat /\ i > Len(base) /\ i <= Len(H) /\ i \in 1 .. Len(H)
    BY <1>3
  <2>2. /\ H2 \in Seq(S) /\ Len(H2) = Len(H) /\ Keeps(H2, base)
        /\ \A j \in 1 .. Len(H) : H2[j] = IF j = i THEN h ELSE H[j]
    <3> DEFINE new == [H EXCEPT ![i] = h]
    <3>1. /\ new \in Seq(S) /\ Len(new) = Len(H) /\ Keeps(new, base)
          /\ \A j \in 1 .. Len(H) : new[j] = IF j = i THEN h ELSE H[j]
      BY <1>1, <2>1, ReplaceKeeps
    <3>2. H2 = new
      BY <1>6
    <3> HIDE DEF new
    <3>3. QED
      BY <3>1, <3>2
  <2>3. \A j \in E2 : j \in Nat /\ j > from /\ j <= Len(H2) /\ H2[j] \in all
    BY <1>3, <1>6, <2>2
  <2>4. ASSUME NEW x \in offered PROVE \E j \in E2 : Same(exact, H2[j], x) /\ Beats(exact, H2[j], x)
    <3>1. PICK j \in E : Same(exact, H[j], x) /\ Beats(exact, H[j], x)
      BY <1>4
    <3>2. CASE j # i
      <4>1. H2[j] = H[j]
        BY <1>3, <2>2, <3>2
      <4>2. QED
        BY <1>6, <3>1, <4>1
    <3>3. CASE j = i
      <4>1. H2[i] = h /\ H[i].score \in Int /\ h.score \in Int /\ x.score \in Int
        BY <1>2, <2>1, <2>2
      <4>2. Same(exact, h, x)
        BY <1>6, <3>1, <3>3 DEF Same
      <4>3. H[i].score >= x.score
        BY <3>1, <3>3, <4>1 DEF Beats
      <4>4. h.score > x.score
        BY <1>6, <4>1, <4>3
      <4>5. Beats(exact, h, x)
        BY <4>4 DEF Beats
      <4>6. QED
        BY <1>6, <4>1, <4>2, <4>5
    <3>4. QED
      BY <3>2, <3>3
  <2>5. \E j \in E2 : Same(exact, H2[j], h) /\ Beats(exact, H2[j], h)
    <3>1. i \in E2 /\ H2[i] = h /\ Same(exact, h, h) /\ Beats(exact, h, h)
      BY <1>6, <2>1, <2>2 DEF Same, Beats
    <3>2. QED
      BY <3>1
  <2>6. Kept(exact, H2, E2, from, all)
    BY <2>3, <2>4, <2>5 DEF Kept
  <2>7. QED
    BY <2>2, <2>6 DEF KeptOn
<1>7. ASSUME NEW i \in E, Same(exact, H[i], h), E2 = E, exact => H[i].score # h.score,
             ~ (H[i].score < h.score), H2 = H
      PROVE  KeptOn(exact, H2, E2, base, S, all)
  <2>1. H[i].score \in Int /\ h.score \in Int
    BY <1>2, <1>3
  <2>2. H[i].score > h.score \/ (H[i].score = h.score /\ ~ exact)
    BY <1>7, <2>1
  <2>3. Beats(exact, H[i], h)
    BY <2>2 DEF Beats
  <2>4. Kept(exact, H2, E2, from, all)
    BY <1>3, <1>4, <1>7, <2>3 DEF Kept
  <2>5. QED
    BY <1>1, <1>7, <2>4 DEF KeptOn
<1>8. QED
  BY <1>5, <1>6, <1>7 DEF Adds

-----------------------------------------------------------------------------
(* The search, layer by layer.                                             *)

Prefix(path, t) == [k \in 1 .. t |-> path[k]]

(* Hypothesis i is the end of the first t steps of the path.               *)
Spells(s, H, i, t, path) ==
  /\ H[i].previous = AnalysisAt(s, path, t - 1) /\ H[i].current = AnalysisAt(s, path, t)
  /\ H[i].score = ScoreUpto(s, path)[t]
  /\ Reconstruct(H, i) = Prefix(path, t)

(* Hypothesis i ends like the path, and no worse; for the dense decoder,   *)
(* better, unless it is the end of that path.                              *)
Leads(exact, s, H, i, t, path) ==
  /\ Same(exact, H[i], Hypothesis(s, AnalysisAt(s, path, t - 1), AnalysisAt(s, path, t), 0, 0))
  /\ \/ H[i].score > ScoreUpto(s, path)[t]
     \/ /\ H[i].score = ScoreUpto(s, path)[t]
        /\ exact => Reconstruct(H, i) = Prefix(path, t)

(* After t layers the entries E are ends of paths, and every path is led.  *)
Searched(exact, s, H, E, t) ==
  /\ H \in Seq(HypothesesOf(s, Len(H))) /\ Descending(H)
  /\ \A i \in E : i \in 1 .. Len(H) /\ \E path \in Paths(s) : Spells(s, H, i, t, path)
  /\ \A path \in Paths(s) : \E i \in E : Leads(exact, s, H, i, t, path)

(* What a layer offers: every entry continued by every candidate.          *)
Offers(s, H, E, token) ==
  {Continue(s, H, i, <<token, c>>) : i \in E, c \in 1 .. Candidates(s, token)}

(* What hypothesis i continued by a candidate of the token is.             *)
Continued(s, hyps, i, token, c, h) ==
  /\ h \in HypothesesOf(s, Len(hyps))
  /\ h.previous = hyps[i].current /\ h.current = <<token, c>> /\ h.back = i
  /\ Weight(s, hyps[i].previous, hyps[i].current, <<token, c>>) \in Int /\ hyps[i].score \in Int
  /\ h.score = hyps[i].score + Weight(s, hyps[i].previous, hyps[i].current, <<token, c>>)
  /\ h.state = State(s, hyps[i].current, <<token, c>>)

(* It is that.                                                             *)
LEMMA ContinueIs ==
  ASSUME NEW s \in Sentences, NEW H, H \in Seq(HypothesesOf(s, Len(H))), NEW i \in 1 .. Len(H),
         NEW token \in 1 .. Tokens(s), NEW c \in 1 .. Candidates(s, token)
  PROVE  Continued(s, H, i, token, c, Continue(s, H, i, <<token, c>>))
<1> DEFINE a == <<token, c>>
           w == Weight(s, H[i].previous, H[i].current, a)
<1>1. Len(H) \in Nat /\ H[i] \in HypothesesOf(s, Len(H))
  OBVIOUS
<1>2. H[i].previous \in Analyses(s) /\ H[i].current \in Analyses(s) /\ H[i].score \in Int
  BY <1>1, HypothesesAre
<1>3. a \in Analyses(s)
  <2>1. Tokens(s) \in Nat /\ Candidates(s, token) \in Nat
    BY WordsAre
  <2>2. token \in Nat /\ c \in Nat
    BY <2>1
  <2>3. QED
    BY <2>2 DEF Analyses
<1> HIDE DEF a
<1>4. w \in Int
  BY <1>2, <1>3, WordsAre
<1>5. Continue(s, H, i, a) = Hypothesis(s, H[i].current, a, i, H[i].score + w)
  BY DEF Continue
<1> HIDE DEF w
<1>6. H[i].score + w \in Int /\ i \in 0 .. Len(H)
  BY <1>1, <1>2, <1>4
<1>7. Continue(s, H, i, a) \in HypothesesOf(s, Len(H))
  BY <1>2, <1>3, <1>5, <1>6 DEF HypothesesOf
<1> DEFINE next == Continue(s, H, i, a)
<1>8. /\ next.previous = H[i].current /\ next.current = a /\ next.back = i
      /\ next.score = H[i].score + w /\ next.state = State(s, H[i].current, a)
  BY <1>5 DEF Hypothesis
<1> HIDE DEF next
<1>9. next \in HypothesesOf(s, Len(H)) /\ w \in Int /\ H[i].score \in Int
  BY <1>2, <1>4, <1>7 DEF next
<1>10. Continued(s, H, i, token, c, next)
  BY <1>8, <1>9 DEF Continued, a, w
<1>11. QED
  BY <1>10 DEF next, a

(* The hypothesis that ends like the path, continued by its next candidate,*)
(* ends like the path.                                                     *)
ContinuedSame(exact, s, hyps, i, token, path, h) ==
  /\ path[token] \in 1 .. Candidates(s, token)
  /\ Weight(s, hyps[i].previous, hyps[i].current, <<token, path[token]>>) = StepWeight(s, path, token)
  /\ Same(exact, h, Hypothesis(s, AnalysisAt(s, path, token - 1), AnalysisAt(s, path, token), 0, 0))

(* Hypotheses that end alike are continued alike.                          *)
LEMMA ContinueSame ==
  ASSUME NEW s \in Sentences, NEW exact \in BOOLEAN, NEW H, H \in Seq(HypothesesOf(s, Len(H))), NEW i \in 1 .. Len(H),
         NEW token \in 1 .. Tokens(s), NEW path \in Paths(s),
         Same(exact, H[i], Hypothesis(s, AnalysisAt(s, path, token - 2), AnalysisAt(s, path, token - 1), 0, 0))
  PROVE  ContinuedSame(exact, s, H, i, token, path, Continue(s, H, i, <<token, path[token]>>))
<1> DEFINE a == <<token, path[token]>>
           p == AnalysisAt(s, path, token - 2)
           q == AnalysisAt(s, path, token - 1)
<1>1. path[token] \in 1 .. Candidates(s, token) /\ Tokens(s) \in Nat
  BY PathsAre, WordsAre DEF Chooses
<1>2. AnalysisAt(s, path, token) = a
  BY <1>1 DEF AnalysisAt
<1>3. H[i].state = State(s, H[i].previous, H[i].current)
  <2>1. Len(H) \in Nat /\ H[i] \in HypothesesOf(s, Len(H))
    OBVIOUS
  <2>2. H[i] = Hypothesis(s, H[i].previous, H[i].current, H[i].back, H[i].score)
    BY <2>1, HypothesesAre
  <2> DEFINE h == H[i]
  <2> HIDE DEF h
  <2>3. h = Hypothesis(s, h.previous, h.current, h.back, h.score)
    BY <2>2 DEF h
  <2>4. QED
    BY <2>3 DEF Hypothesis, h
<1> HIDE DEF p, q
<1>4. State(s, H[i].previous, H[i].current) = State(s, p, q)
      /\ (exact => H[i].previous = p /\ H[i].current = q)
  BY <1>3 DEF Same, Hypothesis, p, q
<1>5. WordOf(s, H[i].previous) = WordOf(s, p) /\ WordOf(s, H[i].current) = WordOf(s, q)
  BY <1>4 DEF State
<1>6. Weight(s, H[i].previous, H[i].current, a) = StepWeight(s, path, token)
  BY <1>2, <1>5 DEF Weight, StepWeight, p, q
<1>7. /\ Continue(s, H, i, a).previous = H[i].current /\ Continue(s, H, i, a).current = a
      /\ Continue(s, H, i, a).state = State(s, H[i].current, a)
  BY <1>1, ContinueIs DEF Continued
<1>8. State(s, H[i].current, a) = State(s, q, a)
  BY <1>5 DEF State
<1>9. Same(exact, Continue(s, H, i, a), Hypothesis(s, q, a, 0, 0))
  BY <1>4, <1>7, <1>8 DEF Same, Hypothesis
<1>10. QED
  BY <1>1, <1>2, <1>6, <1>9 DEF ContinuedSame, q

(* One step further along a path.                                          *)
LEMMA PrefixGrows ==
  ASSUME NEW s \in Sentences, NEW path \in Paths(s), NEW t \in 1 .. Tokens(s)
  PROVE  Append(Prefix(path, t - 1), path[t]) = Prefix(path, t)
<1> DEFINE m == t - 1
           F == Prefix(path, t)
           p == Prefix(path, m)
<1>1. Tokens(s) \in Nat /\ m \in Nat /\ m + 1 = t /\ \A k \in 1 .. t : path[k] \in Nat
  BY PathsAre, WordsAre DEF Chooses
<1>2. p \in Seq(Nat) /\ Len(p) = m /\ \A k \in 1 .. m : p[k] = path[k]
  <2>1. \A k \in 1 .. m : path[k] \in Nat
    BY <1>1
  <2> HIDE DEF m
  <2>2. QED
    BY <1>1, <2>1 DEF Prefix
<1>3. F \in [1 .. m + 1 -> Nat] /\ \A k \in 1 .. t : F[k] = path[k]
  BY <1>1 DEF Prefix
<1> HIDE DEF F, p, m
<1>4. \A k \in 1 .. m : p[k] = F[k]
  <2>1. \A k \in 1 .. m : k \in 1 .. t
    BY <1>1
  <2>2. QED
    BY <1>2, <1>3, <2>1
<1>5. F[m + 1] = path[t]
  BY <1>1, <1>3
<1>6. Append(p, F[m + 1]) = F
  BY <1>1, <1>2, <1>3, <1>4, AppendIs
<1>7. QED
  BY <1>5, <1>6 DEF F, p, m

(* A layer that keeps the best of each state among what it is offered      *)
(* searches one token further.                                             *)
LEMMA LayerSearches ==
  ASSUME NEW s \in Sentences, NEW exact \in BOOLEAN, NEW token \in 1 .. Tokens(s),
         NEW hyps, NEW E, Searched(exact, s, hyps, E, token - 1),
         NEW H, NEW E2, KeptOn(exact, H, E2, hyps, HypothesesOf(s, Len(hyps)), Offers(s, hyps, E, token))
  PROVE  Searched(exact, s, H, E2, token)
<1>1. /\ hyps \in Seq(HypothesesOf(s, Len(hyps))) /\ Descending(hyps)
      /\ \A i \in E : i \in 1 .. Len(hyps) /\ \E path \in Paths(s) : Spells(s, hyps, i, token - 1, path)
      /\ \A path \in Paths(s) : \E i \in E : Leads(exact, s, hyps, i, token - 1, path)
  BY DEF Searched
<1>2. H \in Seq(HypothesesOf(s, Len(hyps))) /\ Keeps(H, hyps)
  BY DEF KeptOn
<1>3. /\ \A i \in E2 : i \in Nat /\ i > Len(hyps) /\ i <= Len(H) /\ H[i] \in Offers(s, hyps, E, token)
      /\ \A x \in Offers(s, hyps, E, token) : \E i \in E2 : Same(exact, H[i], x) /\ Beats(exact, H[i], x)
  BY DEF KeptOn, Kept
<1>4. Tokens(s) \in Nat /\ token \in Nat /\ token >= 1 /\ token <= Tokens(s) /\ Len(hyps) \in Nat /\ Len(H) \in Nat
  BY <1>1, <1>2, WordsAre
<1>5. Descending(H) /\ SameBacks(H, hyps, Len(hyps)) /\ Len(hyps) <= Len(H)
  BY <1>1, <1>2, HypothesesDescend
<1>6. H \in Seq(HypothesesOf(s, Len(H)))
  <2>1. HypothesesOf(s, Len(hyps)) \subseteq HypothesesOf(s, Len(H))
    BY <1>4, <1>5, HypothesesAre
  <2>2. QED
    BY <1>2, <2>1
<1>7. ASSUME NEW i \in E2, NEW j \in E, NEW c \in 1 .. Candidates(s, token),
             H[i] = Continue(s, hyps, j, <<token, c>>)
      PROVE  Reconstruct(H, i) = Append(Reconstruct(hyps, j), c)
  <2>1. i \in 1 .. Len(H) /\ j \in 1 .. Len(hyps) /\ j \in 0 .. Len(hyps) /\ j # 0
    BY <1>1, <1>3, <1>4
  <2>2. H[i].back = j /\ H[i].current = <<token, c>>
    <3>1. Continued(s, hyps, j, token, c, Continue(s, hyps, j, <<token, c>>))
      BY <1>1, <2>1, ContinueIs
    <3>2. QED
      BY <1>7, <3>1 DEF Continued
  <2>3. Reconstruct(H, i) = Append(Reconstruct(H, j), c)
    <3>1. Reconstruct(H, i) = IF H[i].back = 0 THEN <<>>
                              ELSE Append(Reconstruct(H, H[i].back), H[i].current[2])
      BY <1>5, <2>1, ReconstructIs
    <3>2. QED
      BY <2>1, <2>2, <3>1
  <2>4. Reconstruct(H, j) = Reconstruct(hyps, j)
    BY <1>1, <1>4, <1>5, <2>1, SamePaths
  <2>5. QED
    BY <2>3, <2>4
<1>8. ASSUME NEW i \in E2 PROVE i \in 1 .. Len(H) /\ \E path \in Paths(s) : Spells(s, H, i, token, path)
  <2>1. PICK j \in E, c \in 1 .. Candidates(s, token) : H[i] = Continue(s, hyps, j, <<token, c>>)
    BY <1>3 DEF Offers
  <2>2. j \in 1 .. Len(hyps)
    BY <1>1
  <2>3. PICK path \in Paths(s) : Spells(s, hyps, j, token - 1, path)
    BY <1>1
  <2> DEFINE other == [path EXCEPT ![token] = c]
  <2>4. other \in Paths(s)
    BY PathChanged
  <2>5. other[token] = c /\ \A t \in 1 .. token - 1 : path[t] = other[t]
    <3>1. path \in [1 .. Tokens(s) -> Nat]
      BY PathsAre DEF Chooses
    <3>2. QED
      BY <1>4, <3>1
  <2> HIDE DEF other
  <2>6. /\ ScoreUpto(s, path)[token - 1] = ScoreUpto(s, other)[token - 1]
        /\ AnalysisAt(s, path, token - 1) = AnalysisAt(s, other, token - 1)
        /\ AnalysisAt(s, path, (token - 1) - 1) = AnalysisAt(s, other, token - 2)
    <3>1. token - 1 \in 0 .. Tokens(s) /\ token - 1 \in 0 .. token - 1 /\ token - 1 \in Int /\ token - 2 \in Int
          /\ (token - 1) - 1 = token - 2 /\ token - 2 <= token - 1
      BY <1>4
    <3>2. /\ \A t \in 0 .. token - 1 : ScoreUpto(s, path)[t] = ScoreUpto(s, other)[t]
          /\ \A t \in Int : t <= token - 1 => AnalysisAt(s, path, t) = AnalysisAt(s, other, t)
      BY <2>4, <2>5, <3>1, ScoreUptoAgrees
    <3>3. QED
      BY <3>1, <3>2
  <2>7. Prefix(path, token - 1) = Prefix(other, token - 1)
    BY <2>5 DEF Prefix
  <2>8. AnalysisAt(s, other, token) = <<token, c>>
    BY <1>4, <2>5 DEF AnalysisAt
  <2>9. /\ H[i].previous = hyps[j].current /\ H[i].current = <<token, c>>
        /\ H[i].score = hyps[j].score + Weight(s, hyps[j].previous, hyps[j].current, <<token, c>>)
    <3>1. Continued(s, hyps, j, token, c, Continue(s, hyps, j, <<token, c>>))
      BY <1>1, <2>1, <2>2, ContinueIs
    <3> DEFINE x == Continue(s, hyps, j, <<token, c>>)
    <3> HIDE DEF x
    <3>2. Continued(s, hyps, j, token, c, x) /\ H[i] = x
      BY <2>1, <3>1 DEF x
    <3>3. QED
      BY <3>2 DEF Continued
  <2>10. /\ hyps[j].previous = AnalysisAt(s, path, (token - 1) - 1)
         /\ hyps[j].current = AnalysisAt(s, path, token - 1)
         /\ hyps[j].score = ScoreUpto(s, path)[token - 1]
         /\ Reconstruct(hyps, j) = Prefix(path, token - 1)
    BY <2>3 DEF Spells
  <2>11. ScoreUpto(s, other)[token] = ScoreUpto(s, other)[token - 1] + StepWeight(s, other, token)
    <3>1. token \in 1 .. Tokens(s) + 1
      BY <1>4
    <3>2. QED
      BY <2>4, <3>1, ScoreUptoIs
  <2>12. H[i].score = ScoreUpto(s, other)[token]
    BY <2>6, <2>8, <2>9, <2>10, <2>11 DEF StepWeight
  <2>13. Reconstruct(H, i) = Prefix(other, token)
    <3>1. Reconstruct(H, i) = Append(Prefix(other, token - 1), other[token])
      BY <1>7, <2>1, <2>5, <2>7, <2>10
    <3>2. Append(Prefix(other, token - 1), other[token]) = Prefix(other, token)
      BY <2>4, PrefixGrows
    <3>3. QED
      BY <3>1, <3>2
  <2>14. Spells(s, H, i, token, other)
    BY <2>6, <2>8, <2>9, <2>10, <2>12, <2>13 DEF Spells
  <2>15. QED
    BY <1>3, <1>4, <2>4, <2>14
<1>9. ASSUME NEW path \in Paths(s) PROVE \E i \in E2 : Leads(exact, s, H, i, token, path)
  <2> DEFINE end == Hypothesis(s, AnalysisAt(s, path, token - 1), AnalysisAt(s, path, token), 0, 0)
             c == path[token]
             upto == ScoreUpto(s, path)
  <2>1. PICK j \in E : Leads(exact, s, hyps, j, token - 1, path)
    BY <1>1
  <2>2. j \in 1 .. Len(hyps) /\ (token - 1) - 1 = token - 2
    BY <1>1, <1>4
  <2>3. Same(exact, hyps[j], Hypothesis(s, AnalysisAt(s, path, token - 2), AnalysisAt(s, path, token - 1), 0, 0))
    BY <2>1, <2>2 DEF Leads
  <2> DEFINE x == Continue(s, hyps, j, <<token, c>>)
  <2>4. /\ c \in 1 .. Candidates(s, token)
        /\ Weight(s, hyps[j].previous, hyps[j].current, <<token, c>>) = StepWeight(s, path, token)
        /\ Same(exact, x, end)
    <3>1. ContinuedSame(exact, s, hyps, j, token, path, x)
      BY <1>1, <2>2, <2>3, ContinueSame
    <3>2. QED
      BY <3>1 DEF ContinuedSame
  <2>5. x \in Offers(s, hyps, E, token)
    BY <2>4 DEF Offers
  <2>6. PICK i \in E2 : Same(exact, H[i], x) /\ Beats(exact, H[i], x)
    BY <1>3, <2>5
  <2>7. /\ x.score = hyps[j].score + StepWeight(s, path, token)
        /\ hyps[j].score \in Int /\ StepWeight(s, path, token) \in Int
    <3>1. Continued(s, hyps, j, token, c, x)
      BY <1>1, <2>2, <2>4, ContinueIs
    <3> HIDE DEF x, c
    <3>2. QED
      BY <2>4, <3>1 DEF Continued
  <2>8. upto[token] = upto[token - 1] + StepWeight(s, path, token) /\ upto[token - 1] \in Int
    <3>1. token \in 1 .. Tokens(s) + 1 /\ token - 1 \in 0 .. Tokens(s) + 1
      BY <1>4
    <3>2. QED
      BY <3>1, ScoreUptoIs
  <2>9. \/ hyps[j].score > upto[token - 1]
        \/ hyps[j].score = upto[token - 1] /\ (exact => Reconstruct(hyps, j) = Prefix(path, token - 1))
    BY <2>1 DEF Leads
  <2>10. H[i].score \in Int
    <3>1. i \in 1 .. Len(H) /\ H[i] \in HypothesesOf(s, Len(H))
      BY <1>3, <1>4, <1>6
    <3>2. QED
      BY <1>4, <3>1, HypothesesAre
  <2>11. H[i] = x => Reconstruct(H, i) = Append(Reconstruct(hyps, j), c)
    BY <1>7, <2>4
  <2>12. Append(Prefix(path, token - 1), c) = Prefix(path, token)
    BY PrefixGrows
  <2> HIDE DEF x, c, upto, end
  <2>13. Same(exact, H[i], end)
    BY <2>4, <2>6 DEF Same
  <2>14. \/ H[i].score > upto[token]
         \/ H[i].score = upto[token] /\ (exact => Reconstruct(H, i) = Prefix(path, token))
    <3>1. CASE H[i].score > x.score
      BY <2>7, <2>8, <2>9, <2>10, <3>1
    <3>2. CASE H[i].score = x.score /\ (exact => H[i] = x)
      <4>1. CASE hyps[j].score > upto[token - 1]
        BY <2>7, <2>8, <2>10, <3>2, <4>1
      <4>2. CASE hyps[j].score = upto[token - 1] /\ (exact => Reconstruct(hyps, j) = Prefix(path, token - 1))
        <5>1. H[i].score = upto[token]
          BY <2>7, <2>8, <3>2, <4>2
        <5>2. exact => Reconstruct(H, i) = Prefix(path, token)
          BY <2>11, <2>12, <3>2, <4>2
        <5>3. QED
          BY <5>1, <5>2
      <4>3. QED
        BY <2>9, <4>1, <4>2
    <3>3. QED
      BY <2>6, <3>1, <3>2 DEF Beats
  <2>15. Leads(exact, s, H, i, token, path)
    BY <2>13, <2>14 DEF Leads, end, upto
  <2>16. QED
    BY <2>15
<1>10. QED
  BY <1>5, <1>6, <1>8, <1>9 DEF Searched

(* The transition from the k-th of m hypotheses to the i-th candidate.     *)
TransitionTo(s, token, m, c, i, k) ==
  \E n \in 1 .. c * m :
    \A list : Len(list) = m =>
      /\ Transition(s, token, list, n).analysis = <<token, i>>
      /\ Transition(s, token, list, n).from = list[k]

(* Every hypothesis is continued by every candidate.                       *)
LEMMA TransitionReaches ==
  ASSUME NEW s, NEW token, NEW m \in Nat, NEW c \in Nat, NEW i \in 1 .. c, NEW k \in 1 .. m
  PROVE  TransitionTo(s, token, m, c, i, k)
<1> DEFINE j == i - 1
           x == j * m + (k - 1)
           q == x \div m
           r == x % m
<1>1. m # 0 /\ j \in Nat /\ j + 1 = i /\ i <= c /\ i \in Nat /\ k - 1 \in 0 .. m - 1
  OBVIOUS
<1> HIDE DEF j
<1>2. j * m \in Nat /\ (j + 1) * m = j * m + m /\ (j + 1) * m <= c * m /\ c * m \in Nat
  <2>1. (j + 1) * m = j * m + m /\ j * m \in Nat
    BY <1>1
  <2>2. (j + 1) * m <= c * m /\ c * m \in Nat
    BY <1>1, ProductMonotone
  <2>3. QED
    BY <2>1, <2>2
<1>3. x \in Nat /\ x + 1 \in 1 .. c * m /\ (x + 1) - 1 = x
  BY <1>1, <1>2
<1>4. \A y \in Nat : y % m \in 0 .. m - 1 /\ y \div m \in Nat /\ y = (y \div m) * m + (y % m)
  BY <1>1
<1>5. q \in Nat /\ r \in 0 .. m - 1 /\ x = q * m + r
  BY <1>3, <1>4
<1> HIDE DEF q, r
<1>6. ~ (q < j)
  <2> SUFFICES ASSUME q < j PROVE FALSE
    OBVIOUS
  <2>1. (q + 1) * m <= j * m
    <3>1. q + 1 \in Nat /\ q + 1 <= j
      BY <1>1, <1>5
    <3>2. QED
      BY <1>1, <3>1, ProductMonotone
  <2>2. (q + 1) * m = q * m + m /\ q * m \in Nat
    BY <1>5
  <2>3. QED
    BY <1>1, <1>2, <1>5, <2>1, <2>2
<1>7. ~ (j < q)
  <2> SUFFICES ASSUME j < q PROVE FALSE
    OBVIOUS
  <2>1. (j + 1) * m <= q * m /\ q * m \in Nat
    <3>1. j + 1 \in Nat /\ j + 1 <= q
      BY <1>1, <1>5
    <3>2. QED
      BY <1>5, <3>1, ProductMonotone
  <2>2. QED
    BY <1>1, <1>2, <1>5, <2>1
<1>8. q = j /\ r = k - 1
  <2>1. q = j
    BY <1>1, <1>5, <1>6, <1>7
  <2>2. x = j * m + r /\ x = j * m + (k - 1)
    BY <1>5, <2>1
  <2> HIDE DEF x
  <2>3. QED
    BY <1>1, <1>2, <1>5, <2>1, <2>2
<1>9. q + 1 = i /\ r + 1 = k
  BY <1>1, <1>8
<1>10. \A list : Len(list) = m =>
         /\ Transition(s, token, list, x + 1).analysis = <<token, q + 1>>
         /\ Transition(s, token, list, x + 1).from = list[r + 1]
  <2> HIDE DEF x
  <2> QED BY <1>3 DEF Transition, q, r
<1> HIDE DEF x
<1>11. QED
  BY <1>3, <1>9, <1>10 DEF TransitionTo

(* What the first n transitions of a layer offer.                          *)
Offered(s, hyps, token, order, n) == {Offer(s, hyps, token, order, k) : k \in 1 .. n}

EntriesOf(order) == {order[k] : k \in DOMAIN order}

OffersWhole(s, hyps, token, order) ==
  LET steps == LayerSteps(s, token, order)
      E == EntriesOf(order)
  IN  /\ steps \in Nat
      /\ Offered(s, hyps, token, order, steps) = Offers(s, hyps, E, token)
      /\ \A n \in 1 .. steps :
           /\ Offered(s, hyps, token, order, n)
                = Offered(s, hyps, token, order, n - 1) \union {Offer(s, hyps, token, order, n)}
           /\ Offer(s, hyps, token, order, n) \in Offers(s, hyps, E, token)

(* All of them offer what the layer has to be offered.                     *)
LEMMA OffersAll ==
  ASSUME NEW s \in Sentences, NEW hyps, NEW token \in 1 .. Tokens(s), NEW order,
         Len(order) \in Nat, DOMAIN order = 1 .. Len(order)
  PROVE  OffersWhole(s, hyps, token, order)
<1> DEFINE m == Len(order)
           c == Candidates(s, token)
           steps == LayerSteps(s, token, order)
           E == EntriesOf(order)
<1>1. m \in Nat /\ c \in Nat /\ steps = c * m /\ c * m \in Nat
  BY WordsAre DEF LayerSteps
<1> HIDE DEF steps
<1>2. \A k \in 1 .. m : order[k] \in E
  BY DEF EntriesOf
<1>3. \A e \in E : \E k \in 1 .. m : e = order[k]
  BY DEF EntriesOf
<1> HIDE DEF E, m, c
<1>4. ASSUME NEW n \in 1 .. c * m PROVE Offer(s, hyps, token, order, n) \in Offers(s, hyps, E, token)
  <2>1. TransitionWithin(s, token, m, c, n)
    BY <1>1, TransitionIs
  <2>2. PICK k \in 1 .. m, i \in 1 .. c :
          \A list : Len(list) = m =>
            /\ Transition(s, token, list, n).analysis = <<token, i>>
            /\ Transition(s, token, list, n).from = list[k]
    BY <2>1 DEF TransitionWithin
  <2>3. Offer(s, hyps, token, order, n) = Continue(s, hyps, order[k], <<token, i>>)
    BY <2>2 DEF Offer, m
  <2>4. QED
    BY <1>2, <2>3 DEF Offers, c
<1>5. ASSUME NEW e \in E, NEW i \in 1 .. c
      PROVE  \E n \in 1 .. c * m : Continue(s, hyps, e, <<token, i>>) = Offer(s, hyps, token, order, n)
  <2>1. PICK k \in 1 .. m : e = order[k]
    BY <1>3
  <2>2. TransitionTo(s, token, m, c, i, k)
    BY <1>1, TransitionReaches
  <2>3. PICK n \in 1 .. c * m :
          \A list : Len(list) = m =>
            /\ Transition(s, token, list, n).analysis = <<token, i>>
            /\ Transition(s, token, list, n).from = list[k]
    BY <2>2 DEF TransitionTo
  <2>4. Offer(s, hyps, token, order, n) = Continue(s, hyps, e, <<token, i>>)
    BY <2>1, <2>3 DEF Offer, m
  <2>5. QED
    BY <2>4
<1>6. Offered(s, hyps, token, order, steps) = Offers(s, hyps, E, token)
  <2>1. Offered(s, hyps, token, order, steps) \subseteq Offers(s, hyps, E, token)
    BY <1>1, <1>4 DEF Offered
  <2>2. \A e \in E, i \in 1 .. c :
          Continue(s, hyps, e, <<token, i>>) \in Offered(s, hyps, token, order, steps)
    BY <1>1, <1>5 DEF Offered
  <2>3. Offers(s, hyps, E, token) \subseteq Offered(s, hyps, token, order, steps)
    <3> SUFFICES ASSUME NEW x \in Offers(s, hyps, E, token)
                 PROVE  x \in Offered(s, hyps, token, order, steps)
      OBVIOUS
    <3>1. PICK e \in E, i \in 1 .. c : x = Continue(s, hyps, e, <<token, i>>)
      BY DEF Offers, c
    <3>2. QED
      BY <2>2, <3>1
  <2>4. QED
    BY <2>1, <2>3
<1>7. ASSUME NEW n \in 1 .. steps
      PROVE  Offered(s, hyps, token, order, n)
               = Offered(s, hyps, token, order, n - 1) \union {Offer(s, hyps, token, order, n)}
  <2>1. 1 .. n = (1 .. n - 1) \union {n}
    BY <1>1
  <2>2. QED
    BY <2>1 DEF Offered
<1>8. QED
  BY <1>1, <1>4, <1>6, <1>7 DEF OffersWhole, E, steps

-----------------------------------------------------------------------------
(* The hash decoder keeps the best of each state.                          *)

(* What a table holds.                                                     *)
Entries(table) == {table.slots[slot] : slot \in Occupied(table)}

ReadWhole(table) ==
  LET order == InSlotOrder(table)
  IN  /\ Len(order) \in Nat /\ DOMAIN order = 1 .. Len(order)
      /\ EntriesOf(order) = Entries(table)

(* A table is read entry by entry.                                         *)
LEMMA EntriesRead ==
  ASSUME NEW t, NEW u, NEW H, NEW G, NEW from, NEW from2, NEW Like,
         Roomy(t, u, H, G, from, from2, Like)
  PROVE  ReadWhole(t)
<1>1. PICK n : TablesAlike(t, u, n, H, G, from, from2, Like)
  BY DEF Roomy
<1>2. n \in Nat /\ SameUse(t.slots, u.slots, n)
  BY <1>1 DEF TablesAlike, SlotsAlike
<1>3. ReadAlike(t, u, n)
  BY <1>2, SlotOrders
<1>4. PICK m, pos : Lists(pos, m, t.slots, n) /\ InSlotOrder(t) = Listed(pos, m, t.slots)
  BY <1>3 DEF ReadAlike
<1>5. /\ m \in Nat /\ pos \in [1 .. m -> 0 .. n - 1]
      /\ \A slot \in 0 .. n - 1 : t.slots[slot] # 0 <=> \E k \in 1 .. m : pos[k] = slot
  BY <1>4 DEF Lists
<1> DEFINE order == Listed(pos, m, t.slots)
<1>6. /\ Len(order) = m /\ DOMAIN order = 1 .. m
      /\ \A k \in 1 .. m : order[k] = t.slots[pos[k]]
  BY <1>5 DEF Listed
<1>7. Occupied(t) = {slot \in 0 .. n - 1 : t.slots[slot] # 0}
  BY <1>2 DEF SameUse, Occupied
<1> HIDE DEF order
<1>8. EntriesOf(order) \subseteq Entries(t)
  BY <1>5, <1>6, <1>7 DEF EntriesOf, Entries
<1>9. Entries(t) \subseteq EntriesOf(order)
  <2> SUFFICES ASSUME NEW slot \in Occupied(t) PROVE t.slots[slot] \in EntriesOf(order)
    BY DEF Entries
  <2>1. PICK k \in 1 .. m : pos[k] = slot
    BY <1>5, <1>7
  <2>2. QED
    BY <1>6, <2>1 DEF EntriesOf
<1>10. QED
  BY <1>4, <1>5, <1>6, <1>8, <1>9 DEF ReadWhole, order

(* Between layers too.                                                     *)
LEMMA BetweenReads ==
  ASSUME NEW s, NEW c, NEW r, Between(c, r, s)
  PROVE  ReadWhole(c.table)
<1>1. PICK base, base2 : LayerDone(c, r, base, base2, s)
  BY DEF Between
<1>2. Roomy(c.table, r.table, c.hypotheses, r.hypotheses, Len(base), Len(base2), Alike(base, base2, s))
  BY <1>1 DEF LayerDone, Parallel
<1>3. QED
  BY <1>2, EntriesRead

(* A table whose entries have hashes.                                      *)
Hashed(t, n, H) ==
  /\ t = [slots |-> t.slots, size |-> t.size] /\ t.slots \in [0 .. n - 1 -> Nat]
  /\ \A slot \in 0 .. n - 1 : t.slots[slot] # 0 => H[t.slots[slot]].hash \in Nat

(* Growing a table changes nothing of what it holds.                       *)
LEMMA ExpandEntries ==
  ASSUME NEW n \in Nat \ {0}, NEW t, NEW H, Hashed(t, n, H)
  PROVE  Entries(Expand(t, H)) = Entries(t)
<1>1. /\ t = [slots |-> t.slots, size |-> t.size] /\ t.slots \in [0 .. n - 1 -> Nat]
      /\ \A slot \in 0 .. n - 1 : t.slots[slot] # 0 => H[t.slots[slot]].hash \in Nat
  BY DEF Hashed
<1>2. SameUse(t.slots, t.slots, n) /\ SameHashes(t.slots, t.slots, n, H, H)
  BY <1>1 DEF SameUse, SameHashes
<1>3. RehashedAlike(t, t, H, H, n)
  BY <1>2, RehashedIs
<1>4. PICK source : Resettles(source, n, t) /\ Rehashed(t, H) = Resettled(source, n, t.slots)
  BY <1>3 DEF RehashedAlike
<1> DEFINE Dom == 0 .. 2 * n - 1
           new == Resettled(source, n, t.slots)
<1>5. /\ source \in [Dom -> 0 .. n]
      /\ \A slot \in Dom : source[slot] # n => t.slots[source[slot]] # 0
      /\ \A old \in 0 .. n - 1 : t.slots[old] # 0 => \E slot \in Dom : source[slot] = old
  BY <1>4 DEF Resettles
<1>6. DOMAIN new = Dom /\ \A slot \in Dom : new[slot] = IF source[slot] = n THEN 0 ELSE t.slots[source[slot]]
  BY DEF Resettled
<1>7. /\ \A x \in 0 .. n : x # n => x \in 0 .. n - 1
      /\ \A x \in 0 .. n - 1 : x # n
  OBVIOUS
<1> HIDE DEF new, Dom
<1>8. Occupied(t) = {slot \in 0 .. n - 1 : t.slots[slot] # 0}
  BY <1>1 DEF Occupied
<1>9. {new[slot] : slot \in {slot \in Dom : new[slot] # 0}} = Entries(t)
  <2>1. ASSUME NEW slot \in Dom, new[slot] # 0 PROVE new[slot] \in Entries(t)
    <3>1. source[slot] # n /\ new[slot] = t.slots[source[slot]]
      BY <1>6, <2>1
    <3>2. source[slot] \in Occupied(t)
      BY <1>5, <1>7, <1>8, <3>1
    <3>3. QED
      BY <3>1, <3>2 DEF Entries
  <2>2. ASSUME NEW old \in Occupied(t) PROVE \E slot \in Dom : new[slot] # 0 /\ new[slot] = t.slots[old]
    <3>1. old \in 0 .. n - 1 /\ t.slots[old] # 0
      BY <1>8
    <3>2. PICK slot \in Dom : source[slot] = old
      BY <1>5, <3>1
    <3>3. new[slot] = t.slots[old]
      BY <1>6, <1>7, <3>1, <3>2
    <3>4. QED
      BY <3>1, <3>3
  <2>3. Entries(t) = {t.slots[slot] : slot \in Occupied(t)}
    BY DEF Entries
  <2>4. QED
    BY <2>1, <2>2, <2>3
<1>10. CASE t.size = LoadLimit(Length(t))
  <2>1. Expand(t, H) = [t EXCEPT !.slots = new]
    BY <1>4, <1>10 DEF Expand, new
  <2>2. Expand(t, H).slots = new
    BY <1>1, <2>1
  <2>3. Entries(Expand(t, H)) = {new[slot] : slot \in {slot \in Dom : new[slot] # 0}}
    BY <1>6, <2>2 DEF Entries, Occupied
  <2>4. QED
    BY <1>9, <2>3
<1>11. CASE t.size # LoadLimit(Length(t))
  BY <1>11 DEF Expand
<1>12. QED
  BY <1>10, <1>11

StepAdds(c, h) ==
  LET d == AddCandidate(c.table, c.hypotheses, h)
  IN  Adds(FALSE, c.hypotheses, Entries(c.table), d.hypotheses, Entries(d.table), h)

(* One transition of the hash decoder adds the hypothesis, or holds it     *)
(* against an entry of its state.                                          *)
LEMMA StepAddsOne ==
  ASSUME NEW S, NEW S2, NEW Like, RelationOK(Like), NEW base, NEW base2,
         Len(base) \in Nat, Len(base2) \in Nat, NEW c, NEW r,
         Parallel(c, r, base, base2, S, S2, Like), NEW h \in S, NEW g \in S2, <<h, g>> \in Like
  PROVE  StepAdds(c, h)
<1> DEFINE t == c.table
           u == r.table
           H == c.hypotheses
           G == r.hypotheses
           from == Len(base)
           from2 == Len(base2)
<1>1. H \in Seq(S) /\ Roomy(t, u, H, G, from, from2, Like)
  BY DEF Parallel
<1>2. PICK n : TablesAlike(t, u, n, H, G, from, from2, Like) /\ t.size < LoadLimit(n)
  BY <1>1 DEF Roomy
<1> DEFINE at == Locate(t, H, h)
           index == t.slots[at]
           H2 == Append(H, h)
           new == [slots |-> [t.slots EXCEPT ![at] = Len(H) + 1], size |-> t.size + 1]
<1> HIDE DEF t, u, H, G, from, from2
<1>3. /\ at \in 0 .. n - 1
      /\ t.slots[at] = 0 \/ H[t.slots[at]].state = h.state
  BY <1>2, LocateAlike
<1>4. /\ n \in Nat /\ n >= InitialSlots
      /\ t = [slots |-> t.slots, size |-> t.size]
      /\ SlotsAlike(t.slots, u.slots, n, H, G, from, from2, Like)
  BY <1>2 DEF TablesAlike
<1>5. t.slots \in [0 .. n - 1 -> Nat] /\ n \in Nat \ {0}
  BY <1>4 DEF SlotsAlike, SameUse, InitialSlots
<1>6. \A slot \in 0 .. n - 1 : t.slots[slot] # 0 =>
         t.slots[slot] <= Len(H) /\ t.slots[slot] \in Nat /\ H[t.slots[slot]].hash \in Nat
  BY <1>4 DEF SlotsAlike, EntriesAlike, EntryAlike, RelationOK
<1>7. Occupied(t) = {slot \in 0 .. n - 1 : t.slots[slot] # 0}
  BY <1>5 DEF Occupied
<1>8. h.hash \in Nat /\ Len(H) \in Nat
  BY <1>1 DEF RelationOK
<1> HIDE DEF at
<1>9. CASE index = 0
  <2>1. AddCandidate(t, H, h) = [hypotheses |-> H2, table |-> Expand(new, H2)]
    BY <1>9 DEF AddCandidate, InsertCandidate, at
  <2>2. /\ new.slots \in [0 .. n - 1 -> Nat]
        /\ \A slot \in 0 .. n - 1 : new.slots[slot] = IF slot = at THEN Len(H) + 1 ELSE t.slots[slot]
        /\ new = [slots |-> new.slots, size |-> new.size]
    BY <1>3, <1>5, <1>8
  <2>3. H2[Len(H) + 1] = h /\ \A i \in 1 .. Len(H) : H2[i] = H[i]
    BY <1>1, <1>8
  <2> HIDE DEF new, H2
  <2>4. ASSUME NEW slot \in 0 .. n - 1, new.slots[slot] # 0 PROVE H2[new.slots[slot]].hash \in Nat
    <3>1. CASE slot = at
      BY <1>8, <2>2, <2>3, <3>1
    <3>2. CASE slot # at
      <4>1. new.slots[slot] = t.slots[slot] /\ t.slots[slot] \in 1 .. Len(H)
        BY <1>6, <1>8, <2>2, <2>4, <3>2
      <4>2. QED
        BY <1>6, <2>3, <2>4, <4>1
    <3>3. QED
      BY <3>1, <3>2
  <2>5. Hashed(new, n, H2)
    BY <2>2, <2>4 DEF Hashed
  <2>6. Entries(Expand(new, H2)) = Entries(new)
    BY <1>5, <2>5, ExpandEntries
  <2>7. Occupied(new) = Occupied(t) \union {at}
    <3>1. Occupied(new) = {slot \in 0 .. n - 1 : new.slots[slot] # 0}
      BY <2>2 DEF Occupied
    <3>2. \A slot \in 0 .. n - 1 : new.slots[slot] # 0 <=> (slot = at \/ t.slots[slot] # 0)
      BY <1>8, <2>2
    <3>3. QED
      BY <1>3, <1>7, <3>1, <3>2
  <2>8. at \notin Occupied(t) /\ new.slots[at] = Len(H) + 1
        /\ \A slot \in Occupied(t) : new.slots[slot] = t.slots[slot]
    BY <1>3, <1>7, <1>9, <2>2
  <2>9. Entries(new) = Entries(t) \union {Len(H) + 1}
    BY <2>7, <2>8 DEF Entries
  <2>10. QED
    <3> DEFINE d == AddCandidate(t, H, h)
    <3>1. d.hypotheses = H2 /\ d.table = Expand(new, H2)
      BY <2>1
    <3> HIDE DEF d
    <3>2. d.hypotheses = Append(H, h) /\ Entries(d.table) = Entries(t) \union {Len(H) + 1}
      BY <2>6, <2>9, <3>1 DEF H2
    <3>3. Adds(FALSE, H, Entries(t), d.hypotheses, Entries(d.table), h)
      BY <3>2 DEF Adds
    <3>4. QED
      BY <3>3 DEF StepAdds, d, t, H
<1>10. CASE index # 0
  <2> DEFINE H3 == IF H[index].score < h.score THEN [H EXCEPT ![index] = h] ELSE H
  <2>1. AddCandidate(t, H, h) = [hypotheses |-> H3, table |-> t]
    BY <1>10 DEF AddCandidate, at
  <2>2. index \in Entries(t) /\ H[index].state = h.state
    BY <1>3, <1>7, <1>10 DEF Entries
  <2>3. Same(FALSE, H[index], h)
    BY <2>2 DEF Same
  <2> HIDE DEF index
  <2>4. \E i \in Entries(t) : /\ Same(FALSE, H[i], h) /\ Entries(t) = Entries(t)
                              /\ FALSE => H[i].score # h.score
                              /\ H3 = IF H[i].score < h.score THEN [H EXCEPT ![i] = h] ELSE H
    BY <2>2, <2>3
  <2> HIDE DEF H3
  <2>5. Adds(FALSE, H, Entries(t), H3, Entries(t), h)
    BY <2>4 DEF Adds
  <2>6. QED
    <3> DEFINE d == AddCandidate(t, H, h)
    <3>1. d.hypotheses = H3 /\ d.table = t
      BY <2>1
    <3> HIDE DEF d
    <3>2. Adds(FALSE, H, Entries(t), d.hypotheses, Entries(d.table), h)
      BY <2>5, <3>1
    <3>3. QED
      BY <3>2 DEF StepAdds, d, t, H
<1>11. QED
  BY <1>9, <1>10

(* An empty table has no entries.                                          *)
LEMMA EmptyHoldsNothing == Entries(EmptyTable) = {}
<1> DEFINE t == EmptyTable
<1>1. t.slots = [slot \in 0 .. InitialSlots - 1 |-> 0]
  BY DEF EmptyTable
<1> HIDE DEF t
<1>2. Occupied(t) = {}
  BY <1>1 DEF Occupied
<1>3. Entries(t) = {}
  BY <1>2 DEF Entries
<1>4. QED
  BY <1>3 DEF t

(* A layer of the hash decoder searches one token further.                 *)
LEMMA HashLayerSearches ==
  ASSUME NEW s \in Sentences, NEW token \in 1 .. Tokens(s), NEW c, NEW r, Between(c, r, s),
         Searched(FALSE, s, c.hypotheses, Entries(c.table), token - 1),
         NEW d, d = HashLayerOf(TRUE, s, token, c.hypotheses, InSlotOrder(c.table))
  PROVE  Searched(FALSE, s, d.hypotheses, Entries(d.table), token)
<1> DEFINE H == c.hypotheses
           G == r.hypotheses
           order == InSlotOrder(c.table)
           order2 == InSlotOrder(r.table)
           steps == LayerSteps(s, token, order)
           S == HypothesesOf(s, Len(H))
           S2 == HypothesesOf(s, Len(G))
           Like == Alike(H, G, s)
           E == Entries(c.table)
           So(n) == Offered(s, H, token, order, n)
<1>1. LayerBeside(s, token, c, r)
  BY LayerRunsBeside
<1>2. PICK f, g :
        /\ steps \in Nat /\ Descending(H) /\ Descending(G)
        /\ f[0] = [hypotheses |-> H, table |-> EmptyTable]
        /\ \A n \in 1 .. steps : f[n] = LayerStep(TRUE, s, token, H, order, f[n - 1], n)
        /\ d = f[steps]
        /\ \A n \in 0 .. steps : Parallel(f[n], g[n], H, G, S, S2, Like)
        /\ \A n \in 1 .. steps : OfferedAlike(s, token, H, G, order, order2, n)
  BY <1>1 DEF LayerBeside
<1>3. ReadWhole(c.table)
  BY BetweenReads
<1>4. Len(order) \in Nat /\ DOMAIN order = 1 .. Len(order) /\ EntriesOf(order) = E
  BY <1>3 DEF ReadWhole
<1>5. H \in Seq(S) /\ Len(H) \in Nat /\ Len(G) \in Nat
  <2>1. Searched(FALSE, s, H, E, token - 1)
    OBVIOUS
  <2>2. QED
    BY <1>2, <2>1 DEF Searched, Descending
<1>6. RelationOK(Like)
  BY <1>5, LikeIsOK DEF Alike
<1> HIDE DEF H, G, order, order2, E
<1>7. /\ So(steps) = Offers(s, H, E, token)
      /\ \A n \in 1 .. steps : So(n) = So(n - 1) \union {Offer(s, H, token, order, n)}
  <2>1. OffersWhole(s, H, token, order)
    BY <1>4, OffersAll
  <2>2. QED
    BY <1>4, <2>1 DEF OffersWhole
<1>8. \A n \in 0 .. steps : So(n) \in SUBSET S
  <2> SUFFICES ASSUME NEW n \in 0 .. steps, NEW k \in 1 .. n PROVE Offer(s, H, token, order, k) \in S
    BY DEF Offered
  <2>1. k \in 1 .. steps
    BY <1>2
  <2>2. QED
    BY <1>2, <2>1 DEF OfferedAlike
<1>9. \A x \in S : x.score \in Int
  BY <1>5, HypothesesAre
<1>10. So(0) = {}
  BY DEF Offered
<1> HIDE DEF steps, S, S2, Like, So
<1> DEFINE Good(n) == KeptOn(FALSE, f[n].hypotheses, Entries(f[n].table), H, S, So(n))
           N == {n \in Nat : n <= steps => Good(n)}
<1>11. Good(0)
  <2>1. f[0].hypotheses = H /\ f[0].table = EmptyTable
    BY <1>2
  <2>2. Entries(EmptyTable) = {}
    BY EmptyHoldsNothing
  <2>3. Keeps(H, H)
    BY <1>5 DEF Keeps
  <2>4. KeptOn(FALSE, H, {}, H, S, {})
    BY <1>5, <2>3 DEF KeptOn, Kept
  <2>5. QED
    BY <1>10, <2>1, <2>2, <2>4
<1>12. ASSUME NEW n \in Nat, n + 1 <= steps, Good(n) PROVE Good(n + 1)
  <2>1. n + 1 \in 1 .. steps /\ (n + 1) - 1 = n /\ n \in 0 .. steps
    BY <1>2, <1>12
  <2> DEFINE h == Offer(s, H, token, order, n + 1)
             h2 == Offer(s, G, token, order2, n + 1)
             b == f[n]
  <2>2. h \in S /\ h2 \in S2 /\ <<h, h2>> \in Like
    BY <1>2, <2>1 DEF OfferedAlike, S, S2, Like
  <2>3. f[n + 1] = AddCandidate(b.table, b.hypotheses, h)
    <3>1. f[n + 1] = LayerStep(TRUE, s, token, H, order, b, n + 1)
      BY <1>2, <2>1
    <3>2. QED
      BY <3>1 DEF LayerStep
  <2>4. Parallel(b, g[n], H, G, S, S2, Like)
    BY <1>2, <2>1
  <2>5. So(n + 1) = So(n) \union {h} /\ So(n) \in SUBSET S
    BY <1>7, <1>8, <2>1
  <2> HIDE DEF h, h2, b
  <2>6. StepAdds(b, h)
    BY <1>5, <1>6, <2>2, <2>4, StepAddsOne
  <2>7. Adds(FALSE, b.hypotheses, Entries(b.table), f[n + 1].hypotheses, Entries(f[n + 1].table), h)
    BY <2>3, <2>6 DEF StepAdds
  <2>8. KeptOn(FALSE, b.hypotheses, Entries(b.table), H, S, So(n))
    BY <1>12 DEF b
  <2>9. KeptOn(FALSE, f[n + 1].hypotheses, Entries(f[n + 1].table), H, S, So(n) \union {h})
    BY <1>5, <1>9, <2>2, <2>5, <2>7, <2>8, OfferKeeps
  <2>10. QED
    BY <2>5, <2>9
<1> HIDE DEF Good
<1>13. \A n \in Nat : n \in N => n + 1 \in N
  <2>1. ASSUME NEW n \in Nat, n \in N, n + 1 <= steps PROVE Good(n + 1)
    BY <1>2, <1>12, <2>1
  <2>2. QED
    BY <2>1
<1>14. Good(steps)
  <2>1. 0 \in N
    BY <1>11
  <2>2. Nat \subseteq N
    <3> HIDE DEF N
    <3> QED BY <1>13, <2>1, NatSetInduction
  <2>3. QED
    BY <1>2, <2>2
<1>15. KeptOn(FALSE, d.hypotheses, Entries(d.table), H, S, Offers(s, H, E, token))
  BY <1>2, <1>7, <1>14 DEF Good
<1>16. Searched(FALSE, s, H, E, token - 1)
  BY DEF H, E
<1>17. QED
  BY <1>15, <1>16, LayerSearches DEF S

(* What is known of a decoder before its first layer.                      *)
LEMMA RootSearched ==
  ASSUME NEW s \in Sentences, NEW exact \in BOOLEAN
  PROVE  Searched(exact, s, <<Root(s)>>, {1}, 0)
<1> DEFINE H == <<Root(s)>>
<1>1. Tokens(s) \in Nat /\ Tokens(s) > 0 /\ \A t \in 1 .. Tokens(s) : Candidates(s, t) \in Nat /\ Candidates(s, t) > 0
  BY WordsAre
<1>2. Root(s) \in HypothesesOf(s, 1)
  <2>1. Begin \in Analyses(s) /\ 0 \in 0 .. 1 /\ 0 \in Int
    BY DEF Analyses
  <2>2. QED
    BY <2>1 DEF Root, HypothesesOf
<1>3. /\ Root(s).back = 0 /\ Root(s).previous = Begin /\ Root(s).current = Begin /\ Root(s).score = 0
      /\ Root(s) = Hypothesis(s, Begin, Begin, 0, 0)
  BY DEF Root, Hypothesis
<1>4. Len(H) = 1 /\ H[1] = Root(s) /\ H \in Seq(HypothesesOf(s, 1))
  BY <1>2
<1> HIDE DEF H
<1>5. Descending(H)
  BY <1>3, <1>4 DEF Descending
<1>6. Reconstruct(H, 1) = <<>>
  <2>1. 1 \in 1 .. Len(H) /\ H[1].back = 0
    BY <1>3, <1>4
  <2>2. Reconstruct(H, 1) = IF H[1].back = 0 THEN <<>>
                            ELSE Append(Reconstruct(H, H[1].back), H[1].current[2])
    BY <1>5, <2>1, ReconstructIs
  <2>3. QED
    BY <2>1, <2>2
<1>7. ASSUME NEW path \in Paths(s)
      PROVE  /\ AnalysisAt(s, path, 0) = Begin /\ AnalysisAt(s, path, 0 - 1) = Begin
             /\ ScoreUpto(s, path)[0] = 0 /\ Prefix(path, 0) = <<>>
  <2>1. Prefix(path, 0) = <<>>
    BY DEF Prefix
  <2>2. QED
    BY <2>1, ScoreUptoIs DEF AnalysisAt
<1>8. ASSUME NEW path \in Paths(s) PROVE Spells(s, H, 1, 0, path) /\ Leads(exact, s, H, 1, 0, path)
  BY <1>3, <1>4, <1>6, <1>7 DEF Spells, Leads, Same
<1>9. \E path \in Paths(s) : TRUE
  BY PathsExist
<1>10. Searched(exact, s, H, {1}, 0)
  BY <1>4, <1>5, <1>8, <1>9 DEF Searched
<1>11. QED
  BY <1>10 DEF H

(* The hash decoder starts there, with the root in its table.              *)
LEMMA StartSearched ==
  ASSUME NEW s \in Sentences
  PROVE  Searched(FALSE, s, Start(s).hypotheses, Entries(Start(s).table), 0)
<1> DEFINE h == Root(s)
           S == HypothesesOf(s, 0)
           Like == Alike(<<>>, <<>>, s)
           c == Nothing
           d == AddCandidate(EmptyTable, <<>>, h)
<1>1. /\ Start(s) = d /\ h \in S /\ <<h, h>> \in Like /\ RelationOK(Like)
      /\ Parallel(c, c, <<>>, <<>>, S, S, Like)
  BY RootAlike DEF StartsWithRoot
<1>2. Len(<<>>) \in Nat /\ c.table = EmptyTable /\ c.hypotheses = <<>>
  BY DEF Nothing
<1> HIDE DEF S, Like, h, c
<1>3. StepAdds(c, h)
  BY <1>1, <1>2, StepAddsOne
<1>4. Adds(FALSE, <<>>, Entries(EmptyTable), d.hypotheses, Entries(d.table), h)
  BY <1>2, <1>3 DEF StepAdds
<1>5. Entries(EmptyTable) = {}
  BY EmptyHoldsNothing
<1> HIDE DEF d
<1>6. d.hypotheses = <<h>> /\ Entries(d.table) = {1}
  <2>1. d.hypotheses = Append(<<>>, h) /\ Entries(d.table) = {} \union {Len(<<>>) + 1}
    BY <1>4, <1>5 DEF Adds
  <2>2. QED
    BY <2>1
<1>7. Searched(FALSE, s, <<h>>, {1}, 0)
  BY RootSearched DEF h
<1>8. QED
  BY <1>1, <1>6, <1>7

-----------------------------------------------------------------------------
(* The end of the search.                                                  *)

(* No path has a higher score, and for the dense decoder none has the same.*)
BestPath(exact, s, p) ==
  /\ p \in Paths(s)
  /\ \A path \in Paths(s) : \/ PathScore(s, p) > PathScore(s, path)
                            \/ PathScore(s, p) = PathScore(s, path) /\ (exact => path = p)

(* Entry b is the best, and for the dense decoder nothing ties with it.    *)
Tops(exact, final, E, b) ==
  /\ b \in E
  /\ \A i \in E : \/ final[b].score > final[i].score
                  \/ final[b].score = final[i].score /\ (exact => i = b)

(* What the end transition adds to a hypothesis that ends like a path.     *)
LEMMA EndWeight ==
  ASSUME NEW s \in Sentences, NEW exact \in BOOLEAN, NEW H, H \in Seq(HypothesesOf(s, Len(H))),
         NEW i \in 1 .. Len(H), NEW path \in Paths(s),
         Same(exact, H[i], Hypothesis(s, AnalysisAt(s, path, Tokens(s) - 1), AnalysisAt(s, path, Tokens(s)), 0, 0))
  PROVE  Weight(s, H[i].previous, H[i].current, <<Tokens(s) + 1, 1>>) = StepWeight(s, path, Tokens(s) + 1)
<1> DEFINE n == Tokens(s)
           p == AnalysisAt(s, path, n - 1)
           q == AnalysisAt(s, path, n)
           h == H[i]
           e == <<n + 1, 1>>
<1>1. n \in Nat /\ n > 0 /\ (n + 1) - 2 = n - 1 /\ (n + 1) - 1 = n
  BY WordsAre
<1>2. h = Hypothesis(s, h.previous, h.current, h.back, h.score)
  <2>1. Len(H) \in Nat /\ H[i] \in HypothesesOf(s, Len(H))
    OBVIOUS
  <2>2. QED
    BY <2>1, HypothesesAre
<1>3. Same(exact, h, Hypothesis(s, p, q, 0, 0))
  OBVIOUS
<1>4. AnalysisAt(s, path, n + 1) = e
  BY <1>1 DEF AnalysisAt
<1>5. StepWeight(s, path, n + 1) = Weight(s, p, q, e)
  BY <1>1, <1>4 DEF StepWeight
<1> HIDE DEF n, p, q, h, e
<1>6. h.state = State(s, h.previous, h.current) /\ h.state = State(s, p, q)
  BY <1>2, <1>3 DEF Same, Hypothesis
<1>7. WordOf(s, h.previous) = WordOf(s, p) /\ WordOf(s, h.current) = WordOf(s, q)
  BY <1>6 DEF State
<1>8. Weight(s, h.previous, h.current, e) = Weight(s, p, q, e)
  BY <1>7 DEF Weight
<1>9. QED
  BY <1>5, <1>8 DEF n, h, e

(* The best entry of the last layer is the end of the best path.           *)
LEMMA FinishIsBest ==
  ASSUME NEW s \in Sentences, NEW exact \in BOOLEAN, NEW H, NEW E, Searched(exact, s, H, E, Tokens(s)),
         NEW final, EndsAs(final, s, H, E), NEW b, Tops(exact, final, E, b)
  PROVE  BestPath(exact, s, Reconstruct(final, b))
<1> DEFINE n == Tokens(s)
           W(i) == Weight(s, H[i].previous, H[i].current, <<Tokens(s) + 1, 1>>)
<1>1. /\ H \in Seq(HypothesesOf(s, Len(H))) /\ Descending(H) /\ Len(H) \in Nat
      /\ \A i \in E : i \in 1 .. Len(H) /\ \E path \in Paths(s) : Spells(s, H, i, n, path)
      /\ \A path \in Paths(s) : \E i \in E : Leads(exact, s, H, i, n, path)
  BY DEF Searched
<1>2. /\ Descending(final) /\ Len(final) = Len(H) /\ SameBacks(final, H, Len(H))
      /\ \A i \in E : final[i].score = H[i].score + W(i)
  BY <1>1 DEF EndsAs
<1>3. b \in E /\ \A i \in E : \/ final[b].score > final[i].score
                              \/ final[b].score = final[i].score /\ (exact => i = b)
  BY DEF Tops
<1>4. n \in Nat /\ n > 0 /\ n \in 1 .. n + 1 /\ n + 1 \in 1 .. n + 1 /\ (n + 1) - 1 = n
  BY WordsAre
<1>5. \A i \in E : H[i].score \in Int
  <2> SUFFICES ASSUME NEW i \in E PROVE H[i].score \in Int
    OBVIOUS
  <2>1. H[i] \in HypothesesOf(s, Len(H))
    BY <1>1
  <2>2. QED
    BY <1>1, <2>1, HypothesesAre
<1> HIDE DEF n, W
<1>6. ASSUME NEW path \in Paths(s)
      PROVE  /\ PathScore(s, path) = ScoreUpto(s, path)[n] + StepWeight(s, path, n + 1)
             /\ ScoreUpto(s, path)[n] \in Int /\ StepWeight(s, path, n + 1) \in Int
             /\ Prefix(path, n) = path
  <2>1. /\ \A t \in 0 .. n + 1 : ScoreUpto(s, path)[t] \in Int
        /\ \A t \in 1 .. n + 1 :
              /\ StepWeight(s, path, t) \in Int
              /\ ScoreUpto(s, path)[t] = ScoreUpto(s, path)[t - 1] + StepWeight(s, path, t)
        /\ PathScore(s, path) = ScoreUpto(s, path)[n + 1]
    BY ScoreUptoIs DEF n
  <2>2. n \in 0 .. n + 1
    BY <1>4
  <2>3. path \in [1 .. n -> Nat]
    BY PathsAre DEF Chooses, n
  <2>4. Prefix(path, n) = path
    BY <2>3 DEF Prefix
  <2>5. QED
    BY <1>4, <2>1, <2>2, <2>4
<1>7. ASSUME NEW path \in Paths(s), NEW i \in E,
             Same(exact, H[i], Hypothesis(s, AnalysisAt(s, path, n - 1), AnalysisAt(s, path, n), 0, 0))
      PROVE  W(i) = StepWeight(s, path, n + 1)
  BY <1>1, <1>7, EndWeight DEF n, W
<1>8. Reconstruct(final, b) = Reconstruct(H, b)
  <2>1. b \in 0 .. Len(H) /\ Len(H) <= Len(final) /\ Len(H) <= Len(H)
    BY <1>1, <1>2, <1>3
  <2>2. QED
    BY <1>1, <1>2, <2>1, SamePaths
<1>9. PICK p \in Paths(s) : Spells(s, H, b, n, p)
  BY <1>1, <1>3
<1>10. Reconstruct(final, b) = p
  BY <1>6, <1>8, <1>9 DEF Spells
<1>11. final[b].score = PathScore(s, p)
  <2>1. H[b].previous = AnalysisAt(s, p, n - 1) /\ H[b].current = AnalysisAt(s, p, n)
        /\ H[b].score = ScoreUpto(s, p)[n]
    BY <1>9 DEF Spells
  <2>2. W(b) = StepWeight(s, p, n + 1)
    BY <1>4, <2>1 DEF W, StepWeight, AnalysisAt, n
  <2>3. QED
    BY <1>2, <1>3, <1>6, <2>1, <2>2
<1>12. ASSUME NEW path \in Paths(s)
       PROVE  \/ PathScore(s, p) > PathScore(s, path)
              \/ PathScore(s, p) = PathScore(s, path) /\ (exact => path = p)
  <2>1. PICK i \in E : Leads(exact, s, H, i, n, path)
    BY <1>1
  <2>2. W(i) = StepWeight(s, path, n + 1)
    BY <1>7, <2>1 DEF Leads
  <2>3. \/ H[i].score > ScoreUpto(s, path)[n]
        \/ H[i].score = ScoreUpto(s, path)[n] /\ (exact => Reconstruct(H, i) = Prefix(path, n))
    BY <2>1 DEF Leads
  <2>4. final[i].score = H[i].score + StepWeight(s, path, n + 1) /\ H[i].score \in Int
        /\ PathScore(s, path) = ScoreUpto(s, path)[n] + StepWeight(s, path, n + 1)
        /\ ScoreUpto(s, path)[n] \in Int /\ StepWeight(s, path, n + 1) \in Int
        /\ PathScore(s, p) \in Int /\ Prefix(path, n) = path
    BY <1>2, <1>5, <1>6, <2>2
  <2>5. \/ final[i].score > PathScore(s, path)
        \/ final[i].score = PathScore(s, path) /\ (exact => Reconstruct(H, i) = path)
    BY <2>3, <2>4
  <2>6. \/ PathScore(s, p) > final[i].score
        \/ PathScore(s, p) = final[i].score /\ (exact => i = b)
    BY <1>3, <1>11
  <2>7. final[i].score \in Int /\ PathScore(s, path) \in Int
    BY <2>4
  <2>8. exact /\ i = b /\ Reconstruct(H, i) = path => path = p
    BY <1>8, <1>10
  <2>9. QED
    BY <2>4, <2>5, <2>6, <2>7, <2>8
<1>13. QED
  BY <1>10, <1>12 DEF BestPath

(* The first of the best entries is the best.                              *)
LEMMA BestTops ==
  ASSUME NEW table, NEW hyps, ReadWhole(table), Entries(table) # {},
         \A i \in Entries(table) : i \in Nat /\ i # 0 /\ hyps[i].score \in Int
  PROVE  Tops(FALSE, hyps, Entries(table), Best(table, hyps))
<1> DEFINE order == InSlotOrder(table)
           m == Len(order)
           E == Entries(table)
<1>1. m \in Nat /\ DOMAIN order = 1 .. m /\ EntriesOf(order) = E
  BY DEF ReadWhole
<1>2. BestFrom(table, hyps, order, m)
  BY <1>1, BestLaw
<1>3. PICK best : /\ best[0] = 0
                  /\ \A n \in 1 .. m : best[n] = Better(hyps, order, best[n - 1], n)
                  /\ Best(table, hyps) = best[m]
  BY <1>2 DEF BestFrom
<1> HIDE DEF order, m
<1>4. /\ \A k \in 1 .. m : order[k] \in E /\ order[k] # 0 /\ hyps[order[k]].score \in Int
      /\ \A i \in E : \E k \in 1 .. m : order[k] = i
      /\ m >= 1
  <2>1. \A k \in 1 .. m : order[k] \in E
    BY <1>1 DEF EntriesOf
  <2>2. \A i \in E : \E k \in 1 .. m : order[k] = i
    BY <1>1 DEF EntriesOf
  <2>3. m >= 1
    BY <1>1, <2>2
  <2>4. QED
    BY <2>1, <2>2, <2>3
<1> HIDE DEF E
<1> DEFINE Good(n) == \E k \in 1 .. n : /\ best[n] = order[k]
                                        /\ \A j \in 1 .. n : hyps[order[k]].score >= hyps[order[j]].score
           N == {n \in Nat : n + 1 <= m => Good(n + 1)}
<1>5. Good(1)
  <2>1. best[1] = order[1]
    <3>1. 1 \in 1 .. m /\ 1 - 1 = 0
      BY <1>1, <1>4
    <3>2. QED
      BY <1>3, <3>1 DEF Better
  <2>2. 1 \in 1 .. 1 /\ \A j \in 1 .. 1 : j = 1 /\ hyps[order[1]].score >= hyps[order[j]].score
    BY <1>1, <1>4
  <2>3. QED
    BY <2>1, <2>2
<1>6. ASSUME NEW n \in Nat, n >= 1, n + 1 <= m, Good(n) PROVE Good(n + 1)
  <2>1. PICK k \in 1 .. n : /\ best[n] = order[k]
                            /\ \A j \in 1 .. n : hyps[order[k]].score >= hyps[order[j]].score
    BY <1>6
  <2>2. n + 1 \in 1 .. m /\ (n + 1) - 1 = n /\ k \in 1 .. m /\ n + 1 \in 1 .. n + 1 /\ k \in 1 .. n + 1
        /\ (\A j \in 1 .. n + 1 : j = n + 1 \/ j \in 1 .. n)
        /\ \A j \in 1 .. n : j \in 1 .. m
    BY <1>1, <1>6
  <2>3. best[n + 1] = IF hyps[order[k]].score < hyps[order[n + 1]].score THEN order[n + 1] ELSE order[k]
    BY <1>3, <1>4, <2>1, <2>2 DEF Better
  <2>4. hyps[order[k]].score \in Int /\ hyps[order[n + 1]].score \in Int
        /\ \A j \in 1 .. n : hyps[order[j]].score \in Int
    BY <1>4, <2>2
  <2>5. CASE hyps[order[k]].score < hyps[order[n + 1]].score
    <3>1. best[n + 1] = order[n + 1]
      BY <2>3, <2>5
    <3>2. \A j \in 1 .. n + 1 : hyps[order[n + 1]].score >= hyps[order[j]].score
      BY <2>1, <2>2, <2>4, <2>5
    <3>3. QED
      BY <2>2, <3>1, <3>2
  <2>6. CASE ~ (hyps[order[k]].score < hyps[order[n + 1]].score)
    <3>1. best[n + 1] = order[k]
      BY <2>3, <2>6
    <3>2. \A j \in 1 .. n + 1 : hyps[order[k]].score >= hyps[order[j]].score
      BY <2>1, <2>2, <2>4, <2>6
    <3>3. QED
      BY <2>2, <3>1, <3>2
  <2>7. QED
    BY <2>5, <2>6
<1> HIDE DEF Good
<1>7. Good(m)
  <2>1. 0 \in N
    BY <1>5
  <2>2. \A n \in Nat : n \in N => n + 1 \in N
    <3>1. ASSUME NEW n \in Nat, n \in N, (n + 1) + 1 <= m PROVE Good((n + 1) + 1)
      <4>1. n + 1 \in Nat /\ n + 1 >= 1 /\ n + 1 <= m
        BY <1>1, <3>1
      <4>2. QED
        BY <1>6, <3>1, <4>1
    <3>2. QED
      BY <3>1
  <2>3. Nat \subseteq N
    <3> HIDE DEF N
    <3> QED BY <2>1, <2>2, NatSetInduction
  <2>4. m - 1 \in Nat /\ (m - 1) + 1 = m
    BY <1>1, <1>4
  <2>5. QED
    BY <2>3, <2>4
<1>8. PICK k \in 1 .. m : /\ best[m] = order[k]
                          /\ \A j \in 1 .. m : hyps[order[k]].score >= hyps[order[j]].score
  BY <1>7 DEF Good
<1>9. ASSUME NEW i \in E
      PROVE  hyps[order[k]].score > hyps[i].score \/ hyps[order[k]].score = hyps[i].score
  <2>1. PICK j \in 1 .. m : order[j] = i
    BY <1>4
  <2>2. QED
    BY <1>4, <1>8, <2>1
<1>10. Tops(FALSE, hyps, E, order[k])
  BY <1>4, <1>9 DEF Tops
<1>11. QED
  BY <1>3, <1>8, <1>10 DEF E

(* The best of the dense decoder, entry by entry.                          *)
DenseBetter(hyps, order, b, n) ==
  IF n = 1 THEN [index |-> order[1], tie |-> FALSE]
  ELSE [index |-> IF hyps[b.index].score < hyps[order[n]].score THEN order[n] ELSE b.index,
        tie   |-> b.tie \/ Tied(hyps[b.index].score, hyps[order[n]].score)]

DenseBestFrom(hyps, order, m) ==
  \E best : /\ \A n \in 1 .. m : best[n] = DenseBetter(hyps, order, best[n - 1], n)
            /\ DenseBest(hyps, order) = best[m]

(* The recursion that DenseBest is chosen by has a solution.               *)
LEMMA DenseBestLaw ==
  ASSUME NEW hyps, NEW order, NEW n \in Nat, Len(order) = n
  PROVE  DenseBestFrom(hyps, order, n)
<1> DEFINE Step(x, j) == DenseBetter(hyps, order, x, j)
           Law(f, b) == f = [j \in 1 .. b |-> Step(f[j - 1], j)]
           S == {b \in Nat : \E f : Law(f, b)}
<1> HIDE DEF Step
<1>1. 0 \in S
  <2>1. Law([j \in 1 .. 0 |-> <<>>], 0)
    OBVIOUS
  <2> HIDE DEF Law
  <2>2. QED
    BY <2>1
<1>0. \A x, y : Step(x, 1) = Step(y, 1)
  BY DEF Step, DenseBetter
<1>2. ASSUME NEW b \in Nat, b \in S PROVE b + 1 \in S
  <2>1. PICK f : Law(f, b)
    BY <1>2
  <2> DEFINE g == [j \in 1 .. b + 1 |-> IF j = b + 1 THEN Step(f[b], b + 1) ELSE f[j]]
  <2>2. \A j \in 1 .. b : f[j] = Step(f[j - 1], j)
    BY <2>1
  <2>3. ASSUME NEW j \in 1 .. b + 1 PROVE g[j] = Step(g[j - 1], j)
    <3>1. j = 1 \/ j - 1 \in 1 .. b
      BY <1>2
    <3>2. CASE j = b + 1
      <4>1. g[j] = Step(f[b], j) /\ j - 1 = b
        BY <3>2
      <4>2. CASE j = 1
        BY <1>0, <4>1, <4>2
      <4>3. CASE j # 1
        <5>1. j - 1 \in 1 .. b + 1 /\ j - 1 # b + 1 /\ g[j - 1] = f[b]
          BY <3>1, <4>1, <4>3
        <5>2. QED
          BY <4>1, <5>1
      <4>4. QED
        BY <4>2, <4>3
    <3>3. CASE j # b + 1
      <4>1. j \in 1 .. b /\ g[j] = f[j]
        BY <3>3
      <4>2. CASE j = 1
        <5>1. f[j] = Step(f[j - 1], j)
          BY <2>2, <4>1
        <5> HIDE DEF g
        <5>2. QED
          BY <1>0, <4>1, <4>2, <5>1
      <4>3. CASE j # 1
        <5>1. j - 1 \in 1 .. b + 1 /\ j - 1 # b + 1 /\ g[j - 1] = f[j - 1]
          BY <3>1, <4>1, <4>3
        <5> HIDE DEF g
        <5>2. QED
          BY <2>2, <4>1, <5>1
      <4>4. QED
        BY <4>2, <4>3
    <3>4. QED
      BY <3>2, <3>3
  <2>4. Law(g, b + 1)
    <3>1. g = [j \in 1 .. b + 1 |-> g[j]]
      OBVIOUS
    <3> HIDE DEF g
    <3>2. QED
      BY <2>3, <3>1
  <2> HIDE DEF Law, g
  <2>5. QED
    BY <2>4
<1>3. n \in S
  <2> HIDE DEF S
  <2> QED BY <1>1, <1>2, NatSetInduction
<1> DEFINE best == CHOOSE f : Law(f, n)
<1>4. Law(best, n)
  <2>1. \E f : Law(f, n)
    BY <1>3
  <2> HIDE DEF Law
  <2>2. QED
    BY <2>1
<1>5. DenseBest(hyps, order) = best[n]
  BY DEF DenseBest, Step, DenseBetter
<1> HIDE DEF best
<1>6. \A j \in 1 .. n : best[j] = Step(best[j - 1], j)
  BY <1>4
<1>7. QED
  BY <1>5, <1>6 DEF Step, DenseBestFrom

(* When the dense decoder finds no tie, nothing ties with its best entry.  *)
LEMMA DenseBestTops ==
  ASSUME NEW hyps, NEW order, Len(order) \in Nat, Len(order) >= 1, DOMAIN order = 1 .. Len(order),
         \A i \in EntriesOf(order) : hyps[i].score \in Int, ~ DenseBest(hyps, order).tie
  PROVE  Tops(TRUE, hyps, EntriesOf(order), DenseBest(hyps, order).index)
<1> DEFINE m == Len(order)
           E == EntriesOf(order)
           Over(k, n) == \A j \in 1 .. n : j # k => hyps[order[k]].score > hyps[order[j]].score
<1>1. PICK best : /\ \A n \in 1 .. m : best[n] = DenseBetter(hyps, order, best[n - 1], n)
                  /\ DenseBest(hyps, order) = best[m]
  BY DenseBestLaw DEF DenseBestFrom
<1>2. /\ \A k \in 1 .. m : order[k] \in E /\ hyps[order[k]].score \in Int
      /\ \A i \in E : \E k \in 1 .. m : order[k] = i
      /\ m \in Nat /\ m >= 1
  BY DEF EntriesOf
<1> HIDE DEF m, E
<1> DEFINE Good(n) == best[n].tie \/ \E k \in 1 .. n : best[n].index = order[k] /\ Over(k, n)
           N == {n \in Nat : n + 1 <= m => Good(n + 1)}
<1>3. Good(1)
  <2>1. best[1].index = order[1]
    <3>1. 1 \in 1 .. m
      BY <1>2
    <3>2. best[1] = [index |-> order[1], tie |-> FALSE]
      BY <1>1, <3>1 DEF DenseBetter
    <3>3. QED
      BY <3>2
  <2>2. 1 \in 1 .. 1 /\ Over(1, 1)
    OBVIOUS
  <2> HIDE DEF Over
  <2>3. QED
    BY <2>1, <2>2
<1>4. ASSUME NEW n \in Nat, n >= 1, n + 1 <= m, Good(n) PROVE Good(n + 1)
  <2> DEFINE b == best[n]
             new == order[n + 1]
  <2>1. n + 1 \in 1 .. m /\ (n + 1) - 1 = n /\ n + 1 # 1 /\ n + 1 \in 1 .. n + 1
        /\ (\A j \in 1 .. n + 1 : j = n + 1 \/ j \in 1 .. n)
        /\ \A j \in 1 .. n : j \in 1 .. m /\ j # n + 1 /\ j \in 1 .. n + 1
    BY <1>2, <1>4
  <2>2. best[n + 1] = DenseBetter(hyps, order, b, n + 1)
    BY <1>1, <2>1
  <2>3. /\ best[n + 1].index = IF hyps[b.index].score < hyps[new].score THEN new ELSE b.index
        /\ best[n + 1].tie = (b.tie \/ hyps[b.index].score = hyps[new].score)
    BY <2>1, <2>2 DEF DenseBetter, Tied
  <2>4. CASE b.tie
    BY <2>3, <2>4
  <2>5. ASSUME ~ b.tie, hyps[b.index].score # hyps[new].score PROVE Good(n + 1)
    <3>1. PICK k \in 1 .. n : b.index = order[k] /\ Over(k, n)
      BY <1>4, <2>5
    <3>2. hyps[order[k]].score \in Int /\ hyps[new].score \in Int
          /\ \A j \in 1 .. n : hyps[order[j]].score \in Int
      BY <1>2, <2>1
    <3>3. CASE hyps[b.index].score < hyps[new].score
      <4>1. best[n + 1].index = order[n + 1]
        BY <2>3, <3>3
      <4>2. \A j \in 1 .. n : hyps[order[k]].score >= hyps[order[j]].score
        BY <3>1, <3>2
      <4>3. Over(n + 1, n + 1)
        BY <2>1, <3>1, <3>2, <3>3, <4>2
      <4> HIDE DEF Over
      <4>4. QED
        BY <2>1, <4>1, <4>3
    <3>4. CASE ~ (hyps[b.index].score < hyps[new].score)
      <4>1. best[n + 1].index = order[k]
        BY <2>3, <3>1, <3>4
      <4>2. hyps[order[k]].score > hyps[new].score
        BY <2>5, <3>1, <3>2, <3>4
      <4>3. Over(k, n + 1)
        BY <2>1, <3>1, <4>2
      <4> HIDE DEF Over
      <4>4. QED
        BY <2>1, <4>1, <4>3
    <3>5. QED
      BY <3>3, <3>4
  <2>6. CASE hyps[b.index].score = hyps[new].score
    BY <2>3, <2>6
  <2>7. QED
    BY <2>4, <2>5, <2>6
<1> HIDE DEF Good
<1>5. Good(m)
  <2>1. 0 \in N
    BY <1>3
  <2>2. \A n \in Nat : n \in N => n + 1 \in N
    <3>1. ASSUME NEW n \in Nat, n \in N, (n + 1) + 1 <= m PROVE Good((n + 1) + 1)
      <4>1. n + 1 \in Nat /\ n + 1 >= 1 /\ n + 1 <= m
        BY <1>2, <3>1
      <4>2. QED
        BY <1>4, <3>1, <4>1
    <3>2. QED
      BY <3>1
  <2>3. Nat \subseteq N
    <3> HIDE DEF N
    <3> QED BY <2>1, <2>2, NatSetInduction
  <2>4. m - 1 \in Nat /\ (m - 1) + 1 = m
    BY <1>2
  <2>5. QED
    BY <2>3, <2>4
<1>6. ~ best[m].tie
  BY <1>1
<1>7. PICK k \in 1 .. m : best[m].index = order[k] /\ Over(k, m)
  BY <1>5, <1>6 DEF Good
<1>8. ASSUME NEW i \in E
      PROVE  hyps[order[k]].score > hyps[i].score \/ (hyps[order[k]].score = hyps[i].score /\ i = order[k])
  <2>1. PICK j \in 1 .. m : order[j] = i
    BY <1>2
  <2>2. QED
    BY <1>7, <2>1
<1>9. Tops(TRUE, hyps, E, order[k])
  BY <1>2, <1>8 DEF Tops
<1>10. QED
  BY <1>1, <1>7, <1>9 DEF E

-----------------------------------------------------------------------------
(* The dense decoder keeps the best of each pair of analyses, or gives up. *)

DenseGood(acc, base, S, offered) ==
  /\ acc = [hyps |-> acc.hyps, listed |-> acc.listed, tie |-> acc.tie] /\ acc.tie \in BOOLEAN
  /\ \/ acc.tie
     \/ /\ acc.listed \in Seq(Nat)
        /\ KeptOn(TRUE, acc.hyps, EntriesOf(acc.listed), base, S, offered)

(* What is listed after one more entry.                                    *)
LEMMA EntriesAppend ==
  ASSUME NEW listed \in Seq(Nat), NEW i \in Nat
  PROVE  Append(listed, i) \in Seq(Nat) /\ EntriesOf(Append(listed, i)) = EntriesOf(listed) \union {i}
<1>1. Append(listed, i) \in Seq(Nat) /\ ToSet(Append(listed, i)) = ToSet(listed) \union {i}
  BY AppendHolds
<1>2. \A x : ToSet(x) = EntriesOf(x)
  BY DEF ToSet, EntriesOf
<1>3. QED
  BY <1>1, <1>2

(* One transition of the dense decoder.                                    *)
LEMMA DenseStep ==
  ASSUME NEW s \in Sentences, NEW n \in Nat, NEW S, S = HypothesesOf(s, n), NEW base, Len(base) \in Nat,
         NEW offered \in SUBSET S, NEW acc, DenseGood(acc, base, S, offered), NEW h \in S
  PROVE  DenseGood(DenseAdd(acc, h), base, S, offered \union {h})
<1> DEFINE H == acc.hyps
           listed == acc.listed
           same == {i \in DOMAIN listed : H[listed[i]].previous = h.previous /\ H[listed[i]].current = h.current}
           held == listed[Min(same)]
           d == DenseAdd(acc, h)
           E == EntriesOf(listed)
<1>1. acc = [hyps |-> H, listed |-> listed, tie |-> acc.tie] /\ acc.tie \in BOOLEAN
  BY DEF DenseGood
<1>2. CASE same = {}
  <2> DEFINE H2 == Append(H, h)
             listed2 == Append(listed, Len(H) + 1)
  <2>1. d = [acc EXCEPT !.hyps = H2, !.listed = listed2]
    BY <1>2 DEF DenseAdd
  <2> HIDE DEF H2, listed2, H, listed, d
  <2>2. d.hyps = H2 /\ d.listed = listed2 /\ d.tie = acc.tie
        /\ d = [hyps |-> d.hyps, listed |-> d.listed, tie |-> d.tie]
    BY <1>1, <2>1
  <2>3. ASSUME ~ acc.tie
        PROVE  listed2 \in Seq(Nat) /\ KeptOn(TRUE, H2, EntriesOf(listed2), base, S, offered \union {h})
    <3>1. listed \in Seq(Nat) /\ KeptOn(TRUE, H, E, base, S, offered)
      BY <2>3 DEF DenseGood, H, listed
    <3>2. Len(H) \in Nat
      BY <3>1 DEF KeptOn
    <3>3. listed2 \in Seq(Nat) /\ EntriesOf(listed2) = E \union {Len(H) + 1}
      BY <3>1, <3>2, EntriesAppend DEF listed2
    <3>4. Adds(TRUE, H, E, H2, EntriesOf(listed2), h)
      BY <3>3 DEF Adds, H2
    <3>5. \A x \in S : x.score \in Int
      BY HypothesesAre
    <3>6. KeptOn(TRUE, H2, EntriesOf(listed2), base, S, offered \union {h})
      <4> HIDE DEF E
      <4>1. QED
        BY <3>1, <3>4, <3>5, OfferKeeps
    <3>7. QED
      BY <3>3, <3>6
  <2>4. QED
    BY <1>1, <2>2, <2>3 DEF DenseGood, d
<1>3. CASE same # {}
  <2> DEFINE H2 == IF H[held].score < h.score THEN [H EXCEPT ![held] = h] ELSE H
             tie2 == acc.tie \/ Tied(H[held].score, h.score)
  <2>1. d = [acc EXCEPT !.hyps = H2, !.tie = tie2]
    BY <1>3 DEF DenseAdd
  <2>2. tie2 \in BOOLEAN
    OBVIOUS
  <2> HIDE DEF H2, tie2, d
  <2>3. d.hyps = H2 /\ d.listed = listed /\ d.tie = tie2
        /\ d = [hyps |-> d.hyps, listed |-> d.listed, tie |-> d.tie]
    BY <1>1, <2>1
  <2>4. ASSUME ~ tie2
        PROVE  listed \in Seq(Nat) /\ KeptOn(TRUE, H2, E, base, S, offered \union {h})
    <3>1. ~ acc.tie /\ H[held].score # h.score
      BY <2>4 DEF tie2, Tied
    <3>2. listed \in Seq(Nat) /\ KeptOn(TRUE, H, E, base, S, offered)
      BY <3>1 DEF DenseGood
    <3>3. held \in E /\ H[held].previous = h.previous /\ H[held].current = h.current
      <4>1. same \in SUBSET Nat
        BY <3>2
      <4>2. Min(same) \in same
        <5> HIDE DEF same
        <5> QED BY <1>3, <4>1, MinOfNaturals
      <4>3. QED
        BY <4>2 DEF EntriesOf
    <3>4. H[held] \in S
      <4>1. H \in Seq(S) /\ held \in Nat /\ held > Len(base) /\ held <= Len(H)
        BY <3>2, <3>3 DEF KeptOn, Kept
      <4> HIDE DEF held, H
      <4>2. QED
        BY <4>1
    <3>5. Same(TRUE, H[held], h)
      <4> DEFINE g == H[held]
      <4> HIDE DEF g
      <4>1. g \in S /\ g.previous = h.previous /\ g.current = h.current
        BY <3>3, <3>4 DEF g
      <4>2. g = Hypothesis(s, g.previous, g.current, g.back, g.score)
            /\ h = Hypothesis(s, h.previous, h.current, h.back, h.score)
        BY <4>1, HypothesesAre
      <4>3. g.state = State(s, g.previous, g.current) /\ h.state = State(s, h.previous, h.current)
        BY <4>2 DEF Hypothesis
      <4>4. Same(TRUE, g, h)
        BY <4>1, <4>3 DEF Same
      <4>5. QED
        BY <4>4 DEF g
    <3> HIDE DEF held, E, H
    <3>6. Adds(TRUE, H, E, H2, E, h)
      BY <3>1, <3>3, <3>5 DEF Adds, H2
    <3>7. \A x \in S : x.score \in Int
      BY HypothesesAre
    <3>8. KeptOn(TRUE, H2, E, base, S, offered \union {h})
      BY <3>2, <3>6, <3>7, OfferKeeps
    <3>9. QED
      BY <3>2, <3>8
  <2>5. QED
    BY <2>2, <2>3, <2>4 DEF DenseGood, d
<1>4. QED
  BY <1>2, <1>3

DenseLayerFrom(s, token, hyps, order, steps) ==
  \E after : /\ after[0] = [hyps |-> hyps, listed |-> <<>>, tie |-> FALSE]
             /\ \A n \in 1 .. steps : after[n] = DenseAdd(after[n - 1], Offer(s, hyps, token, order, n))
             /\ DenseLayerOf(s, token, hyps, order) = after[steps]

(* The recursion that DenseLayerOf is chosen by has a solution.            *)
LEMMA DenseLayerLaw ==
  ASSUME NEW s, NEW token, NEW hyps, NEW order, NEW n \in Nat, LayerSteps(s, token, order) = n
  PROVE  DenseLayerFrom(s, token, hyps, order, n)
<1> DEFINE Base == [hyps |-> hyps, listed |-> <<>>, tie |-> FALSE]
           Step(x, j) == DenseAdd(x, Offer(s, hyps, token, order, j))
           Law(f, b) == f = [j \in 0 .. b |-> IF j = 0 THEN Base ELSE Step(f[j - 1], j)]
           S == {b \in Nat : \E f : Law(f, b)}
<1> HIDE DEF Step, Base
<1>1. 0 \in S
  <2>1. Law([j \in 0 .. 0 |-> Base], 0)
    OBVIOUS
  <2> HIDE DEF Law
  <2>2. QED
    BY <2>1
<1>2. ASSUME NEW b \in Nat, b \in S PROVE b + 1 \in S
  <2>1. PICK f : Law(f, b)
    BY <1>2
  <2> DEFINE g == [j \in 0 .. b + 1 |-> IF j = b + 1 THEN Step(f[b], b + 1) ELSE f[j]]
  <2>2. \A j \in 0 .. b : f[j] = IF j = 0 THEN Base ELSE Step(f[j - 1], j)
    BY <2>1
  <2>3. ASSUME NEW j \in 0 .. b + 1 PROVE g[j] = IF j = 0 THEN Base ELSE Step(g[j - 1], j)
    <3>1. CASE j = b + 1
      <4>1. j - 1 = b /\ b \in 0 .. b + 1 /\ b # b + 1 /\ j # 0
        BY <3>1
      <4>2. g[j - 1] = f[b] /\ g[j] = Step(f[b], b + 1)
        BY <3>1, <4>1
      <4>3. QED
        BY <3>1, <4>1, <4>2
    <3>2. CASE j # b + 1
      <4>1. j \in 0 .. b /\ g[j] = f[j]
        BY <3>2
      <4>2. j # 0 => j - 1 \in 0 .. b + 1 /\ j - 1 # b + 1 /\ g[j - 1] = f[j - 1]
        BY <4>1
      <4> HIDE DEF g
      <4>3. QED
        BY <2>2, <4>1, <4>2
    <3>3. QED
      BY <3>1, <3>2
  <2>4. Law(g, b + 1)
    <3>1. g = [j \in 0 .. b + 1 |-> g[j]]
      OBVIOUS
    <3> HIDE DEF g
    <3>2. QED
      BY <2>3, <3>1
  <2> HIDE DEF Law, g
  <2>5. QED
    BY <2>4
<1>3. n \in S
  <2> HIDE DEF S
  <2> QED BY <1>1, <1>2, NatSetInduction
<1> DEFINE after == CHOOSE f : Law(f, n)
<1>4. Law(after, n)
  <2>1. \E f : Law(f, n)
    BY <1>3
  <2> HIDE DEF Law
  <2>2. QED
    BY <2>1
<1>5. DenseLayerOf(s, token, hyps, order) = after[n]
  BY DEF DenseLayerOf, Step, Base, Offer
<1> HIDE DEF after
<1>6. \A j \in 0 .. n : after[j] = IF j = 0 THEN Base ELSE Step(after[j - 1], j)
  BY <1>4
<1>7. after[0] = Base /\ \A j \in 1 .. n : after[j] = Step(after[j - 1], j)
  BY <1>6
<1>8. QED
  BY <1>5, <1>7 DEF Step, Base, DenseLayerFrom

(* What a searched layer offers are hypotheses of the next one.            *)
LEMMA OffersAre ==
  ASSUME NEW s \in Sentences, NEW exact, NEW H, NEW E, NEW t, Searched(exact, s, H, E, t),
         NEW token \in 1 .. Tokens(s)
  PROVE  Offers(s, H, E, token) \in SUBSET HypothesesOf(s, Len(H))
<1>1. H \in Seq(HypothesesOf(s, Len(H))) /\ \A i \in E : i \in 1 .. Len(H)
  BY DEF Searched
<1>2. ASSUME NEW i \in E, NEW c \in 1 .. Candidates(s, token)
      PROVE  Continue(s, H, i, <<token, c>>) \in HypothesesOf(s, Len(H))
  <2>1. Continued(s, H, i, token, c, Continue(s, H, i, <<token, c>>))
    BY <1>1, ContinueIs
  <2> DEFINE h == Continue(s, H, i, <<token, c>>)
  <2> HIDE DEF h
  <2>2. Continued(s, H, i, token, c, h)
    BY <2>1 DEF h
  <2>3. h \in HypothesesOf(s, Len(H))
    BY <2>2 DEF Continued
  <2>4. QED
    BY <2>3 DEF h
<1>3. ASSUME NEW x \in Offers(s, H, E, token) PROVE x \in HypothesesOf(s, Len(H))
  <2>1. PICK i \in E, c \in 1 .. Candidates(s, token) : x = Continue(s, H, i, <<token, c>>)
    BY DEF Offers
  <2>2. QED
    BY <1>2, <2>1
<1>4. QED
  BY <1>3

DenseSearched(s, next, token) ==
  next.tie \/ (next.listed \in Seq(Nat) /\ Searched(TRUE, s, next.hyps, EntriesOf(next.listed), token))

(* A layer of the dense decoder gives up or searches one token further.    *)
LEMMA DenseLayerSearches ==
  ASSUME NEW s \in Sentences, NEW token \in 1 .. Tokens(s), NEW H, NEW order \in Seq(Nat),
         Searched(TRUE, s, H, EntriesOf(order), token - 1)
  PROVE  DenseSearched(s, DenseLayerOf(s, token, H, order), token)
<1> DEFINE steps == LayerSteps(s, token, order)
           S == HypothesesOf(s, Len(H))
           E == EntriesOf(order)
           So(n) == Offered(s, H, token, order, n)
           all == Offers(s, H, E, token)
<1>1. Len(order) \in Nat /\ DOMAIN order = 1 .. Len(order)
  OBVIOUS
<1>2. H \in Seq(S) /\ Len(H) \in Nat
  BY DEF Searched, Descending
<1>3. OffersWhole(s, H, token, order)
  BY <1>1, OffersAll
<1>4. /\ steps \in Nat /\ So(steps) = all
      /\ \A n \in 1 .. steps : /\ So(n) = So(n - 1) \union {Offer(s, H, token, order, n)}
                               /\ Offer(s, H, token, order, n) \in all
  BY <1>3 DEF OffersWhole
<1>5. all \in SUBSET S
  BY OffersAre
<1>6. \A n \in 0 .. steps : So(n) \in SUBSET S
  <2> SUFFICES ASSUME NEW n \in 0 .. steps, NEW k \in 1 .. n PROVE Offer(s, H, token, order, k) \in S
    BY DEF Offered
  <2>1. k \in 1 .. steps
    BY <1>4
  <2> HIDE DEF all, S, steps
  <2>2. QED
    BY <1>4, <1>5, <2>1
<1>7. So(0) = {}
  BY DEF Offered
<1>8. PICK f : /\ f[0] = [hyps |-> H, listed |-> <<>>, tie |-> FALSE]
               /\ \A n \in 1 .. steps : f[n] = DenseAdd(f[n - 1], Offer(s, H, token, order, n))
               /\ DenseLayerOf(s, token, H, order) = f[steps]
  <2>1. DenseLayerFrom(s, token, H, order, steps)
    <3>1. steps \in Nat /\ LayerSteps(s, token, order) = steps
      BY <1>4
    <3> HIDE DEF steps
    <3>2. QED
      BY ONLY <3>1, DenseLayerLaw
  <2> HIDE DEF steps
  <2>2. QED
    BY ONLY <2>1 DEF DenseLayerFrom
<1> HIDE DEF steps, So, all
<1> DEFINE Good(n) == DenseGood(f[n], H, S, So(n))
           N == {n \in Nat : n <= steps => Good(n)}
<1>9. Good(0)
  <2>1. Keeps(H, H)
    BY <1>2 DEF Keeps
  <2>2. EntriesOf(<<>>) = {} /\ <<>> \in Seq(Nat)
    BY DEF EntriesOf
  <2>3. KeptOn(TRUE, H, EntriesOf(<<>>), H, S, {})
    BY <1>2, <2>1, <2>2 DEF KeptOn, Kept
  <2> DEFINE b == f[0]
  <2>4. b.hyps = H /\ b.listed = <<>> /\ b.tie = FALSE
        /\ b = [hyps |-> b.hyps, listed |-> b.listed, tie |-> b.tie]
    BY <1>8
  <2> HIDE DEF S, b
  <2>5. KeptOn(TRUE, b.hyps, EntriesOf(b.listed), H, S, So(0)) /\ b.listed \in Seq(Nat)
    BY <1>7, <2>2, <2>3, <2>4
  <2>6. DenseGood(b, H, S, So(0))
    BY <2>4, <2>5 DEF DenseGood
  <2>7. QED
    BY <2>6 DEF b
<1>10. ASSUME NEW n \in Nat, n + 1 <= steps, Good(n) PROVE Good(n + 1)
  <2>1. n + 1 \in 1 .. steps /\ (n + 1) - 1 = n /\ n \in 0 .. steps
    BY <1>4, <1>10
  <2> DEFINE h == Offer(s, H, token, order, n + 1)
             b == f[n]
  <2>2. h \in S /\ So(n + 1) = So(n) \union {h} /\ So(n) \in SUBSET S
    <3> HIDE DEF S
    <3> QED BY <1>4, <1>5, <1>6, <2>1
  <2>3. f[n + 1] = DenseAdd(b, h)
    BY <1>8, <2>1
  <2>4. DenseGood(b, H, S, So(n))
    BY <1>10
  <2> HIDE DEF h, b
  <2>5. DenseGood(DenseAdd(b, h), H, S, So(n) \union {h})
    BY <1>2, <2>2, <2>4, DenseStep
  <2>6. QED
    BY <2>2, <2>3, <2>5
<1> HIDE DEF Good
<1>11. Good(steps)
  <2>1. 0 \in N
    BY <1>9
  <2>2. \A n \in Nat : n \in N => n + 1 \in N
    <3>1. ASSUME NEW n \in Nat, n \in N, n + 1 <= steps PROVE Good(n + 1)
      BY <1>4, <1>10, <3>1
    <3>2. QED
      BY <3>1
  <2>3. Nat \subseteq N
    <3> HIDE DEF N
    <3> QED BY <2>1, <2>2, NatSetInduction
  <2>4. QED
    BY <1>4, <2>3
<1> DEFINE d == DenseLayerOf(s, token, H, order)
<1>12. DenseGood(d, H, S, all)
  BY <1>4, <1>8, <1>11 DEF Good
<1> HIDE DEF d
<1>13. ASSUME ~ d.tie PROVE d.listed \in Seq(Nat) /\ Searched(TRUE, s, d.hyps, EntriesOf(d.listed), token)
  <2>1. d.listed \in Seq(Nat) /\ KeptOn(TRUE, d.hyps, EntriesOf(d.listed), H, S, all)
    BY <1>12, <1>13 DEF DenseGood
  <2>2. Searched(TRUE, s, d.hyps, EntriesOf(d.listed), token)
    BY <2>1, LayerSearches DEF all
  <2>3. QED
    BY <2>1, <2>2
<1>14. QED
  BY <1>13 DEF DenseSearched, d

-----------------------------------------------------------------------------
(* The answers.                                                            *)

(* What both finishes have to compare.                                     *)
Comparable(s, H, E, final) ==
  /\ EndsAs(final, s, H, E) /\ E # {}
  /\ \A i \in E : i \in Nat /\ i # 0 /\ final[i].score \in Int

(* The end transition leaves something to compare.                         *)
LEMMA FinalScores ==
  ASSUME NEW s \in Sentences, NEW exact, NEW H, NEW E, Searched(exact, s, H, E, Tokens(s))
  PROVE  Comparable(s, H, E, Terminated(s, H, E))
<1> DEFINE final == Terminated(s, H, E)
           e == <<Tokens(s) + 1, 1>>
<1>1. /\ H \in Seq(HypothesesOf(s, Len(H))) /\ Descending(H) /\ Len(H) \in Nat
      /\ \A i \in E : i \in 1 .. Len(H)
      /\ \A path \in Paths(s) : \E i \in E : Leads(exact, s, H, i, Tokens(s), path)
  BY DEF Searched
<1>2. EndsAs(final, s, H, E)
  BY <1>1, TerminatedIs
<1>3. E # {}
  BY <1>1, PathsExist
<1>4. ASSUME NEW i \in E PROVE i \in Nat /\ i # 0 /\ final[i].score \in Int
  <2>1. i \in 1 .. Len(H) /\ H[i] \in HypothesesOf(s, Len(H))
    BY <1>1
  <2>2. H[i].previous \in Analyses(s) /\ H[i].current \in Analyses(s) /\ H[i].score \in Int
    BY <1>1, <2>1, HypothesesAre
  <2>3. e \in Analyses(s)
    BY DEF Analyses
  <2>4. Weight(s, H[i].previous, H[i].current, e) \in Int
    BY <2>2, <2>3, WordsAre
  <2>5. final[i].score = H[i].score + Weight(s, H[i].previous, H[i].current, e)
    BY <1>2, <2>1 DEF EndsAs
  <2> HIDE DEF final, e
  <2>6. QED
    BY <1>1, <2>1, <2>2, <2>4, <2>5
<1>5. QED
  BY <1>2, <1>3, <1>4 DEF Comparable

(* What the dense decoder answers is the one best path.                    *)
LEMMA DenseAnswersBest ==
  ASSUME NEW s \in Sentences, NEW H, NEW order \in Seq(Nat),
         Searched(TRUE, s, H, EntriesOf(order), Tokens(s)),
         NEW final, final = Terminated(s, H, EntriesOf(order)), ~ DenseBest(final, order).tie
  PROVE  BestPath(TRUE, s, Reconstruct(final, DenseBest(final, order).index))
<1> DEFINE E == EntriesOf(order)
<1>1. Comparable(s, H, E, final)
  BY FinalScores
<1>2. EndsAs(final, s, H, E) /\ E # {} /\ \A i \in E : final[i].score \in Int
  BY <1>1 DEF Comparable
<1>3. Len(order) \in Nat /\ DOMAIN order = 1 .. Len(order)
  OBVIOUS
<1>4. Len(order) >= 1
  BY <1>2, <1>3 DEF EntriesOf
<1>5. Tops(TRUE, final, E, DenseBest(final, order).index)
  BY <1>2, <1>3, <1>4, DenseBestTops
<1> HIDE DEF E
<1>6. Searched(TRUE, s, H, E, Tokens(s))
  BY DEF E
<1>7. QED
  BY <1>2, <1>5, <1>6, FinishIsBest

(* What the hash decoder answers is a best path.                           *)
LEMMA HashAnswersBest ==
  ASSUME NEW s \in Sentences, NEW c, NEW r, Between(c, r, s),
         Searched(FALSE, s, c.hypotheses, Entries(c.table), Tokens(s))
  PROVE  BestPath(FALSE, s, ChosenFrom(s, c))
<1> DEFINE E == Entries(c.table)
           H == c.hypotheses
           order == InSlotOrder(c.table)
           final == Terminated(s, H, E)
<1>1. ReadWhole(c.table)
  BY BetweenReads
<1>2. E = {order[i] : i \in DOMAIN order}
  BY <1>1 DEF ReadWhole, EntriesOf
<1>3. ChosenFrom(s, c) = Reconstruct(final, Best(c.table, final))
  BY <1>2 DEF ChosenFrom
<1>4. Searched(FALSE, s, H, E, Tokens(s))
  OBVIOUS
<1>5. Comparable(s, H, E, final)
  BY <1>4, FinalScores
<1>6. EndsAs(final, s, H, E) /\ E # {}
      /\ \A i \in E : i \in Nat /\ i # 0 /\ final[i].score \in Int
  BY <1>5 DEF Comparable
<1> HIDE DEF final
<1>7. Tops(FALSE, final, E, Best(c.table, final))
  BY <1>1, <1>6, BestTops
<1> HIDE DEF E, H
<1>8. BestPath(FALSE, s, Reconstruct(final, Best(c.table, final)))
  BY <1>4, <1>6, <1>7, FinishIsBest
<1>9. QED
  BY <1>3, <1>8

-----------------------------------------------------------------------------
(* The invariant.                                                          *)

DenseSearching ==
  decoder = "dense" =>
    dense \in Seq(Nat) /\ Searched(TRUE, sentence, hypotheses, EntriesOf(dense), layer - 1)

HashSearching ==
  decoder = "hash" => Searched(FALSE, sentence, hypotheses, Entries(active), layer - 1)

DenseAnswer == selected["dense"] \in {None, Fallback} \/ BestPath(TRUE, sentence, selected["dense"])

HashAnswer == selected["hash"] = None \/ BestPath(FALSE, sentence, selected["hash"])

BestInv == IInv /\ DenseSearching /\ HashSearching /\ DenseAnswer /\ HashAnswer

(* The dense decoder has one best path, which the hash decoder must find.  *)
LEMMA BestImplies ==
  ASSUME BestInv
  PROVE  SelectionIsBest /\ DenseAgreesWithHash
<1>1. sentence \in Sentences /\ DenseAnswer /\ HashAnswer /\ DoneShape
  BY DEF BestInv, IInv, DecoderShape
<1>2. \A p \in Paths(sentence) : PathScore(sentence, p) \in Int
  <2> SUFFICES ASSUME NEW p \in Paths(sentence) PROVE PathScore(sentence, p) \in Int
    OBVIOUS
  <2>1. /\ \A t \in 0 .. Tokens(sentence) + 1 : ScoreUpto(sentence, p)[t] \in Int
        /\ PathScore(sentence, p) = ScoreUpto(sentence, p)[Tokens(sentence) + 1]
    BY <1>1, ScoreUptoIs
  <2>2. Tokens(sentence) + 1 \in 0 .. Tokens(sentence) + 1
    BY <1>1, WordsAre
  <2>3. QED
    BY <2>1, <2>2
<1>3. ASSUME NEW exact, NEW p, BestPath(exact, sentence, p)
      PROVE  /\ p \in Paths(sentence)
             /\ \A path \in Paths(sentence) : PathScore(sentence, p) >= PathScore(sentence, path)
  BY <1>2, <1>3 DEF BestPath
<1>4. SelectionIsBest
  <2> SUFFICES ASSUME decoder = "done", NEW d \in {"dense", "hash", "rich"}, Answered(d)
               PROVE  /\ selected[d] \in Paths(sentence)
                      /\ \A path \in Paths(sentence) :
                           PathScore(sentence, selected[d]) >= PathScore(sentence, path)
    BY DEF SelectionIsBest
  <2>1. CASE d = "dense"
    BY <1>1, <1>3, <2>1 DEF Answered, DenseAnswer
  <2>2. CASE d = "hash"
    BY <1>1, <1>3, <2>2 DEF Answered, HashAnswer
  <2>3. CASE d = "rich"
    <3>1. selected["rich"] = selected["hash"]
      BY <1>1 DEF DoneShape
    <3>2. QED
      BY <1>1, <1>3, <2>3, <3>1 DEF Answered, HashAnswer
  <2>4. QED
    BY <2>1, <2>2, <2>3
<1>5. DenseAgreesWithHash
  <2> SUFFICES ASSUME Answered("dense"), Answered("hash") PROVE selected["dense"] = selected["hash"]
    BY DEF DenseAgreesWithHash
  <2> DEFINE p == selected["dense"]
             q == selected["hash"]
  <2>1. BestPath(TRUE, sentence, p) /\ BestPath(FALSE, sentence, q)
    BY <1>1 DEF Answered, DenseAnswer, HashAnswer
  <2> HIDE DEF p, q
  <2>2. p \in Paths(sentence) /\ q \in Paths(sentence)
        /\ PathScore(sentence, q) >= PathScore(sentence, p)
    BY <1>3, <2>1
  <2>3. PathScore(sentence, p) > PathScore(sentence, q) \/ q = p
    BY <2>1, <2>2 DEF BestPath
  <2>4. q = p
    BY <1>2, <2>2, <2>3
  <2>5. QED
    BY <2>4 DEF p, q
<1>6. QED
  BY <1>4, <1>5

(* It holds initially.                                                     *)
LEMMA InitSearches == Init => BestInv
<1> SUFFICES ASSUME Init PROVE BestInv
  OBVIOUS
<1>1. IInv
  BY InitEstablishes
<1>2. /\ sentence \in Sentences /\ decoder = "dense" /\ layer = 1 /\ hypotheses = <<Root(sentence)>>
      /\ dense = <<1>> /\ selected["dense"] = None /\ selected["hash"] = None
  BY DEF Init
<1>3. EntriesOf(<<1>>) = {1} /\ <<1>> \in Seq(Nat)
  BY DEF EntriesOf
<1>4. Searched(TRUE, sentence, <<Root(sentence)>>, {1}, 0)
  BY <1>2, RootSearched
<1>5. DenseSearching
  <2>1. layer - 1 = 0
    BY <1>2
  <2>2. EntriesOf(dense) = {1} /\ dense \in Seq(Nat)
    BY <1>2, <1>3
  <2>3. Searched(TRUE, sentence, hypotheses, EntriesOf(dense), layer - 1)
    BY ONLY <1>2, <1>4, <2>1, <2>2
  <2>4. QED
    BY <2>2, <2>3 DEF DenseSearching
<1>6. QED
  BY <1>1, <1>2, <1>5 DEF BestInv, HashSearching, DenseAnswer, HashAnswer

(* The next decoder starts over.                                           *)
Restarted ==
  /\ sentence' = sentence /\ sentence \in Sentences /\ layer' - 1 = 0
  /\ Searched(FALSE, sentence', hypotheses', Entries(active'), layer' - 1)

(* Whatever decoder is next, it starts from the root alone.                *)
LEMMA RestartSearches ==
  ASSUME IInv, NEW next, NEW answer, decoder \in {"dense", "hash", "rich"}, StartNext(next, answer)
  PROVE  Restarted
<1>1. sentence \in Sentences /\ sentence' = sentence /\ layer' = 1 /\ Current' = Start(sentence)
  BY StartsAlike DEF IInv, DecoderShape
<1>2. hypotheses' = Start(sentence).hypotheses /\ active' = Start(sentence).table
  <2>1. Current' = [hypotheses |-> hypotheses', table |-> active']
    BY DEF Current
  <2> DEFINE now == Current'
  <2>2. now.hypotheses = hypotheses' /\ now.table = active'
    BY <2>1
  <2>3. now = Start(sentence)
    BY <1>1
  <2> HIDE DEF now
  <2>4. QED
    BY ONLY <2>2, <2>3
<1>3. Searched(FALSE, sentence, Start(sentence).hypotheses, Entries(Start(sentence).table), 0)
  BY <1>1, StartSearched
<1>4. layer' - 1 = 0
  BY <1>1
<1>5. Searched(FALSE, sentence', hypotheses', Entries(active'), layer' - 1)
  BY ONLY <1>1, <1>2, <1>3, <1>4
<1>6. QED
  BY <1>1, <1>4, <1>5 DEF Restarted

(* The dense decoder hands over, having given up or found the best path.   *)
LEMMA DenseHandsOver ==
  ASSUME BestInv, IInv', decoder = "dense", NEW answer, StartNext("hash", answer),
         answer \in {None, Fallback} \/ BestPath(TRUE, sentence, answer)
  PROVE  BestInv'
<1>1. Restarted
  BY RestartSearches DEF BestInv
<1>2. decoder' = "hash" /\ selected' = [selected EXCEPT !["dense"] = answer]
  BY DEF StartNext
<1>3. DOMAIN selected = {"dense", "hash", "rich"}
  BY DEF BestInv, IInv, DecoderShape
<1>4. selected'["dense"] = answer /\ selected'["hash"] = selected["hash"]
  BY <1>2, <1>3
<1>5. sentence' = sentence
  BY <1>1 DEF Restarted
<1>6. DenseAnswer'
  BY <1>4, <1>5 DEF DenseAnswer
<1>7. HashAnswer'
  BY <1>4, <1>5 DEF HashAnswer, BestInv
<1>8. HashSearching'
  BY <1>1 DEF HashSearching, Restarted
<1>9. DenseSearching'
  BY <1>2 DEF DenseSearching
<1>10. QED
  BY <1>6, <1>7, <1>8, <1>9 DEF BestInv

(* Every step keeps it.                                                    *)
LEMMA NextSearches == BestInv /\ [Next]_vars => BestInv'
<1> SUFFICES ASSUME BestInv, [Next]_vars PROVE BestInv'
  OBVIOUS
<1>1. IInv /\ IInv'
  BY NextPreserves DEF BestInv
<1>2. /\ sentence \in Sentences /\ Tokens(sentence) \in Nat
      /\ layer \in 1 .. Tokens(sentence) + 1
      /\ DOMAIN selected = {"dense", "hash", "rich"}
  BY <1>1, WordsAre DEF IInv, DecoderShape
<1>3. CASE DenseReject
  <2>1. decoder = "dense" /\ StartNext("hash", Fallback)
    BY <1>3 DEF DenseReject
  <2>2. QED
    BY <1>1, <2>1, DenseHandsOver
<1>4. CASE DenseLayer
  <2> DEFINE next == DenseLayerOf(sentence, layer, hypotheses, dense)
  <2>1. decoder = "dense" /\ layer <= Tokens(sentence) /\ layer \in 1 .. Tokens(sentence)
    BY <1>2, <1>4 DEF DenseLayer
  <2>2. CASE StartNext("hash", Fallback)
    BY <1>1, <2>1, <2>2, DenseHandsOver
  <2>3. CASE ~ StartNext("hash", Fallback)
    <3>1. /\ ~ next.tie /\ hypotheses' = next.hyps /\ dense' = next.listed /\ layer' = layer + 1
          /\ UNCHANGED <<sentence, decoder, active, selected>>
      BY <1>4, <2>3 DEF DenseLayer
    <3>2. dense \in Seq(Nat) /\ Searched(TRUE, sentence, hypotheses, EntriesOf(dense), layer - 1)
      BY <2>1 DEF BestInv, DenseSearching
    <3>3. DenseSearched(sentence, next, layer)
      BY <1>2, <2>1, <3>2, DenseLayerSearches
    <3> HIDE DEF next
    <3>4. next.listed \in Seq(Nat) /\ Searched(TRUE, sentence, next.hyps, EntriesOf(next.listed), layer)
      BY <3>1, <3>3 DEF DenseSearched
    <3>5. layer' - 1 = layer
      BY <1>2, <3>1
    <3>6. dense' \in Seq(Nat) /\ Searched(TRUE, sentence', hypotheses', EntriesOf(dense'), layer' - 1)
      BY ONLY <3>1, <3>4, <3>5
    <3>7. DenseSearching'
      BY <3>6 DEF DenseSearching
    <3>8. QED
      BY <1>1, <2>1, <3>1, <3>7 DEF BestInv, HashSearching, DenseAnswer, HashAnswer
  <2>4. QED
    BY <2>2, <2>3
<1>5. CASE DenseFinish
  <2> DEFINE final == Terminated(sentence, hypotheses, EntriesOf(dense))
             best == DenseBest(final, dense)
             answer == IF best.tie THEN Fallback ELSE Reconstruct(final, best.index)
  <2>1. decoder = "dense" /\ layer > Tokens(sentence)
    BY <1>5 DEF DenseFinish
  <2>2. StartNext("hash", answer)
    BY <1>5 DEF DenseFinish, EntriesOf
  <2>3. layer - 1 = Tokens(sentence)
    BY <1>2, <2>1
  <2>4. dense \in Seq(Nat) /\ Searched(TRUE, sentence, hypotheses, EntriesOf(dense), layer - 1)
    BY <2>1 DEF BestInv, DenseSearching
  <2>5. Searched(TRUE, sentence, hypotheses, EntriesOf(dense), Tokens(sentence))
    BY ONLY <2>3, <2>4
  <2>6. CASE best.tie
    BY <1>1, <2>1, <2>2, <2>6, DenseHandsOver
  <2>7. CASE ~ best.tie
    <3>1. BestPath(TRUE, sentence, Reconstruct(final, best.index))
      BY <1>2, <2>4, <2>5, <2>7, DenseAnswersBest
    <3>2. answer = Reconstruct(final, best.index)
      BY <2>7
    <3> HIDE DEF answer
    <3>3. BestPath(TRUE, sentence, answer)
      BY ONLY <3>1, <3>2
    <3>4. QED
      BY <1>1, <2>1, <2>2, <3>3, DenseHandsOver
  <2>8. QED
    BY <2>6, <2>7
<1>6. CASE HashLayer
  <2> DEFINE next == HashLayerOf(TRUE, sentence, layer, Current.hypotheses, InSlotOrder(Current.table))
  <2>1. decoder = "hash" /\ layer \in 1 .. Tokens(sentence)
    BY <1>2, <1>6 DEF HashLayer
  <2>2. Current.hypotheses = hypotheses /\ Current.table = active
    BY DEF Current
  <2>3. /\ hypotheses' = next.hypotheses /\ active' = next.table /\ layer' = layer + 1
        /\ UNCHANGED <<sentence, decoder, dense, selected>>
    BY <1>6, <2>2 DEF HashLayer, TakeLayer
  <2>4. Searched(FALSE, sentence, Current.hypotheses, Entries(Current.table), layer - 1)
    BY <2>1, <2>2 DEF BestInv, HashSearching
  <2>5. PICK r : Between(Current, r, sentence)
    BY <1>1, <2>1 DEF IInv, HashShape
  <2>6. Searched(FALSE, sentence, next.hypotheses, Entries(next.table), layer)
    BY <1>2, <2>1, <2>4, <2>5, HashLayerSearches
  <2> HIDE DEF next
  <2>7. layer' - 1 = layer
    BY <1>2, <2>3
  <2>8. Searched(FALSE, sentence', hypotheses', Entries(active'), layer' - 1)
    BY ONLY <2>3, <2>6, <2>7
  <2>9. HashSearching'
    BY <2>8 DEF HashSearching
  <2>10. QED
    BY <1>1, <2>1, <2>3, <2>9 DEF BestInv, DenseSearching, DenseAnswer, HashAnswer
<1>7. CASE HashFinish
  <2>1. decoder = "hash" /\ layer > Tokens(sentence) /\ StartNext("rich", Chosen)
    BY <1>7 DEF HashFinish
  <2>2. layer - 1 = Tokens(sentence)
    BY <1>2, <2>1
  <2>3. Current.hypotheses = hypotheses /\ Current.table = active
    BY DEF Current
  <2>4. Searched(FALSE, sentence, Current.hypotheses, Entries(Current.table), Tokens(sentence))
    <3>1. Searched(FALSE, sentence, hypotheses, Entries(active), layer - 1)
      BY <2>1 DEF BestInv, HashSearching
    <3>2. QED
      BY ONLY <2>2, <2>3, <3>1
  <2>5. PICK r : Between(Current, r, sentence)
    BY <1>1, <2>1 DEF IInv, HashShape
  <2>6. BestPath(FALSE, sentence, ChosenFrom(sentence, Current))
    BY <1>2, <2>4, <2>5, HashAnswersBest
  <2>7. Chosen = ChosenFrom(sentence, Current)
    BY DEF Chosen, ChosenFrom, Current
  <2>8. /\ decoder' = "rich" /\ sentence' = sentence
        /\ selected' = [selected EXCEPT !["hash"] = Chosen]
    BY <2>1 DEF StartNext
  <2>9. selected'["hash"] = Chosen /\ selected'["dense"] = selected["dense"]
    BY <1>2, <2>8
  <2>10. BestPath(FALSE, sentence', selected'["hash"])
    BY ONLY <2>6, <2>7, <2>8, <2>9
  <2>11. DenseAnswer' /\ HashAnswer'
    BY <2>8, <2>9, <2>10 DEF BestInv, DenseAnswer, HashAnswer
  <2>12. QED
    BY <1>1, <2>8, <2>11 DEF BestInv, DenseSearching, HashSearching
<1>8. CASE RichLayer
  <2>1. decoder = "rich" /\ UNCHANGED <<sentence, decoder, selected>>
    BY <1>8 DEF RichLayer, TakeLayer
  <2>2. QED
    BY <1>1, <2>1 DEF BestInv, DenseSearching, HashSearching, DenseAnswer, HashAnswer
<1>9. CASE RichFinish
  <2>1. /\ decoder' = "done" /\ sentence' = sentence
        /\ selected' = [selected EXCEPT !["rich"] = Chosen]
    BY <1>9 DEF RichFinish, StartNext
  <2>2. selected'["dense"] = selected["dense"] /\ selected'["hash"] = selected["hash"]
    BY <1>2, <2>1
  <2>3. QED
    BY <1>1, <2>1, <2>2 DEF BestInv, DenseSearching, HashSearching, DenseAnswer, HashAnswer
<1>10. CASE UNCHANGED vars
  BY <1>1, <1>10 DEF vars, BestInv, DenseSearching, HashSearching, DenseAnswer, HashAnswer
<1>11. QED
  BY <1>3, <1>4, <1>5, <1>6, <1>7, <1>8, <1>9, <1>10 DEF Next

(* For every sentence, hash function and bound on the dense states: what   *)
(* any of the three decoders selects has the highest score of all paths.   *)
THEOREM SelectionAlwaysBest == Spec => []SelectionIsBest
<1>1. BestInv => SelectionIsBest
  BY BestImplies
<1>2. QED
  BY <1>1, InitSearches, NextSearches, PTL DEF Spec

(* For every sentence: when the dense decoder answers, it has selected     *)
(* what the hash decoder selects.                                          *)
THEOREM DenseAnswersHash == Spec => []DenseAgreesWithHash
<1>1. BestInv => DenseAgreesWithHash
  BY BestImplies
<1>2. QED
  BY <1>1, InitSearches, NextSearches, PTL DEF Spec

=============================================================================
