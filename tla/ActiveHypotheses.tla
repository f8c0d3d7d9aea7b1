-------------------------- MODULE ActiveHypotheses --------------------------
(***************************************************************************)
(* The active list of a Viterbi layer: an open-addressing table whose      *)
(* slots hold indices of hypotheses, 0 for an empty slot.  It is the hash  *)
(* table of the reference decoder down to the order of its slots, because  *)
(* that order decides ties; the slots are numbered from 0 as in the code.  *)
(* A hypothesis has a state (the identity the list removes duplicates by), *)
(* a hash and a score; nothing else of it matters here.                    *)
(***************************************************************************)
EXTENDS Naturals, Sequences, FiniteSets, FiniteSetsExt

InitialSlots == 8

EmptyTable == [slots |-> [slot \in 0 .. InitialSlots - 1 |-> 0], size |-> 0]

Length(table) == Cardinality(DOMAIN table.slots)

LoadLimit(length) == (length * 55) \div 100

(* Table lengths are powers of two, so masking is taking a remainder.      *)
Probe(hash, length, k) == ((hash % length) + k) % length

Occupied(table) == {slot \in DOMAIN table.slots : table.slots[slot] # 0}

(* locate: the first slot of the probe sequence that is empty or already   *)
(* holds the state.  There is one as long as the table has room.           *)
Locate(table, hypotheses, h) ==
  LET length == Length(table)
      At(k) == Probe(h.hash, length, k)
      Stop(k) == \/ table.slots[At(k)] = 0
                 \/ hypotheses[table.slots[At(k)]].state = h.state
  IN  At(Min({k \in 0 .. length - 1 : Stop(k)}))

(* The indices of the table in slot order, as snapshot and iter give them. *)
InSlotOrder(table) ==
  LET upto[n \in 0 .. Length(table)] ==
        IF n = 0 THEN <<>>
        ELSE upto[n - 1] \o (IF table.slots[n - 1] = 0 THEN <<>> ELSE <<table.slots[n - 1]>>)
  IN  upto[Length(table)]

(* expand: twice the slots, but the entries are placed with the OLD mask,  *)
(* as the reference implementation does, and looked up with the new one.   *)
Rehashed(table, hypotheses) ==
  LET old == Length(table)
      order == InSlotOrder(table)
      placed[n \in 0 .. Len(order)] ==
        IF n = 0 THEN [slot \in 0 .. 2 * old - 1 |-> 0]
        ELSE LET before == placed[n - 1]
                 At(k) == Probe(hypotheses[order[n]].hash, old, k)
                 free == Min({k \in 0 .. old - 1 : before[At(k)] = 0})
             IN  [before EXCEPT ![At(free)] = order[n]]
  IN  placed[Len(order)]

(* Mutant of Expand: the table never grows.                                *)
ExpandNever(table, hypotheses) == table

Expand(table, hypotheses) ==
  IF table.size = LoadLimit(Length(table))
  THEN [table EXCEPT !.slots = Rehashed(table, hypotheses)]
  ELSE table

(* insert_candidate: a new hypothesis in an empty slot.                    *)
InsertCandidate(table, hypotheses, slot, h) ==
  [hypotheses |-> Append(hypotheses, h),
   table |-> Expand([slots |-> [table.slots EXCEPT ![slot] = Len(hypotheses) + 1],
                     size  |-> table.size + 1],
                    Append(hypotheses, h))]

(* Mutant of AddCandidate: a tie goes to the later hypothesis.             *)
AddCandidateLater(table, hypotheses, h) ==
  LET slot == Locate(table, hypotheses, h)
      index == table.slots[slot]
  IN  IF index = 0 THEN InsertCandidate(table, hypotheses, slot, h)
      ELSE [table |-> table,
            hypotheses |-> IF hypotheses[index].score <= h.score
                           THEN [hypotheses EXCEPT ![index] = h] ELSE hypotheses]

(* CompactActiveHypotheses::add_candidate: a better hypothesis for a state *)
(* that is held replaces the held one where it is.                         *)
AddCandidate(table, hypotheses, h) ==
  LET slot == Locate(table, hypotheses, h)
      index == table.slots[slot]
  IN  IF index = 0 THEN InsertCandidate(table, hypotheses, slot, h)
      ELSE [table |-> table,
            hypotheses |-> IF hypotheses[index].score < h.score
                           THEN [hypotheses EXCEPT ![index] = h] ELSE hypotheses]

(* ActiveHypotheses::add, after its caller pushed the hypothesis: a better *)
(* one takes the slot, and the growth test is made in either case.         *)
Add(table, hypotheses, h) ==
  LET slot == Locate(table, hypotheses, h)
      index == table.slots[slot]
      pushed == Append(hypotheses, h)
      kept == IF index # 0 /\ ~(hypotheses[index].score < h.score) THEN index ELSE Len(pushed)
  IN  [hypotheses |-> pushed,
       table |-> Expand([slots |-> [table.slots EXCEPT ![slot] = kept],
                         size  |-> IF index = 0 THEN table.size + 1 ELSE table.size],
                        pushed)]

(* best: the first in slot order of the highest score.                     *)
Best(table, hypotheses) ==
  LET order == InSlotOrder(table)
      best[n \in 0 .. Len(order)] ==
        IF n = 0 THEN 0
        ELSE LET b == best[n - 1]
             IN  IF b = 0 \/ hypotheses[b].score < hypotheses[order[n]].score THEN order[n] ELSE b
  IN  best[Len(order)]
=============================================================================
