--------------------------- MODULE CompactDecoder ---------------------------
(***************************************************************************)
(* The three second-order Viterbi decoders that choose one analysis per    *)
(* token.  The compact decoder tries a dense table first and falls back to *)
(* its hash table on anything it cannot order exactly; the rich decoder is *)
(* the reference both must agree with.  One sentence is decoded by all of  *)
(* them, one layer at a time: DENSE, then HASH, then RICH.                 *)
(*                                                                         *)
(* An analysis is <<token, candidate>>; <<0, 1>> is the begin marker and   *)
(* <<n + 1, 1>> the end marker.  Weights are integers: rounding and NaN of *)
(* the 32-bit floats are left out.                                         *)
(***************************************************************************)
EXTENDS ActiveHypotheses, Integers

CONSTANTS
  Sentences,              \* records [words, ...]: the candidates' canonical identities
  WeightOf(_, _, _, _),   \* the perceptron's score of three words, in a sentence
  HashOf(_, _, _),        \* the rehashed hash of a state, in a sentence
  MaxDenseStates          \* MAX_DENSE_STATES (4,096)

Begin == <<0, 1>>

(* Their canonical identities, u32::MAX and u32::MAX - 1.                  *)
BeginWord == -1
EndWord == -2

WordsOf(s) ==
  {BeginWord, EndWord}
    \union UNION {{s.words[t][c] : c \in DOMAIN s.words[t]} : t \in DOMAIN s.words}

SentenceOK(s) ==
  /\ s.words \in Seq(Seq(Nat))
  /\ Len(s.words) > 0
  /\ \A t \in DOMAIN s.words : Len(s.words[t]) > 0
  /\ \A a, b, c \in WordsOf(s) : WeightOf(s, a, b, c) \in Int /\ HashOf(s, a, b) \in Nat

ASSUME DecoderConstants ==
  /\ \A s \in Sentences : SentenceOK(s)
  /\ MaxDenseStates \in Nat

(* What stands for an answer that is not there, or was given up on.        *)
None == <<>>
Fallback == <<0>>

VARIABLES
  sentence,               \* words (canonical identities) and their weights
  decoder,                \* which decoder runs: DENSE, HASH, RICH, or DONE
  layer,                  \* the next token of the running decoder
  hypotheses,             \* its hypotheses, in the order of their creation
  active,                 \* HASH, RICH: the table of the last layer
  dense,                  \* DENSE: the hypotheses of the last layer, in order
  selected                \* decoder -> the candidates it chose, or why not

vars == <<sentence, decoder, layer, hypotheses, active, dense, selected>>

Tokens(s) == Len(s.words)

WordOf(s, a) ==
  CASE a[1] = 0 -> BeginWord
    [] a[1] = Tokens(s) + 1 -> EndWord
    [] OTHER -> s.words[a[1]][a[2]]

Candidates(s, token) == IF token = 0 THEN 1 ELSE Len(s.words[token])

Weight(s, a, b, c) == WeightOf(s, WordOf(s, a), WordOf(s, b), WordOf(s, c))

(* Mutant of State: only the current analysis identifies a state.          *)
StateCurrentOnly(s, previous, current) == <<WordOf(s, current)>>

(* compact_hypothesis_equal: the canonical identities of both analyses.    *)
State(s, previous, current) == <<WordOf(s, previous), WordOf(s, current)>>

Hypothesis(s, previous, current, back, score) ==
  [previous |-> previous, current |-> current, back |-> back, score |-> score,
   state |-> State(s, previous, current),
   hash |-> HashOf(s, WordOf(s, previous), WordOf(s, current))]

Root(s) == Hypothesis(s, Begin, Begin, 0, 0)

(* One transition: hypothesis i is continued by the analysis.              *)
Continue(s, hyps, i, analysis) ==
  Hypothesis(s, hyps[i].current, analysis, i,
             hyps[i].score + Weight(s, hyps[i].previous, hyps[i].current, analysis))

(* The transitions of a layer, candidate by candidate and, for each, in    *)
(* the order of the hypotheses of the layer before.                        *)
Transition(s, token, order, n) ==
  [analysis |-> <<token, ((n - 1) \div Len(order)) + 1>>,
   from |-> order[((n - 1) % Len(order)) + 1]]

LayerSteps(s, token, order) == Candidates(s, token) * Len(order)

(* reconstruct_selected: follow the back pointers to the root.             *)
Reconstruct(hyps, best) ==
  LET path[i \in 0 .. Len(hyps)] ==
        IF i = 0 \/ hyps[i].back = 0 THEN <<>>
        ELSE Append(path[hyps[i].back], hyps[i].current[2])
  IN  path[best]

(* The end transition is added to the score of every hypothesis listed.    *)
Terminated(s, hyps, listed) ==
  [i \in DOMAIN hyps |->
     IF i \in listed
     THEN [hyps[i] EXCEPT !.score = @ + Weight(s, hyps[i].previous, hyps[i].current,
                                               <<Tokens(s) + 1, 1>>)]
     ELSE hyps[i]]

Init ==
  /\ sentence \in Sentences
  /\ decoder = "dense"
  /\ layer = 1
  /\ hypotheses = <<Root(sentence)>>
  /\ active = EmptyTable
  /\ dense = <<1>>
  /\ selected = [d \in {"dense", "hash", "rich"} |-> None]

(* The next decoder begins with the root alone.                            *)
StartNext(next, answer) ==
  /\ decoder' = next
  /\ layer' = 1
  /\ hypotheses' = <<Root(sentence)>>
  /\ dense' = <<1>>
  /\ active' = Add(EmptyTable, <<>>, Root(sentence)).table
  /\ selected' = [selected EXCEPT ![decoder] = answer]
  /\ UNCHANGED sentence

-----------------------------------------------------------------------------
(* The dense decoder.                                                      *)

DuplicateIdentity(s) ==
  \E t \in 1 .. Tokens(s) : \E i, j \in DOMAIN s.words[t] :
    i # j /\ s.words[t][i] = s.words[t][j]

TooManyStates(s) ==
  \E t \in 1 .. Tokens(s) : Candidates(s, t - 1) * Candidates(s, t) > MaxDenseStates

(* Both are looked for before any transition is scored.                    *)
DenseReject ==
  /\ decoder = "dense"
  /\ layer = 1
  /\ DuplicateIdentity(sentence) \/ TooManyStates(sentence)
  /\ StartNext("hash", Fallback)

(* Mutant of Tied: equal scores are no reason to give up.                  *)
TiedNever(old, new) == FALSE

(* Equal scores cannot be ordered without the slots of the hash table.     *)
Tied(old, new) == old = new

(* The layer's hypotheses so far: a slot per pair of analyses.             *)
DenseAdd(acc, h) ==
  LET same == {i \in DOMAIN acc.listed :
                 /\ acc.hyps[acc.listed[i]].previous = h.previous
                 /\ acc.hyps[acc.listed[i]].current = h.current}
      held == acc.listed[Min(same)]
  IN  IF same = {}
      THEN [acc EXCEPT !.hyps = Append(@, h), !.listed = Append(@, Len(acc.hyps) + 1)]
      ELSE [acc EXCEPT !.hyps = IF acc.hyps[held].score < h.score THEN [@ EXCEPT ![held] = h] ELSE @,
                       !.tie = @ \/ Tied(acc.hyps[held].score, h.score)]

DenseLayerOf(s, token, hyps, order) ==
  LET after[n \in 0 .. LayerSteps(s, token, order)] ==
        IF n = 0 THEN [hyps |-> hyps, listed |-> <<>>, tie |-> FALSE]
        ELSE LET step == Transition(s, token, order, n)
             IN  DenseAdd(after[n - 1], Continue(s, hyps, step.from, step.analysis))
  IN  after[LayerSteps(s, token, order)]

DenseLayer ==
  /\ decoder = "dense"
  /\ layer <= Tokens(sentence)
  /\ ~DuplicateIdentity(sentence) /\ ~TooManyStates(sentence)
  /\ LET next == DenseLayerOf(sentence, layer, hypotheses, dense)
     IN  IF next.tie
         THEN StartNext("hash", Fallback)
         ELSE /\ hypotheses' = next.hyps
              /\ dense' = next.listed
              /\ layer' = layer + 1
              /\ UNCHANGED <<sentence, decoder, active, selected>>

(* The best of the last layer; a tie with the best so far is given up on.  *)
DenseBest(hyps, order) ==
  LET best[n \in 1 .. Len(order)] ==
        IF n = 1 THEN [index |-> order[1], tie |-> FALSE]
        ELSE LET b == best[n - 1]
             IN  [index |-> IF hyps[b.index].score < hyps[order[n]].score THEN order[n] ELSE b.index,
                  tie   |-> b.tie \/ Tied(hyps[b.index].score, hyps[order[n]].score)]
  IN  best[Len(order)]

DenseFinish ==
  /\ decoder = "dense"
  /\ layer > Tokens(sentence)
  /\ LET final == Terminated(sentence, hypotheses, {dense[i] : i \in DOMAIN dense})
         best == DenseBest(final, dense)
     IN  StartNext("hash", IF best.tie THEN Fallback ELSE Reconstruct(final, best.index))

-----------------------------------------------------------------------------
(* The hash decoders.                                                      *)

(* One layer: the compact decoder overwrites a worse hypothesis of the     *)
(* same state, the reference pushes every one and moves the slot.          *)
HashLayerOf(compact, s, token, hyps, order) ==
  LET after[n \in 0 .. LayerSteps(s, token, order)] ==
        IF n = 0 THEN [hypotheses |-> hyps, table |-> EmptyTable]
        ELSE LET before == after[n - 1]
                 step == Transition(s, token, order, n)
                 next == Continue(s, hyps, step.from, step.analysis)
             IN  IF compact THEN AddCandidate(before.table, before.hypotheses, next)
                            ELSE Add(before.table, before.hypotheses, next)
  IN  after[LayerSteps(s, token, order)]

TakeLayer(next) ==
  /\ hypotheses' = next.hypotheses
  /\ active' = next.table
  /\ layer' = layer + 1
  /\ UNCHANGED <<sentence, decoder, dense, selected>>

HashLayer ==
  /\ decoder = "hash"
  /\ layer <= Tokens(sentence)
  /\ TakeLayer(HashLayerOf(TRUE, sentence, layer, hypotheses, InSlotOrder(active)))

RichLayer ==
  /\ decoder = "rich"
  /\ layer <= Tokens(sentence)
  /\ TakeLayer(HashLayerOf(FALSE, sentence, layer, hypotheses, InSlotOrder(active)))

Chosen ==
  LET order == InSlotOrder(active)
      final == Terminated(sentence, hypotheses, {order[i] : i \in DOMAIN order})
  IN  Reconstruct(final, Best(active, final))

HashFinish ==
  /\ decoder = "hash"
  /\ layer > Tokens(sentence)
  /\ StartNext("rich", Chosen)

RichFinish ==
  /\ decoder = "rich"
  /\ layer > Tokens(sentence)
  /\ StartNext("done", Chosen)

Next ==
  \/ DenseReject \/ DenseLayer \/ DenseFinish
  \/ HashLayer \/ HashFinish
  \/ RichLayer \/ RichFinish

Spec == Init /\ [][Next]_vars

-----------------------------------------------------------------------------
(* Properties.                                                             *)

Answered(d) == selected[d] \notin {None, Fallback}

(* The analyses of a path, the markers before and after it included.      *)
AnalysisAt(s, path, t) ==
  IF t <= 0 THEN Begin ELSE IF t > Tokens(s) THEN <<Tokens(s) + 1, 1>> ELSE <<t, path[t]>>

ScoreUpto(s, path) ==
  LET upto[t \in 0 .. Tokens(s) + 1] ==
        IF t = 0 THEN 0
        ELSE upto[t - 1] + Weight(s, AnalysisAt(s, path, t - 2), AnalysisAt(s, path, t - 1),
                                  AnalysisAt(s, path, t))
  IN  upto

PathScore(s, path) == ScoreUpto(s, path)[Tokens(s) + 1]

Paths(s) ==
  {path \in [1 .. Tokens(s) -> 1 .. Max({Candidates(s, t) : t \in 1 .. Tokens(s)})] :
     \A t \in 1 .. Tokens(s) : path[t] <= Candidates(s, t)}

(* Whatever a decoder selects has the highest score of all the ways to     *)
(* choose one candidate per token, although hypotheses were recombined,    *)
(* replaced in place, and kept twice after the table grew.                 *)
SelectionIsBest ==
  decoder = "done" =>
    \A d \in {"dense", "hash", "rich"} :
      Answered(d) => /\ selected[d] \in Paths(sentence)
                     /\ \A path \in Paths(sentence) :
                          PathScore(sentence, selected[d]) >= PathScore(sentence, path)

(* When the dense decoder answers, the hash decoder would have selected    *)
(* the same candidates: giving up on ties is enough to hide the order of   *)
(* the slots.                                                              *)
DenseAgreesWithHash ==
  Answered("dense") /\ Answered("hash") => selected["dense"] = selected["hash"]

(* The compact decoder, which replaces hypotheses where they are, selects  *)
(* what the reference selects, which keeps them all, ties included.        *)
CompactAgreesWithReference ==
  Answered("rich") => selected["rich"] = selected["hash"]

(* A probe always ends: no table is ever full, although a table that grew  *)
(* keeps its old entries crowded in its older half.                        *)
TableHasRoom == Occupied(active) # DOMAIN active.slots
=============================================================================
