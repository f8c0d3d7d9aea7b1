--------------------------- MODULE ShardedSurface ---------------------------
(***************************************************************************)
(* The sharded pool: the batch is cut into at most one contiguous range    *)
(* per retained single-thread runtime, each shard is encoded by one scoped *)
(* thread, and the shard outputs are validated and merged.  encode_shards  *)
(* hands the outputs to the caller, who may merge any of them later with   *)
(* the public merge_surface_shards.  Shard w has index w - 1.              *)
(***************************************************************************)
EXTENDS Naturals, Sequences, SequencesExt, FiniteSets, FiniteSetsExt,
        TrainingBatches, ScopedThreads, BatchRanges

CONSTANTS
  Batches,                    \* the batches a caller may submit
  MaxSelection                \* most shards a caller merges at once

ASSUME ShardAssumptions ==
  /\ Batches \subseteq Seq(Document)
  /\ MaxSelection \in Nat

VARIABLES
  phase,                      \* idle, inline, parallel, shards or returned
  inputs,
  ranges,                     \* document range of each shard
  shards,                     \* outputs handed to the caller
  selection,                  \* what the caller gave to merge_surface_shards
  outcome

callVars == <<phase, inputs, ranges, shards, selection, outcome>>
vars == <<callVars, scopeVars>>

NoOutcome == [kind |-> "pending"]

Init ==
  /\ phase = "idle"
  /\ inputs = <<>>
  /\ ranges = <<>>
  /\ shards = <<>>
  /\ selection = <<>>
  /\ outcome = NoOutcome
  /\ NoScope

RejectMismatch(docs) ==
  /\ phase = "idle"
  /\ phase' = "returned"
  /\ inputs' = docs
  /\ outcome' = [kind |-> "mismatch"]
  /\ UNCHANGED <<ranges, shards, selection, scopeVars>>

ReturnEmpty ==
  /\ phase = "idle"
  /\ phase' = "shards"
  /\ UNCHANGED <<inputs, ranges, shards, selection, outcome, scopeVars>>

Accept(docs) ==
  /\ phase = "idle"
  /\ docs # <<>>
  /\ inputs' = docs
  /\ ranges' = BuildShardRanges(Sizes(docs), Workers)
  /\ UNCHANGED <<shards, selection, outcome>>

StartInline(docs) ==
  /\ Accept(docs)
  /\ Len(ranges') = 1
  /\ phase' = "inline"
  /\ UNCHANGED scopeVars

StartParallel(docs) ==
  /\ Accept(docs)
  /\ Len(ranges') > 1
  /\ phase' = "parallel"
  /\ OpenScope(Len(ranges'))

FailingIn(w) == Failing(inputs, DocsOf(ranges[w]))

Shard(w) ==
  [index |-> w - 1, range |-> ranges[w],
   batch |-> EncodeFlatSurfaceRange(inputs, ranges[w])]

EncodeInline ==
  /\ phase = "inline"
  /\ IF FailingIn(1) = {}
     THEN phase' = "shards" /\ shards' = <<Shard(1)>> /\ UNCHANGED outcome
     ELSE /\ phase' = "returned"
          /\ outcome' = IF inputs[Min(FailingIn(1))].fate = "err"
                        THEN [kind |-> "err", doc |-> Min(FailingIn(1))]
                        ELSE [kind |-> "unwind"]
          /\ UNCHANGED shards
  /\ UNCHANGED <<inputs, ranges, selection, scopeVars>>

(* One shard runs its whole range on its own runtime, up to the first      *)
(* failing document.                                                       *)
EncodeShard(w) ==
  /\ status[w] = "running"
  /\ Finish(w, IF FailingIn(w) = {} THEN "ok"
               ELSE IF inputs[Min(FailingIn(w))].fate = "err" THEN "err"
               ELSE "panicked")
  /\ UNCHANGED callVars

FinishParallel ==
  /\ phase = "parallel"
  /\ scope = "closed"
  /\ IF verdict = "ok"
     THEN /\ phase' = "shards"
          /\ shards' = [w \in 1 .. workerCount |-> Shard(w)]
          /\ UNCHANGED outcome
     ELSE /\ phase' = "returned"
          /\ outcome' = IF verdict = "err"
                        THEN [kind |-> "err", doc |-> Min(FailingIn(joined))]
                        ELSE [kind |-> verdict]
          /\ UNCHANGED shards
  /\ UNCHANGED <<inputs, ranges, selection, scopeVars>>

(* The checks merge_surface_shards makes on the shards sorted by start.    *)
Mergeable(sorted) ==
  /\ \A k \in DOMAIN sorted :
       /\ sorted[k].index < Len(sorted)
       /\ \A j \in 1 .. k - 1 : sorted[j].index # sorted[k].index
       /\ sorted[k].range.start = IF k = 1 THEN 0 ELSE sorted[k - 1].range.end
       /\ sorted[k].range.end > sorted[k].range.start
       /\ Len(sorted[k].batch.offsets) - 1 = sorted[k].range.end - sorted[k].range.start

(* Mutant of MergeSurfaceShards: the shards are taken as presented.        *)
MergeAsPresented(given) ==
  IF Mergeable(given)
  THEN [kind |-> "ok",
        value |-> ConcatenateSurfaceChunks(
                    [k \in DOMAIN given |-> [key   |-> given[k].range.start,
                                             value |-> given[k].batch]])]
  ELSE [kind |-> "rejected"]

MergeSurfaceShards(given) ==
  LET order == SortingOrder([k \in DOMAIN given |-> given[k].range.start])
      sorted == [k \in DOMAIN given |-> given[order[k]]]
  IN  IF Mergeable(sorted)
      THEN [kind |-> "ok",
            value |-> ConcatenateSurfaceChunks(
                        [k \in DOMAIN sorted |-> [key   |-> sorted[k].range.start,
                                                  value |-> sorted[k].batch]])]
      ELSE [kind |-> "rejected"]

(* encode_batch and the retained-runtime call merge what they produced;    *)
(* any other sequence of the shards comes from a caller of encode_shards.  *)
Merge(given) ==
  /\ phase = "shards"
  /\ phase' = "returned"
  /\ selection' = given
  /\ outcome' = MergeSurfaceShards(given)
  /\ UNCHANGED <<inputs, ranges, shards, scopeVars>>

MergeAll == Merge(shards)

MergeSelection ==
  \E picks \in BoundedSeq(DOMAIN shards, MaxSelection) :
    Merge([k \in DOMAIN picks |-> shards[picks[k]]])

Return ==
  /\ phase = "returned"
  /\ phase' = "idle"
  /\ inputs' = <<>>
  /\ ranges' = <<>>
  /\ shards' = <<>>
  /\ selection' = <<>>
  /\ outcome' = NoOutcome
  /\ ForgetScope

MainStep == ScopeStep /\ UNCHANGED callVars

Next ==
  \/ \E docs \in Batches :
       RejectMismatch(docs) \/ StartInline(docs) \/ StartParallel(docs)
  \/ ReturnEmpty
  \/ EncodeInline
  \/ \E w \in Worker : EncodeShard(w)
  \/ MainStep
  \/ FinishParallel
  \/ MergeAll
  \/ MergeSelection
  \/ Return

(* As in BatchScheduler: started threads and the calling thread run on.    *)
Fairness ==
  /\ \A w \in Worker : WF_vars(EncodeShard(w))
  /\ WF_vars(EncodeInline \/ MainStep \/ FinishParallel)

Spec == Init /\ [][Next]_vars /\ Fairness
-----------------------------------------------------------------------------
(* Every document is in exactly one shard, every shard has a document, no  *)
(* more shards are used than there are runtimes, and none is given more    *)
(* than an even share of the batch plus one document: re-aiming at what    *)
(* remains never lets an early shard's excess or shortfall pile up on a    *)
(* later one (build_shard_ranges).                                         *)
ShardsAreBalanced ==
  phase \in {"inline", "parallel"} =>
    LET sizes == Sizes(inputs)
        share == CeilDiv(Weight(sizes, 0, Len(inputs)), Len(ranges))
        largest == Max({Weight(sizes, i - 1, i) : i \in DOMAIN inputs})
    IN  /\ IsExactCover(ranges, Len(inputs)) /\ Len(ranges) <= Workers
        /\ \A r \in ToSet(ranges) : Weight(sizes, r.start, r.end) < share + largest

(* The shards a call hands out merge, whatever order the caller presents   *)
(* them in, to the in-order encoding of the whole batch, and a call with a  *)
(* failing document hands out none: no shard's failure goes unnoticed.     *)
ShardsMergeToBatch ==
  outcome.kind \in {"ok", "rejected"} /\ Len(selection) = Len(shards)
      /\ ToSet(selection) = ToSet(shards) =>
    /\ outcome = [kind |-> "ok", value |-> OrderedEncoding(inputs)]
    /\ Failing(inputs, DOMAIN inputs) = {}

(* "rejects duplicate, overlapping, missing, reversed ... document ranges" *)
(* (the doc of merge_surface_shards): the shards of an accepted merge are  *)
(* an exact contiguous cover of the documents of the call they come from.  *)
OnlyCoversMerge ==
  outcome.kind = "ok" /\ selection # <<>> =>
    LET order == SortingOrder([k \in DOMAIN selection |-> selection[k].range.start])
    IN  IsExactCover([k \in DOMAIN selection |-> selection[order[k]].range], Len(inputs))

(* encode_shards returns or hands out shards, whatever the documents do.   *)
ShardCallReturns ==
  (phase \in {"inline", "parallel"}) ~> (phase \in {"shards", "returned"})
=============================================================================
