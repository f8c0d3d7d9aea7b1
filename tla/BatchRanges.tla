---------------------------- MODULE BatchRanges ----------------------------
(***************************************************************************)
(* How one batch of documents is cut into contiguous document ranges:      *)
(* by accumulated bytes for the dynamic scheduler (build_batch_ranges) and *)
(* by remaining weight for the one-thread-per-shard pool                   *)
(* (build_shard_ranges).  Ranges are half open and zero based, as in Rust: *)
(* [start |-> s, end |-> e] holds the documents s+1 .. e of a sequence.    *)
(***************************************************************************)
EXTENDS Naturals, Sequences, SequencesExt, FiniteSetsExt, Functions

CONSTANTS
  BatchChunksPerWorker,   \* chunks aimed at per worker (16 in the source)
  MinBatchChunkBytes      \* smallest useful chunk (1 MiB in the source)

ASSUME RangeConstants ==
  /\ BatchChunksPerWorker \in Nat \ {0}
  /\ MinBatchChunkBytes \in Nat \ {0}

CeilDiv(a, b) == (a + b - 1) \div b

DocsOf(range) == (range.start + 1) .. range.end

TotalBytes(sizes) == SumFunction(sizes)

TargetBytes(sizes, threads) ==
  Max({CeilDiv(TotalBytes(sizes), Max({threads * BatchChunksPerWorker, 1})),
       MinBatchChunkBytes})

(* A range is closed as soon as it holds the target number of bytes; the   *)
(* last document always ends up in the final, unconditional range.         *)
BuildBatchRanges(sizes, threads) ==
  LET target == TargetBytes(sizes, threads)
      cut == FoldLeftDomain(
               LAMBDA acc, i :
                 IF acc.bytes + sizes[i] >= target /\ i < Len(sizes)
                 THEN [ranges |-> Append(acc.ranges, [start |-> acc.start, end |-> i]),
                       start |-> i, bytes |-> 0]
                 ELSE [acc EXCEPT !.bytes = @ + sizes[i]],
               [ranges |-> <<>>, start |-> 0, bytes |-> 0], sizes)
  IN  Append(cut.ranges, [start |-> cut.start, end |-> Len(sizes)])

(* An empty document still weighs one, so that every shard gets work.      *)
Weight(sizes, start, end) ==
  MapThenSumSet(LAMBDA i : Max({sizes[i], 1}), (start + 1) .. end)

(* Mutant of ShardEnd: every shard but the last takes one document.        *)
ShardEndAfterOne(sizes, start, remaining) == start + 1

(* Each shard takes documents until it holds its share of what remains,    *)
(* at least one, and never so many that a later shard would get none.      *)
ShardEnd(sizes, start, remaining) ==
  LET target == CeilDiv(Weight(sizes, start, Len(sizes)), remaining)
      maxEnd == Len(sizes) - (remaining - 1)
  IN  Min({e \in (start + 1) .. maxEnd :
             e = maxEnd \/ Weight(sizes, start, e) >= target})

BuildShardRanges(sizes, requested) ==
  LET count == Min({requested, Len(sizes)})
      start[k \in 1 .. count] ==
        IF k = 1 THEN 0
                 ELSE ShardEnd(sizes, start[k - 1], count - k + 2)
  IN  [k \in 1 .. count |->
         [start |-> start[k],
          end   |-> IF k = count THEN Len(sizes) ELSE start[k + 1]]]

(* What both must produce: a cover of the batch, in order, by non-empty    *)
(* ranges that neither overlap nor leave a document out.                   *)
IsExactCover(ranges, documents) ==
  /\ Len(ranges) > 0
  /\ ranges[1].start = 0
  /\ ranges[Len(ranges)].end = documents
  /\ \A k \in DOMAIN ranges : ranges[k].start < ranges[k].end
  /\ \A k \in 1 .. Len(ranges) - 1 : ranges[k].end = ranges[k + 1].start
=============================================================================
