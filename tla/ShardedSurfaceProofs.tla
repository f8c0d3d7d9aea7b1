----------------------- MODULE ShardedSurfaceProofs ------------------------
(***************************************************************************)
(* Proofs, for every number of runtimes and every set of batches, that the *)
(* shards of a call are balanced, that they merge back to the in-order     *)
(* batch in whatever order they are presented, and that a merge of any     *)
(* selection of them is refused or yields a prefix of the batch.           *)
(***************************************************************************)
EXTENDS ShardedSurface, BatchLemmas

(* Boundaries that grow step by step grow.                                 *)
LEMMA BoundariesGrow ==
  ASSUME NEW n \in Nat, NEW b \in [0 .. n -> Nat], \A k \in 1 .. n : b[k - 1] < b[k]
  PROVE  \A i, j \in 0 .. n : i < j => b[i] < b[j]
<1> DEFINE S == {m \in Nat : m <= n => \A i \in 0 .. m : i < m => b[i] < b[m]}
<1>1. 0 \in S
  OBVIOUS
<1>2. ASSUME NEW m \in Nat, m \in S PROVE m + 1 \in S
  <2> SUFFICES ASSUME m + 1 <= n, NEW i \in 0 .. m + 1, i < m + 1 PROVE b[i] < b[m + 1]
    OBVIOUS
  <2>1. m + 1 \in 1 .. n /\ (m + 1) - 1 = m /\ m \in 0 .. n /\ m + 1 \in 0 .. n /\ i \in 0 .. n
    OBVIOUS
  <2>2. b[m] < b[m + 1] /\ b[m] \in Nat /\ b[m + 1] \in Nat /\ b[i] \in Nat
    BY <2>1
  <2>3. i = m \/ b[i] < b[m]
    BY <1>2, <2>1
  <2>4. QED
    BY <2>2, <2>3
<1>3. Nat \subseteq S
  <2> HIDE DEF S
  <2> QED BY <1>1, <1>2, NatSetInduction
<1>4. ASSUME NEW i \in 0 .. n, NEW j \in 0 .. n, i < j PROVE b[i] < b[j]
  <2>1. j \in S /\ j <= n /\ i \in 0 .. j
    BY <1>3, <1>4
  <2>2. QED
    BY <1>4, <2>1
<1>5. QED
  BY <1>4

(* Shards whose ranges follow one another from the first document on.      *)
Chained(sorted, b, n, docs) ==
  /\ DOMAIN sorted = 1 .. n
  /\ b \in [0 .. n -> 0 .. Len(docs)]
  /\ b[0] = 0
  /\ \A k \in 1 .. n :
       /\ b[k - 1] < b[k]
       /\ sorted[k].range = [start |-> b[k - 1], end |-> b[k]]
       /\ sorted[k].batch = EncodeFlatSurfaceRange(docs, sorted[k].range)

(* Merging them gives the batch of the documents they hold.                *)
LEMMA ChainedMerge ==
  ASSUME NEW docs \in Seq(Document), NEW n \in Nat, NEW sorted, NEW b,
         Chained(sorted, b, n, docs)
  PROVE  ConcatenateSurfaceChunks([k \in DOMAIN sorted |-> [key   |-> sorted[k].range.start,
                                                            value |-> sorted[k].batch]])
           = BatchUpto(docs, b[n])
<1> DEFINE chunks == [k \in DOMAIN sorted |-> [key   |-> sorted[k].range.start,
                                               value |-> sorted[k].batch]]
           keys == [k \in 1 .. n |-> b[k - 1]]
           same == [k \in 1 .. n |-> k]
<1>1. /\ DOMAIN sorted = 1 .. n /\ b \in [0 .. n -> 0 .. Len(docs)] /\ b[0] = 0
      /\ Len(docs) \in Nat
      /\ \A k \in 1 .. n : b[k - 1] < b[k] /\ sorted[k].range = [start |-> b[k - 1], end |-> b[k]]
                           /\ sorted[k].batch = EncodeFlatSurfaceRange(docs, sorted[k].range)
  BY DEF Chained
<1>2. ASSUME NEW k \in 1 .. n
      PROVE  /\ b[k - 1] \in Nat /\ b[k - 1] <= b[k]
             /\ chunks[k].key = b[k - 1]
             /\ chunks[k].value = EncodeFlatSurfaceRange(docs, [start |-> b[k - 1], end |-> b[k]])
  <2>1. k - 1 \in 0 .. n /\ k \in 0 .. n
    OBVIOUS
  <2>2. b[k - 1] \in 0 .. Len(docs) /\ b[k] \in 0 .. Len(docs)
    BY <1>1, <2>1
  <2>3. QED
    BY <1>1, <2>1, <2>2
<1>3. DOMAIN chunks = 1 .. n
  BY <1>1
<1> HIDE DEF chunks
<1>4. [k \in DOMAIN chunks |-> chunks[k].key] = keys
  BY <1>2, <1>3
<1>5. keys \in Seq(Nat) /\ Len(keys) = n
  <2>1. \A k \in 1 .. n : b[k - 1] \in Nat
    BY <1>2
  <2>2. QED
    BY ONLY <2>1, n \in Nat
<1>6. b \in [0 .. n -> Nat]
  <2>1. 0 .. Len(docs) \subseteq Nat
    OBVIOUS
  <2>2. QED
    BY <1>1, <2>1
<1>7. \A i, j \in 0 .. n : i < j => b[i] < b[j]
  BY <1>1, <1>6, BoundariesGrow
<1>8. \A i, j \in 1 .. n : i < j => keys[same[i]] < keys[same[j]]
  <2>1. ASSUME NEW i \in 1 .. n, NEW j \in 1 .. n, i < j PROVE b[i - 1] < b[j - 1]
    <3>1. i - 1 \in 0 .. n /\ j - 1 \in 0 .. n /\ i - 1 < j - 1
      BY <2>1
    <3>2. QED
      BY <1>7, <3>1
  <2>2. QED
    BY <2>1
<1>9. same \in [1 .. n -> 1 .. n]
  OBVIOUS
<1> HIDE DEF keys, same
<1>10. SortingOrder(keys) = same
  BY <1>5, <1>8, <1>9, SortingOrderIs
<1>11. InOrder(chunks) = chunks
  <2>1. InOrder(chunks) = [k \in 1 .. n |-> chunks[same[k]]]
    BY <1>3, <1>4, <1>10 DEF InOrder
  <2>2. \A k \in 1 .. n : same[k] = k
    BY DEF same
  <2>3. chunks = [k \in 1 .. n |-> chunks[k]]
    BY <1>3 DEF chunks
  <2>4. QED
    BY <2>1, <2>2, <2>3
<1>12. \A k \in 1 .. n : chunks[k].value
                           = EncodeFlatSurfaceRange(docs, [start |-> b[k - 1], end |-> b[k]])
  BY <1>2
<1>13. \A k \in 1 .. n : b[k - 1] <= b[k]
  BY <1>2
<1>14. b \in [0 .. n -> 0 .. Len(docs)] /\ b[0] = 0
  BY <1>1
<1>15. ConcatenateSurfaceChunks(chunks) = BatchUpto(docs, b[n])
  BY ONLY <1>3, <1>11, <1>12, <1>13, <1>14, n \in Nat, docs \in Seq(Document),
          ConcatenateSurfaceIs
<1>16. QED
  BY <1>15 DEF chunks

(* A shard of the given documents.                                         *)
ShardOf(docs, shard) ==
  /\ shard.range \in Span /\ shard.range.end <= Len(docs)
  /\ shard.batch = EncodeFlatSurfaceRange(docs, shard.range)

(* Shards that pass the checks follow one another.                         *)
LEMMA MergeableIsChained ==
  ASSUME NEW docs \in Seq(Document), NEW n \in Nat, NEW sorted, DOMAIN sorted = 1 .. n,
         \A k \in 1 .. n : ShardOf(docs, sorted[k]), Mergeable(sorted)
  PROVE  \E b : Chained(sorted, b, n, docs)
<1> DEFINE b == [k \in 0 .. n |-> IF k = 0 THEN 0 ELSE sorted[k].range.end]
           range(k) == sorted[k].range
<1>1. \A k \in 1 .. n : /\ range(k) \in Span /\ range(k).end <= Len(docs)
                        /\ sorted[k].batch = EncodeFlatSurfaceRange(docs, range(k))
  BY DEF ShardOf
<1>2. \A k \in 1 .. n : /\ range(k).start = IF k = 1 THEN 0 ELSE range(k - 1).end
                        /\ range(k).end > range(k).start
  BY DEF Mergeable
<1> HIDE DEF range
<1>3. \A k \in 1 .. n : /\ range(k).start \in Nat /\ range(k).end \in Nat
                        /\ range(k) = [start |-> range(k).start, end |-> range(k).end]
  BY <1>1 DEF Span
<1>4. Len(docs) \in Nat
  OBVIOUS
<1>5. \A k \in 0 .. n : b[k] = IF k = 0 THEN 0 ELSE range(k).end
  BY DEF range
<1>6. b \in [0 .. n -> 0 .. Len(docs)]
  <2>1. ASSUME NEW k \in 0 .. n PROVE b[k] \in 0 .. Len(docs)
    <3>1. CASE k = 0
      BY <1>4, <1>5, <3>1
    <3>2. CASE k # 0
      <4>1. k \in 1 .. n
        BY <3>2
      <4>2. b[k] = range(k).end /\ range(k).end \in Nat /\ range(k).end <= Len(docs)
        BY <1>1, <1>3, <1>5, <3>2, <4>1
      <4> HIDE DEF b
      <4>3. QED
        BY <1>4, <4>2
    <3>3. QED
      BY <3>1, <3>2
  <2>2. QED
    BY <2>1
<1> HIDE DEF b
<1>7. b[0] = 0
  BY <1>5
<1>8. ASSUME NEW k \in 1 .. n PROVE b[k - 1] < b[k] /\ range(k) = [start |-> b[k - 1], end |-> b[k]]
  <2>1. k \in 0 .. n /\ k # 0 /\ k - 1 \in 0 .. n /\ (k - 1 = 0 <=> k = 1)
    OBVIOUS
  <2>2. b[k] = range(k).end
    BY <1>5, <2>1
  <2>3. b[k - 1] = IF k = 1 THEN 0 ELSE range(k - 1).end
    BY <1>5, <2>1
  <2>4. b[k - 1] = range(k).start
    BY <1>2, <2>3
  <2>5. QED
    BY <1>2, <1>3, <2>2, <2>4
<1>9. Chained(sorted, b, n, docs)
  BY <1>1, <1>6, <1>7, <1>8 DEF Chained, range
<1>10. QED
  BY <1>9

(* An accepted merge is the batch of a prefix of the documents.            *)
LEMMA MergeIsPrefix ==
  ASSUME NEW docs \in Seq(Document), NEW n \in Nat, NEW given, DOMAIN given = 1 .. n,
         \A k \in 1 .. n : ShardOf(docs, given[k]),
         MergeSurfaceShards(given).kind = "ok"
  PROVE  \E d \in 0 .. Len(docs) :
           MergeSurfaceShards(given).value = OrderedEncoding(SubSeq(docs, 1, d))
<1> DEFINE keys == [k \in 1 .. n |-> given[k].range.start]
           order == SortingOrder(keys)
           sorted == [k \in 1 .. n |-> given[order[k]]]
<1>1. keys \in Seq(Nat) /\ Len(keys) = n
  <2>1. \A k \in 1 .. n : given[k].range.start \in Nat
    BY DEF ShardOf, Span
  <2>2. QED
    BY ONLY <2>1, n \in Nat
<1> HIDE DEF keys
<1>2. order \in [1 .. n -> 1 .. n]
  BY <1>1, SortingOrderSorts DEF IsSorting
<1> HIDE DEF order
<1>3. \A k \in 1 .. n : ShardOf(docs, sorted[k])
  BY <1>2
<1>4. DOMAIN sorted = 1 .. n
  OBVIOUS
<1>5. MergeSurfaceShards(given)
        = IF Mergeable(sorted)
          THEN [kind |-> "ok",
                value |-> ConcatenateSurfaceChunks(
                            [k \in DOMAIN sorted |-> [key   |-> sorted[k].range.start,
                                                      value |-> sorted[k].batch]])]
          ELSE [kind |-> "rejected"]
  BY DEF MergeSurfaceShards, keys, order
<1> HIDE DEF sorted
<1>6. Mergeable(sorted)
  BY <1>5
<1>7. PICK b : Chained(sorted, b, n, docs)
  BY <1>3, <1>4, <1>6, MergeableIsChained
<1>8. b[n] \in 0 .. Len(docs)
  BY <1>7 DEF Chained
<1>9. MergeSurfaceShards(given).value = BatchUpto(docs, b[n])
  BY <1>5, <1>6, <1>7, ChainedMerge
<1>10. BatchUpto(docs, b[n]) = OrderedEncoding(SubSeq(docs, 1, b[n]))
  BY <1>8, OrderedEncodingIs
<1>11. QED
  BY <1>8, <1>9, <1>10

(* The batch of the current call is cut into shards.                       *)
Cut == inputs # <<>> /\ ranges = BuildShardRanges(Sizes(inputs), Workers)

(* The call handed out all its shards, and no document fails.              *)
Complete ==
  /\ Cut
  /\ shards = [w \in 1 .. Len(ranges) |-> Shard(w)]
  /\ Failing(inputs, DOMAIN inputs) = {}

HandedOut == (inputs = <<>> /\ shards = <<>>) \/ Complete

(* The sizes of a batch that is not empty.                                 *)
LEMMA SizesOf ==
  ASSUME NEW docs \in Seq(Document), docs # <<>>
  PROVE  /\ Sizes(docs) \in Seq(Nat) /\ Sizes(docs) # <<>>
         /\ Len(Sizes(docs)) = Len(docs) /\ DOMAIN Sizes(docs) = DOMAIN docs
<1>1. /\ Sizes(docs) = [i \in 1 .. Len(docs) |-> docs[i].size] /\ Len(docs) \in Nat
      /\ \A i \in 1 .. Len(docs) : docs[i] \in Document
  BY DEF Sizes
<1>2. \A i \in 1 .. Len(docs) : docs[i].size \in Nat
  BY <1>1 DEF Document
<1>3. Sizes(docs) \in Seq(Nat) /\ Len(Sizes(docs)) = Len(docs)
  BY <1>1, <1>2
<1>4. Len(docs) # 0
  OBVIOUS
<1>5. QED
  BY <1>3, <1>4 DEF Sizes

(* The ranges of the shards.                                               *)
LEMMA CutIs ==
  ASSUME inputs \in Seq(Document), Cut
  PROVE  /\ ranges \in Seq(Span) /\ Len(ranges) \in 1 .. Workers
         /\ IsExactCover(ranges, Len(inputs))
         /\ \A w \in 1 .. Len(ranges) : /\ ranges[w].start \in 0 .. Len(inputs)
                                        /\ ranges[w].end \in 0 .. Len(inputs)
                                        /\ ranges[w].start < ranges[w].end
<1>1. /\ ranges \in Seq(Span) /\ Len(ranges) \in Nat \ {0} /\ Len(ranges) <= Workers
      /\ IsExactCover(ranges, Len(inputs)) /\ Len(inputs) \in Nat
  BY SizesOf, ShardRangesCover, WorkersAssumption DEF Cut
<1>2. \A w \in 1 .. Len(ranges) : /\ ranges[w].start \in 0 .. Len(inputs)
                                  /\ ranges[w].end \in 0 .. Len(inputs)
  BY <1>1, CoverShape
<1>3. DOMAIN ranges = 1 .. Len(ranges)
  BY <1>1
<1>4. \A w \in 1 .. Len(ranges) : ranges[w].start < ranges[w].end
  BY <1>1, <1>3 DEF IsExactCover
<1>5. Len(ranges) \in 1 .. Workers
  BY <1>1, WorkersAssumption
<1>6. QED
  BY <1>1, <1>2, <1>4, <1>5

(* Each shard handed out is one of the documents of the call.              *)
LEMMA ShardsAreOf ==
  ASSUME inputs \in Seq(Document), HandedOut
  PROVE  /\ Len(shards) \in Nat /\ DOMAIN shards = 1 .. Len(shards)
         /\ \A w \in 1 .. Len(shards) : ShardOf(inputs, shards[w])
<1>1. CASE inputs = <<>> /\ shards = <<>>
  BY <1>1
<1>2. CASE Complete
  <2>1. /\ Len(ranges) \in Nat /\ shards = [w \in 1 .. Len(ranges) |-> Shard(w)]
        /\ ranges \in Seq(Span) /\ \A w \in 1 .. Len(ranges) : ranges[w].end \in 0 .. Len(inputs)
    BY <1>2, CutIs DEF Complete
  <2>2. Len(shards) = Len(ranges) /\ DOMAIN shards = 1 .. Len(shards)
    BY <2>1
  <2>3. \A w \in 1 .. Len(ranges) : ranges[w] \in Span /\ ranges[w].end <= Len(inputs)
    BY <2>1, SpanAt
  <2>4. QED
    BY <2>1, <2>2, <2>3 DEF ShardOf, Shard
<1>3. QED
  BY <1>1, <1>2 DEF HandedOut

(* Shards whose ranges cover the batch, in order, pass the checks.         *)
LEMMA ShardsMerge ==
  ASSUME inputs \in Seq(Document), Complete
  PROVE  /\ Mergeable(shards)
         /\ Len(shards) = Len(ranges)
         /\ \E b : /\ Chained(shards, b, Len(shards), inputs)
                   /\ b[Len(shards)] = Len(inputs)
<1> DEFINE n == Len(ranges)
           d == Len(inputs)
<1>1. /\ n \in Nat /\ n > 0 /\ ranges \in Seq(Span) /\ IsExactCover(ranges, d) /\ d \in Nat
      /\ \A w \in 1 .. n : /\ ranges[w].start \in 0 .. d /\ ranges[w].end \in 0 .. d
                           /\ ranges[w].start < ranges[w].end
  BY CutIs DEF Complete
<1>2. shards = [w \in 1 .. n |-> Shard(w)]
  BY DEF Complete
<1>3. Len(shards) = n /\ DOMAIN shards = 1 .. n
  BY <1>1, <1>2
<1>4. PICK b : IsBoundary(b, ranges, d)
  BY <1>1, CoverBoundaries
<1>5. /\ b \in [0 .. n -> 0 .. d] /\ b[0] = 0 /\ b[n] = d
      /\ \A k \in 1 .. n : /\ ranges[k] = [start |-> b[k - 1], end |-> b[k]]
                           /\ ranges[k].start = b[k - 1] /\ ranges[k].end = b[k]
  <2>1. /\ b \in [0 .. n -> 0 .. d] /\ b[0] = 0 /\ b[n] = d
        /\ \A k \in 1 .. n : ranges[k] = [start |-> b[k - 1], end |-> b[k]]
    BY <1>4 DEF IsBoundary
  <2>2. ASSUME NEW k \in 1 .. n PROVE ranges[k].start = b[k - 1] /\ ranges[k].end = b[k]
    <3>1. ranges[k] = [start |-> b[k - 1], end |-> b[k]]
      BY <2>1
    <3>2. QED
      BY ONLY <3>1
  <2>3. QED
    BY <2>1, <2>2
<1> HIDE DEF n, d
<1>6. \A k \in 1 .. n : /\ shards[k].index = k - 1
                        /\ shards[k].range = ranges[k]
                        /\ shards[k].batch = EncodeFlatSurfaceRange(inputs, ranges[k])
  BY <1>2 DEF Shard
<1>7. \A k \in 1 .. n : b[k - 1] < b[k]
  <2>1. ASSUME NEW k \in 1 .. n PROVE b[k - 1] < b[k]
    <3>1. ranges[k].start = b[k - 1] /\ ranges[k].end = b[k]
      BY <1>5
    <3>2. QED
      BY <1>1, <3>1
  <2>2. QED
    BY <2>1
<1>8. Chained(shards, b, n, inputs)
  BY <1>3, <1>5, <1>6, <1>7 DEF Chained, d
<1>9. ASSUME NEW k \in 1 .. n
      PROVE  /\ shards[k].index < n
             /\ \A j \in 1 .. k - 1 : shards[j].index # shards[k].index
             /\ shards[k].range.start = IF k = 1 THEN 0 ELSE shards[k - 1].range.end
             /\ shards[k].range.end > shards[k].range.start
             /\ Len(shards[k].batch.offsets) - 1 = shards[k].range.end - shards[k].range.start
  <2>1. shards[k].index < n /\ \A j \in 1 .. k - 1 : shards[j].index # shards[k].index
    BY <1>1, <1>6
  <2>2. shards[k].range.start = b[k - 1] /\ shards[k].range.end = b[k] /\ b[k] > b[k - 1]
        /\ b[k] \in 0 .. d /\ b[k - 1] \in 0 .. d
    <3>1. shards[k].range.start = b[k - 1] /\ shards[k].range.end = b[k] /\ b[k - 1] < b[k]
      BY <1>5, <1>6, <1>7
    <3>2. k - 1 \in 0 .. n /\ k \in 0 .. n
      BY <1>1
    <3>3. b[k] \in 0 .. d /\ b[k - 1] \in 0 .. d
      BY <1>5, <3>2
    <3>4. QED
      BY <1>1, <3>1, <3>3
  <2>3. b[k - 1] = IF k = 1 THEN 0 ELSE shards[k - 1].range.end
    <3>1. CASE k = 1
      BY <1>5, <3>1
    <3>2. CASE k # 1
      <4>1. k - 1 \in 1 .. n
        BY <1>1, <3>2
      <4>2. shards[k - 1].range.end = b[k - 1]
        BY <1>5, <1>6, <4>1
      <4>3. QED
        BY <3>2, <4>2
    <3>3. QED
      BY <3>1, <3>2
  <2>4. Len(shards[k].batch.offsets) - 1 = shards[k].range.end - shards[k].range.start
    <3> DEFINE s == b[k - 1]
               e == b[k]
               range == [start |-> s, end |-> e]
    <3>1. shards[k].batch.offsets = EncodeFlatSurfaceRange(inputs, range).offsets
      BY <1>5, <1>6
    <3>2. s \in Nat /\ e \in Nat /\ s <= e /\ e <= d /\ s \in 0 .. d /\ e - s \in 0 .. d - s
          /\ e - s \in Nat
      BY <1>1, <2>2
    <3> HIDE DEF s, e
    <3>3. EncodeFlatSurfaceRange(inputs, range).offsets = OffsetsFrom(inputs, s, e - s)
      <4>1. range \in [start : Nat, end : Nat] /\ range.start = s /\ range.end = e
        BY <3>2
      <4>2. QED
        <5> HIDE DEF range
        <5> QED BY <3>2, <4>1, EncodeRangeIs DEF d
    <3>4. Len(OffsetsFrom(inputs, s, e - s)) = e - s + 1
      BY <3>2, OffsetsType DEF d
    <3>5. Len(shards[k].batch.offsets) - 1 = e - s
      BY <3>1, <3>2, <3>3, <3>4
    <3>6. QED
      BY <2>2, <3>5 DEF s, e
  <2>5. QED
    BY <2>1, <2>2, <2>3, <2>4
<1>10. Mergeable(shards)
  BY <1>3, <1>9 DEF Mergeable
<1>11. QED
  BY <1>3, <1>5, <1>8, <1>10 DEF n, d

(* All the shards of a call, in whatever order they are presented, merge   *)
(* to the batch.                                                           *)
LEMMA PresentedMerge ==
  ASSUME inputs \in Seq(Document), HandedOut, NEW given \in Seq(ToSet(shards)),
         Len(given) = Len(shards), ToSet(given) = ToSet(shards)
  PROVE  MergeSurfaceShards(given) = [kind |-> "ok", value |-> OrderedEncoding(inputs)]
<1> DEFINE n == Len(shards)
           keys == [k \in 1 .. n |-> given[k].range.start]
           sorted(order) == [k \in 1 .. n |-> given[order[k]]]
<1>1. n \in Nat /\ DOMAIN shards = 1 .. n /\ \A w \in 1 .. n : ShardOf(inputs, shards[w])
  BY ShardsAreOf
<1>2. DOMAIN given = 1 .. n /\ shards = [k \in 1 .. n |-> shards[k]]
  <2>1. DOMAIN given = 1 .. n
    OBVIOUS
  <2>2. CASE inputs = <<>> /\ shards = <<>>
    BY <2>1, <2>2
  <2>3. CASE Complete
    BY <1>1, <2>1, <2>3 DEF Complete
  <2>4. QED
    BY <2>2, <2>3 DEF HandedOut
<1>3. PICK b : /\ Chained(shards, b, n, inputs)
               /\ b[n] = Len(inputs)
               /\ Mergeable(shards)
  <2>1. CASE inputs = <<>> /\ shards = <<>>
    <3>1. n = 0 /\ Len(inputs) = 0 /\ 0 \in 0 .. 0 /\ 1 .. 0 = {}
      BY <2>1
    <3>2. Chained(shards, [k \in 0 .. 0 |-> 0], n, inputs) /\ Mergeable(shards)
      BY <1>1, <3>1 DEF Chained, Mergeable
    <3>3. QED
      BY <3>1, <3>2
  <2>2. CASE Complete
    BY <2>2, ShardsMerge
  <2>3. QED
    BY <2>1, <2>2 DEF HandedOut
<1> HIDE DEF n
<1>4. /\ b \in [0 .. n -> 0 .. Len(inputs)]
      /\ \A k \in 1 .. n : b[k - 1] < b[k] /\ shards[k].range = [start |-> b[k - 1], end |-> b[k]]
  BY <1>3 DEF Chained
<1>5. \A c \in 1 .. n : \E k \in 1 .. n : given[k] = shards[c]
  BY <1>1, <1>2 DEF ToSet
<1>6. \A k \in 1 .. n : \E c \in 1 .. n : given[k] = shards[c]
  BY <1>1, <1>2 DEF ToSet
<1>7. keys \in Seq(Nat) /\ Len(keys) = n
  <2>1. \A k \in 1 .. n : given[k].range.start \in Nat
    BY <1>1, <1>6 DEF ShardOf, Span
  <2>2. QED
    BY ONLY <1>1, <2>1
<1> DEFINE q == [c \in 1 .. n |-> CHOOSE k \in 1 .. n : given[k] = shards[c]]
<1>8. \A c \in 1 .. n : q[c] \in 1 .. n /\ given[q[c]] = shards[c]
  BY <1>5
<1>9. q \in [1 .. n -> 1 .. n]
  BY <1>8
<1> HIDE DEF q
<1>10. \A i, j \in 1 .. n : i < j => keys[q[i]] < keys[q[j]]
  <2>1. b \in [0 .. n -> Nat]
    <3>1. 0 .. Len(inputs) \subseteq Nat
      OBVIOUS
    <3>2. QED
      BY <1>4, <3>1
  <2>2. \A i, j \in 0 .. n : i < j => b[i] < b[j]
    BY <1>1, <1>4, <2>1, BoundariesGrow
  <2>3. ASSUME NEW c \in 1 .. n PROVE keys[q[c]] = b[c - 1]
    <3>1. keys[q[c]] = shards[c].range.start
      BY <1>8
    <3>2. shards[c].range = [start |-> b[c - 1], end |-> b[c]]
      BY <1>4
    <3>3. shards[c].range.start = b[c - 1]
      BY ONLY <3>2
    <3>4. QED
      BY <3>1, <3>3
  <2>4. ASSUME NEW i \in 1 .. n, NEW j \in 1 .. n, i < j PROVE b[i - 1] < b[j - 1]
    <3>1. i - 1 \in 0 .. n /\ j - 1 \in 0 .. n /\ i - 1 < j - 1
      BY <1>1, <2>4
    <3>2. QED
      BY <2>2, <3>1
  <2> HIDE DEF keys
  <2>5. QED
    BY <2>3, <2>4
<1>11. SortingOrder(keys) = q
  <2> HIDE DEF keys
  <2> QED BY <1>7, <1>9, <1>10, SortingOrderIs
<1>12. sorted(q) = shards
  <2>1. \A k \in 1 .. n : given[q[k]] = shards[k]
    BY <1>8
  <2>2. QED
    BY <1>2, <2>1
<1>13. MergeSurfaceShards(given)
         = IF Mergeable(shards)
           THEN [kind |-> "ok",
                 value |-> ConcatenateSurfaceChunks(
                             [k \in DOMAIN shards |-> [key   |-> shards[k].range.start,
                                                       value |-> shards[k].batch]])]
           ELSE [kind |-> "rejected"]
  <2>1. [k \in DOMAIN given |-> given[k].range.start] = keys
    BY <1>2
  <2>2. [k \in DOMAIN given |-> given[q[k]]] = shards
    BY <1>2, <1>12
  <2> HIDE DEF keys
  <2>3. QED
    BY <1>11, <2>1, <2>2 DEF MergeSurfaceShards
<1>14. ConcatenateSurfaceChunks([k \in DOMAIN shards |-> [key   |-> shards[k].range.start,
                                                          value |-> shards[k].batch]])
         = BatchUpto(inputs, Len(inputs))
  BY <1>1, <1>3, ChainedMerge
<1>15. BatchUpto(inputs, Len(inputs)) = OrderedEncoding(inputs)
  <2>1. SubSeq(inputs, 1, Len(inputs)) = inputs /\ Len(inputs) \in 0 .. Len(inputs)
    OBVIOUS
  <2>2. QED
    BY <2>1, OrderedEncodingIs
<1>16. QED
  BY <1>3, <1>13, <1>14, <1>15


(* A call's batch is cut before it runs; one shard runs on the calling     *)
(* thread, several on a scope with one worker per shard; what is handed    *)
(* out is complete, and what was merged came from it.                      *)
CallShape ==
  /\ phase \in {"idle", "inline", "parallel", "shards", "returned"}
  /\ inputs \in Seq(Document)
  /\ phase = "idle" => inputs = <<>> /\ shards = <<>> /\ NoScope
  /\ phase \in {"inline", "parallel"} => Cut
  /\ phase = "inline" => Len(ranges) = 1
  /\ phase = "parallel" => workerCount = Len(ranges) /\ scope # "none"
  /\ phase # "parallel" => scope \in {"none", "closed"}
  /\ phase = "shards" => HandedOut
  /\ phase # "returned" => outcome = NoOutcome
  /\ outcome.kind \in {"ok", "rejected"} =>
       /\ HandedOut
       /\ selection \in Seq(ToSet(shards))
       /\ outcome = MergeSurfaceShards(selection)

(* A shard that ends well has no failing document.                         *)
WorkShape == \A w \in Worker : status[w] = "ok" => FailingIn(w) = {}

IInv == ScopeTypeOK /\ ScopeShape /\ CallShape /\ WorkShape

(* In an initial state nothing has begun.                                  *)
LEMMA InitIInv == Init => IInv
<1> SUFFICES ASSUME Init PROVE IInv
  OBVIOUS
<1>1. ScopeTypeOK /\ ScopeShape
  BY NoScopeShape DEF Init
<1>2. <<>> \in Seq(Document)
  OBVIOUS
<1>3. CallShape
  BY <1>2 DEF Init, CallShape, NoScope, NoOutcome
<1>4. WorkShape
  BY DEF Init, NoScope, WorkShape, Worker
<1>5. QED
  BY <1>1, <1>3, <1>4 DEF IInv

(* Steps that submit a batch without opening a scope.                      *)
LEMMA SubmitIInv ==
  ASSUME IInv, ReturnEmpty \/ \E docs \in Batches : RejectMismatch(docs) \/ StartInline(docs)
  PROVE  IInv'
<1> USE DEF IInv
<1>1. /\ phase = "idle" /\ UNCHANGED <<shards, selection, scopeVars>>
      /\ phase' \in {"returned", "inline", "shards"}
  BY DEF ReturnEmpty, RejectMismatch, StartInline, Accept
<1>2. /\ inputs = <<>> /\ shards = <<>> /\ NoScope /\ outcome = NoOutcome
  BY <1>1 DEF CallShape
<1>3. ScopeTypeOK' /\ ScopeShape' /\ NoScope'
  BY <1>1, <1>2 DEF ScopeTypeOK, ScopeShape, NoScope, scopeVars
<1>4. WorkShape'
  BY <1>3 DEF NoScope, WorkShape
<1>5. inputs' \in Seq(Document)
  BY ShardAssumptions DEF CallShape, ReturnEmpty, RejectMismatch, StartInline, Accept
<1>6. phase' = "inline" => Cut' /\ Len(ranges') = 1
  BY <1>1 DEF ReturnEmpty, RejectMismatch, StartInline, Accept, Cut
<1>7. phase' = "shards" => HandedOut'
  BY <1>1, <1>2 DEF ReturnEmpty, RejectMismatch, StartInline, HandedOut
<1>8. /\ phase' # "returned" => outcome' = NoOutcome
      /\ outcome'.kind \in {"pending", "mismatch"}
  BY <1>1, <1>2 DEF ReturnEmpty, RejectMismatch, StartInline, Accept, NoOutcome
<1>9. CallShape'
  BY <1>1, <1>3, <1>5, <1>6, <1>7, <1>8 DEF CallShape, NoScope
<1>10. QED
  BY <1>3, <1>4, <1>9

(* A parallel call opens a scope with one worker per shard.                *)
LEMMA StartParallelIInv ==
  ASSUME IInv, NEW docs \in Batches, StartParallel(docs)
  PROVE  IInv'
<1> USE DEF IInv
<1>1. /\ phase = "idle" /\ phase' = "parallel" /\ inputs' = docs /\ docs # <<>>
      /\ docs \in Seq(Document)
      /\ ranges' = BuildShardRanges(Sizes(docs), Workers)
      /\ OpenScope(Len(ranges')) /\ UNCHANGED <<shards, selection, outcome>>
  BY ShardAssumptions DEF StartParallel, Accept
<1>2. Len(ranges') \in 1 .. Workers
  <2>1. Len(ranges') \in Nat \ {0} /\ Len(ranges') <= Workers
    BY <1>1, SizesOf, ShardRangesCover, WorkersAssumption
  <2>2. QED
    BY <2>1, WorkersAssumption
<1>3. ScopeTypeOK' /\ ScopeShape' /\ scope' = "spawning"
  BY <1>1, <1>2, OpenScopeShape
<1>4. workerCount' = Len(ranges') /\ \A w \in Worker : status'[w] = "none"
  BY <1>1 DEF OpenScope, SetScope
<1>5. WorkShape'
  BY <1>4 DEF WorkShape
<1>6. outcome' = NoOutcome
  BY <1>1 DEF CallShape
<1>7. CallShape'
  BY <1>1, <1>3, <1>4, <1>6 DEF CallShape, Cut, NoOutcome
<1>8. QED
  BY <1>3, <1>5, <1>7

(* No document of the batch fails when none of any shard does.             *)
LEMMA NoneFails ==
  ASSUME inputs \in Seq(Document), Cut, \A w \in 1 .. Len(ranges) : FailingIn(w) = {}
  PROVE  Failing(inputs, DOMAIN inputs) = {}
<1>1. /\ ranges \in Seq(Span) /\ IsExactCover(ranges, Len(inputs)) /\ Len(inputs) \in Nat
      /\ DOMAIN inputs = 1 .. Len(inputs)
  BY CutIs
<1>2. \A i \in 1 .. Len(inputs) : \E w \in 1 .. Len(ranges) : i \in DocsOf(ranges[w])
  BY <1>1, CoverShape
<1>3. QED
  BY <1>1, <1>2 DEF FailingIn, Failing

(* What the workers found, or the calling thread for a single shard,       *)
(* becomes the shards of the call.                                         *)
LEMMA CollectIInv ==
  ASSUME IInv, EncodeInline \/ FinishParallel
  PROVE  IInv'
<1> USE DEF IInv
<1>1. /\ inputs \in Seq(Document) /\ Cut /\ Len(ranges) \in 1 .. Workers
      /\ UNCHANGED <<inputs, ranges, selection, scopeVars>> /\ outcome = NoOutcome
      /\ scope \in {"none", "closed"}
  BY CutIs DEF EncodeInline, FinishParallel, CallShape
<1>2. ScopeTypeOK' /\ ScopeShape'
  BY <1>1 DEF ScopeTypeOK, ScopeShape, scopeVars
<1>3. WorkShape'
  BY <1>1 DEF WorkShape, FailingIn, scopeVars
<1>4. /\ phase' \in {"shards", "returned"}
      /\ phase' = "shards" => /\ UNCHANGED outcome
                              /\ shards' = [w \in 1 .. Len(ranges) |-> Shard(w)]
                              /\ \A w \in 1 .. Len(ranges) : FailingIn(w) = {}
      /\ phase' = "returned" => outcome'.kind \in {"err", "unwind", "panicked"}
  <2>1. CASE EncodeInline
    <3>1. Len(ranges) = 1
      BY <2>1 DEF EncodeInline, CallShape
    <3>2. <<Shard(1)>> = [w \in 1 .. 1 |-> Shard(w)]
      OBVIOUS
    <3>3. CASE FailingIn(1) = {}
      BY <2>1, <3>1, <3>2, <3>3 DEF EncodeInline
    <3>4. CASE FailingIn(1) # {}
      BY <2>1, <3>4 DEF EncodeInline
    <3>5. QED
      BY <3>3, <3>4
  <2>2. CASE FinishParallel
    <3>1. workerCount = Len(ranges) /\ scope = "closed"
      BY <2>2 DEF FinishParallel, CallShape
    <3>2. verdict \in {"ok", "err", "panicked", "unwind"}
      BY <3>1 DEF ScopeTypeOK, ScopeShape
    <3>3. CASE verdict = "ok"
      <4>1. \A w \in 1 .. Len(ranges) : status[w] = "ok" /\ w \in Worker
        BY <1>1, <3>1, <3>3, WorkersAssumption DEF ScopeShape, Worker
      <4>2. \A w \in 1 .. Len(ranges) : FailingIn(w) = {}
        BY <4>1 DEF WorkShape
      <4>3. QED
        BY <2>2, <3>1, <3>3, <4>2 DEF FinishParallel
    <3>4. CASE verdict # "ok"
      BY <2>2, <3>2, <3>4 DEF FinishParallel
    <3>5. QED
      BY <3>3, <3>4
  <2>3. QED
    BY <2>1, <2>2
<1>5. phase' = "shards" => HandedOut'
  <2> SUFFICES ASSUME phase' = "shards" PROVE Complete'
    BY DEF HandedOut
  <2>1. Failing(inputs, DOMAIN inputs) = {}
    BY <1>1, <1>4, NoneFails
  <2>2. \A w : Shard(w)' = Shard(w)
    BY <1>1 DEF Shard
  <2>3. QED
    BY <1>1, <1>4, <2>1, <2>2 DEF Complete, Cut
<1>6. CallShape'
  BY <1>1, <1>4, <1>5 DEF CallShape, scopeVars, NoOutcome
<1>7. QED
  BY <1>2, <1>3, <1>6


(* A worker ends, well exactly when no document of its shard fails.        *)
LEMMA EncodeShardIInv ==
  ASSUME IInv, NEW w \in Worker, EncodeShard(w)
  PROVE  IInv'
<1> USE DEF IInv
<1> DEFINE how == IF FailingIn(w) = {} THEN "ok"
                  ELSE IF inputs[Min(FailingIn(w))].fate = "err" THEN "err"
                  ELSE "panicked"
<1>1. status[w] = "running" /\ Finish(w, how) /\ UNCHANGED callVars /\ how \in Terminated
  BY DEF EncodeShard, Terminated
<1>2. how = "ok" => FailingIn(w) = {}
  OBVIOUS
<1> HIDE DEF how
<1>3. /\ ScopeTypeOK' /\ ScopeShape'
      /\ \A v \in Worker : status'[v] = IF v = w THEN how ELSE status[v]
      /\ UNCHANGED <<workerCount, spawned, joined, scope, verdict>>
  BY <1>1, FinishShape
<1>4. scope \notin {"none", "closed"}
  BY <1>1, WorkerRuns
<1>5. WorkShape'
  BY <1>1, <1>2, <1>3 DEF WorkShape, FailingIn, callVars
<1>6. phase = "parallel"
  BY <1>4 DEF CallShape
<1>7. CallShape'
  BY <1>1, <1>3, <1>6 DEF CallShape, Cut, callVars, NoOutcome
<1>8. QED
  BY <1>3, <1>5, <1>7

(* Steps of the calling thread inside the scope.                           *)
LEMMA MainIInv ==
  ASSUME IInv, MainStep
  PROVE  IInv'
<1> USE DEF IInv
<1>1. UNCHANGED callVars /\ ScopeStep
  BY DEF MainStep
<1>2. /\ ScopeTypeOK' /\ ScopeShape'
      /\ scope \notin {"none", "closed"} /\ UNCHANGED workerCount
      /\ \A w \in Worker : status'[w] # status[w] => status[w] = "none" /\ status'[w] = "running"
  BY <1>1, ScopeStepShape
<1>3. phase = "parallel" /\ scope' # "none"
  BY <1>1, <1>2 DEF CallShape, ScopeStep, Spawn, Join, CloseScope
<1>4. WorkShape'
  BY <1>1, <1>2 DEF WorkShape, FailingIn, callVars
<1>5. CallShape'
  BY <1>1, <1>2, <1>3 DEF CallShape, Cut, callVars, NoOutcome
<1>6. QED
  BY <1>2, <1>4, <1>5

(* The caller merges some of the shards it was handed.                     *)
LEMMA MergeIInv ==
  ASSUME IInv, MergeAll \/ MergeSelection
  PROVE  IInv'
<1> USE DEF IInv
<1>1. PICK given : Merge(given) /\ given \in Seq(ToSet(shards))
  <2>1. /\ phase = "shards" /\ HandedOut /\ inputs \in Seq(Document)
    BY DEF MergeAll, MergeSelection, Merge, CallShape
  <2>2. /\ Len(shards) \in Nat /\ DOMAIN shards = 1 .. Len(shards)
    BY <2>1, ShardsAreOf
  <2>3. shards = [k \in 1 .. Len(shards) |-> shards[k]]
    BY <2>1, CutIs DEF HandedOut, Complete
  <2>4. \A k \in 1 .. Len(shards) : shards[k] \in ToSet(shards)
    BY <2>2 DEF ToSet
  <2>5. CASE MergeAll
    <3>1. shards \in Seq(ToSet(shards))
      BY <2>2, <2>3, <2>4
    <3>2. QED
      BY <2>5, <3>1 DEF MergeAll
  <2>6. CASE MergeSelection
    <3>1. PICK picks \in BoundedSeq(DOMAIN shards, MaxSelection) :
            Merge([k \in DOMAIN picks |-> shards[picks[k]]])
      BY <2>6 DEF MergeSelection
    <3>2. PICK m \in 0 .. MaxSelection : picks \in [1 .. m -> 1 .. Len(shards)]
      BY <2>2 DEF BoundedSeq, SeqOf
    <3>3. [k \in DOMAIN picks |-> shards[picks[k]]] \in Seq(ToSet(shards))
      <4>1. m \in Nat /\ DOMAIN picks = 1 .. m
        BY <3>2, ShardAssumptions
      <4>2. \A k \in 1 .. m : shards[picks[k]] \in ToSet(shards)
        BY <2>4, <3>2
      <4>3. QED
        BY <4>1, <4>2
    <3>4. QED
      BY <3>1, <3>3
  <2>7. QED
    BY <2>5, <2>6
<1>2. /\ phase = "shards" /\ phase' = "returned" /\ HandedOut
      /\ UNCHANGED <<inputs, ranges, shards, scopeVars>>
      /\ selection' = given /\ outcome' = MergeSurfaceShards(given)
  BY <1>1 DEF Merge, CallShape
<1>3. ScopeTypeOK' /\ ScopeShape' /\ WorkShape'
  BY <1>2 DEF ScopeTypeOK, ScopeShape, WorkShape, FailingIn, scopeVars
<1>4. HandedOut'
  BY <1>2 DEF HandedOut, Complete, Cut, Shard
<1>5. outcome' = MergeSurfaceShards(selection')
  BY <1>2
<1>6. CallShape'
  BY <1>1, <1>2, <1>4, <1>5 DEF CallShape, scopeVars
<1>7. QED
  BY <1>3, <1>6

(* The call is over and everything is forgotten.                           *)
LEMMA ReturnIInv ==
  ASSUME IInv, Return
  PROVE  IInv'
<1>1. NoScope' /\ phase' = "idle" /\ inputs' = <<>> /\ shards' = <<>> /\ outcome' = NoOutcome
  BY ForgetScopeShape DEF Return
<1>2. ScopeTypeOK' /\ ScopeShape'
  BY <1>1, WorkersAssumption DEF NoScope, ScopeTypeOK, ScopeShape, Worker
<1>3. WorkShape'
  BY <1>1 DEF NoScope, WorkShape
<1>4. <<>> \in Seq(Document)
  OBVIOUS
<1>5. CallShape'
  BY <1>1, <1>4 DEF CallShape, NoScope, NoOutcome
<1>6. QED
  BY <1>2, <1>3, <1>5 DEF IInv

(* Every step preserves the invariant.                                     *)
LEMMA NextIInv == IInv /\ [Next]_vars => IInv'
<1> SUFFICES ASSUME IInv, [Next]_vars PROVE IInv'
  OBVIOUS
<1>1. CASE UNCHANGED vars
  <2> USE <1>1 DEF IInv, vars, callVars, scopeVars
  <2>1. ScopeTypeOK' /\ ScopeShape'
    BY DEF ScopeTypeOK, ScopeShape
  <2>2. WorkShape'
    BY DEF WorkShape, FailingIn
  <2>3. Cut' = Cut /\ HandedOut' = HandedOut /\ NoScope' = NoScope
    BY DEF HandedOut, Complete, Cut, Shard, NoScope
  <2>4. CallShape'
    BY <2>3 DEF CallShape
  <2>5. QED
    BY <2>1, <2>2, <2>4
<1>2. QED
  BY <1>1, SubmitIInv, StartParallelIInv, CollectIInv, EncodeShardIInv, MainIInv, MergeIInv,
     ReturnIInv DEF Next

(* The invariant holds in every reachable state.                           *)
LEMMA Inductive == Spec => []IInv
BY InitIInv, NextIInv, PTL DEF Spec


(* Every document is in exactly one shard, every shard has one, there are  *)
(* no more shards than runtimes, and none holds more than its even share   *)
(* plus one document: for every batch, whatever the sizes.                 *)
THEOREM ShardsBalanced == Spec => []ShardsAreBalanced
<1>1. ASSUME IInv, phase \in {"inline", "parallel"}
      PROVE  LET sizes == Sizes(inputs)
                 share == CeilDiv(Weight(sizes, 0, Len(inputs)), Len(ranges))
                 largest == Max({Weight(sizes, i - 1, i) : i \in DOMAIN inputs})
             IN  /\ IsExactCover(ranges, Len(inputs)) /\ Len(ranges) <= Workers
                 /\ \A r \in ToSet(ranges) : Weight(sizes, r.start, r.end) < share + largest
  <2>1. inputs \in Seq(Document) /\ Cut
    BY <1>1 DEF IInv, CallShape
  <2>2. /\ Sizes(inputs) \in Seq(Nat) /\ Sizes(inputs) # <<>>
        /\ Len(Sizes(inputs)) = Len(inputs) /\ DOMAIN Sizes(inputs) = DOMAIN inputs
    BY <2>1, SizesOf DEF Cut
  <2>3. IsExactCover(ranges, Len(inputs)) /\ Len(ranges) <= Workers
    BY <2>1, CutIs, WorkersAssumption
  <2>4. QED
    BY <2>1, <2>2, <2>3, ShardRangesBalanced, WorkersAssumption DEF Cut
<1>2. IInv => ShardsAreBalanced
  BY <1>1 DEF ShardsAreBalanced
<1>3. QED
  BY Inductive, <1>2, PTL

(* The shards of a call, presented in any order, merge to the in-order     *)
(* encoding of the whole batch, and no document of that batch fails:       *)
(* whatever the timing of the shards' threads.                             *)
THEOREM ShardsMergeBack == Spec => []ShardsMergeToBatch
<1>1. ASSUME IInv, outcome.kind \in {"ok", "rejected"}, Len(selection) = Len(shards),
             ToSet(selection) = ToSet(shards)
      PROVE  /\ outcome = [kind |-> "ok", value |-> OrderedEncoding(inputs)]
             /\ Failing(inputs, DOMAIN inputs) = {}
  <2>1. /\ inputs \in Seq(Document) /\ HandedOut /\ selection \in Seq(ToSet(shards))
        /\ outcome = MergeSurfaceShards(selection)
    BY <1>1 DEF IInv, CallShape
  <2>2. outcome = [kind |-> "ok", value |-> OrderedEncoding(inputs)]
    BY <1>1, <2>1, PresentedMerge
  <2>3. Failing(inputs, DOMAIN inputs) = {}
    BY <2>1 DEF HandedOut, Complete, Failing
  <2>4. QED
    BY <2>2, <2>3
<1>2. IInv => ShardsMergeToBatch
  BY <1>1 DEF ShardsMergeToBatch
<1>3. QED
  BY Inductive, <1>2, PTL

(* What is left of OnlyCoversMerge, which does not hold: a merge may be    *)
(* accepted without the last shards, but repeats, reorders and leaves out  *)
(* nothing before them.                                                    *)
MergeYieldsPrefix ==
  outcome.kind = "ok" =>
    \E n \in 0 .. Len(inputs) :
      outcome.value = OrderedEncoding(SubSeq(inputs, 1, n))

(* Whatever selection of its shards a caller presents, repeated or in any  *)
(* order, an accepted merge is the encoding of a prefix of the batch.      *)
THEOREM MergeNeverSkips == Spec => []MergeYieldsPrefix
<1>1. ASSUME IInv, outcome.kind = "ok"
      PROVE  \E n \in 0 .. Len(inputs) : outcome.value = OrderedEncoding(SubSeq(inputs, 1, n))
  <2>1. /\ inputs \in Seq(Document) /\ HandedOut /\ selection \in Seq(ToSet(shards))
        /\ outcome = MergeSurfaceShards(selection)
    BY <1>1 DEF IInv, CallShape
  <2>2. DOMAIN shards = 1 .. Len(shards) /\ \A w \in 1 .. Len(shards) : ShardOf(inputs, shards[w])
    BY <2>1, ShardsAreOf
  <2>3. Len(selection) \in Nat /\ DOMAIN selection = 1 .. Len(selection)
    BY <2>1
  <2>4. \A k \in 1 .. Len(selection) : selection[k] \in ToSet(shards)
    BY <2>1, ElementOfSeq
  <2>5. \A k \in 1 .. Len(selection) : ShardOf(inputs, selection[k])
    BY <2>2, <2>4 DEF ToSet
  <2>6. QED
    BY <1>1, <2>1, <2>3, <2>5, MergeIsPrefix
<1>2. IInv => MergeYieldsPrefix
  BY <1>1 DEF MergeYieldsPrefix
<1>3. QED
  BY Inductive, <1>2, PTL
=============================================================================
