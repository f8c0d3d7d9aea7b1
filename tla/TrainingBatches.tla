--------------------------- MODULE TrainingBatches --------------------------
(***************************************************************************)
(* The flat output format shared by every batch encoder: the token IDs of  *)
(* all documents back to back and one offset per document boundary.  A     *)
(* document is its size in bytes, the number of tokens it encodes to, and  *)
(* its fate: encoding it succeeds, returns an error, or panics.  Its k-th  *)
(* token is <<document, k>>; an ID and its byte length travel together.    *)
(***************************************************************************)
EXTENDS Naturals, Sequences, SequencesExt, FiniteSetsExt

Fates == {"ok", "err", "panic"}

Document == [size : Nat, tokens : Nat, fate : Fates]

Sizes(docs) == [i \in DOMAIN docs |-> docs[i].size]

DocumentIds(docs, i) == [k \in 1 .. docs[i].tokens |-> <<i, k>>]

Failing(docs, among) == {i \in among : docs[i].fate # "ok"}

FirstFailure(docs, among) == Min(Failing(docs, among))

EmptyBatch == [ids |-> <<>>, offsets |-> <<0>>]

(* One document appended to a range-local batch, offsets local to it.      *)
AppendDocument(batch, ids) ==
  [ids     |-> batch.ids \o ids,
   offsets |-> Append(batch.offsets, Len(batch.ids) + Len(ids))]

EncodeFlatSurfaceRange(docs, range) ==
  FoldLeft(LAMBDA batch, i : AppendDocument(batch, DocumentIds(docs, i)),
           EmptyBatch,
           [k \in 1 .. (range.end - range.start) |-> range.start + k])

EncodeDocuments(docs, range) ==
  [k \in 1 .. (range.end - range.start) |-> DocumentIds(docs, range.start + k)]

(* sort_unstable_by_key: a permutation of the positions that puts the keys *)
(* in ascending order.                                                     *)
SortingOrder(keys) ==
  CHOOSE p \in [DOMAIN keys -> DOMAIN keys] :
    /\ IsInjective(p)
    /\ \A i, j \in DOMAIN keys : i < j => keys[p[i]] <= keys[p[j]]

(* Workers finish chunks in any order; a chunk is [key |-> position in the *)
(* batch, value |-> what its worker produced].                             *)
InOrder(chunks) ==
  LET order == SortingOrder([k \in DOMAIN chunks |-> chunks[k].key])
  IN  [k \in DOMAIN chunks |-> chunks[order[k]]]

(* Mutant of ConcatenateSurfaceChunks: offsets stay local to their chunk.  *)
ConcatenateUnrebased(chunks) ==
  FoldLeft(LAMBDA out, chunk :
             [ids     |-> out.ids \o chunk.value.ids,
              offsets |-> out.offsets \o Tail(chunk.value.offsets)],
           EmptyBatch, InOrder(chunks))

(* Range-local batches: skip each leading zero and rebase the rest.        *)
ConcatenateSurfaceChunks(chunks) ==
  FoldLeft(LAMBDA out, chunk :
             [ids     |-> out.ids \o chunk.value.ids,
              offsets |-> out.offsets \o
                          [k \in 1 .. (Len(chunk.value.offsets) - 1) |->
                             Len(out.ids) + chunk.value.offsets[k + 1]]],
           EmptyBatch, InOrder(chunks))

(* Per-document encodings: offsets are taken while appending.              *)
ConcatenateTrainingChunks(chunks) ==
  FoldLeft(AppendDocument, EmptyBatch,
           FlattenSeq([k \in DOMAIN chunks |-> InOrder(chunks)[k].value]))

ConcatenateDocuments(chunks) ==
  FlattenSeq([k \in DOMAIN chunks |-> InOrder(chunks)[k].value])

(* What a caller is promised: the encoding of each document on its own, in *)
(* input order, with the offset of every document boundary.                *)
OrderedEncoding(docs) ==
  [ids     |-> FlattenSeq([i \in DOMAIN docs |-> DocumentIds(docs, i)]),
   offsets |-> [i \in 1 .. Len(docs) + 1 |->
                  MapThenSumSet(LAMBDA j : docs[j].tokens, 1 .. i - 1)]]

OrderedDocuments(docs) == [i \in DOMAIN docs |-> DocumentIds(docs, i)]
=============================================================================
