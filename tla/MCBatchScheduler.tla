--------------------------- MODULE MCBatchScheduler -------------------------
(***************************************************************************)
(* BatchScheduler on every batch of up to MaxDocuments drawn from an       *)
(* empty document, a small one, one large enough to close a chunk by       *)
(* itself, one whose encoding errs and one whose encoding panics.          *)
(***************************************************************************)
EXTENDS BatchScheduler

CONSTANT MaxDocuments

Doc(size, tokens, fate) == [size |-> size, tokens |-> tokens, fate |-> fate]

MCDocuments == {Doc(0, 0, "ok"), Doc(1, 1, "ok"), Doc(3, 2, "ok"), Doc(3, 1, "err"), Doc(3, 1, "panic")}

MCBatches == UNION {[1 .. n -> MCDocuments] : n \in 0 .. MaxDocuments}
=============================================================================
