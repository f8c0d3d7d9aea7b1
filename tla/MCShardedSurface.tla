-------------------------- MODULE MCShardedSurface --------------------------
(***************************************************************************)
(* ShardedSurface on batches of documents of weight 1 (empty and small), 2 *)
(* and 5, one of which may err or panic.                                   *)
(***************************************************************************)
EXTENDS ShardedSurface

CONSTANT MaxDocuments

Doc(size, tokens, fate) == [size |-> size, tokens |-> tokens, fate |-> fate]

MCDocuments ==
  {Doc(0, 0, "ok"), Doc(2, 1, "ok"), Doc(5, 2, "ok"), Doc(1, 1, "err"), Doc(1, 1, "panic")}

MCBatches == UNION {[1 .. n -> MCDocuments] : n \in 0 .. MaxDocuments}
=============================================================================
