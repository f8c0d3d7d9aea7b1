---------------------------- MODULE MCScoreCache ----------------------------
(***************************************************************************)
(* ScoreCache with one content the compiled table knows and two it does    *)
(* not: their codes are 0, 1 and 2, and 2 is already too large to cache.   *)
(***************************************************************************)
EXTENDS ScoreCache, TLC

CONSTANTS seeded, c1, c2

MCSeed == seeded :> 0

MCContents == {seeded, c1, c2}

MCSymmetry == Permutations({c1, c2})
=============================================================================
