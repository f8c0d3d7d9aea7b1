------------------------- MODULE MCCodeProgramCache -------------------------
(***************************************************************************)
(* CodeProgramCache with a greedy vocabulary whose pieces overlap and a    *)
(* byte-BPE one whose merges build on each other, which both know a double *)
(* line break, on short documents with blank lines, identifiers, spaces,   *)
(* opaque bytes and a line of two chunks.                                  *)
(***************************************************************************)
EXTENDS CodeProgramCache

MCGreedy ==
  [kind |-> "greedy",
   entries |-> <<<<Letter, Letter>>, <<Space, Letter>>, <<Newline, Newline>>,
                 <<Letter, Letter, Letter>>, <<Invalid>>>>]

MCBpe ==
  [kind |-> "bpe",
   entries |-> <<<<Letter, Letter>>, <<Space, Letter>>, <<Space, Space>>,
                 <<Space, Letter, Letter>>, <<Newline, Newline>>>>]

MCVocabularies == {MCGreedy, MCBpe}

MCDocuments ==
  {<<Newline>>, <<Letter, Newline, Newline>>, <<Letter, Newline, Letter, Newline>>,
   <<Space, Letter, Letter>>, <<Letter, Underscore, Letter, Space, Letter, Space>>,
   <<Letter, Invalid, Letter>>}

MCOneVocabulary == {MCGreedy}
=============================================================================
