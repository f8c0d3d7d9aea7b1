----------------------------- MODULE MCCodeMode -----------------------------
(***************************************************************************)
(* Code mode as a whole: the retained cache of one worker and the two      *)
(* segmentations it is built on, under the same vocabularies and limits.   *)
(* They share definitions and no state, so that interleaving them would    *)
(* add nothing: a document is grown only while no cache is in use.         *)
(***************************************************************************)
EXTENDS MCCodeProgramCache, FlatRichParity

CodeModeInit == Init /\ ParityInit

WorkCache == document = <<>> /\ Next /\ UNCHANGED parityVars

CompareSegments == context = NoContext /\ ParityNext /\ UNCHANGED vars

CodeModeNext == WorkCache \/ CompareSegments

CodeModeSpec == CodeModeInit /\ [][CodeModeNext]_<<vars, parityVars>>
=============================================================================
