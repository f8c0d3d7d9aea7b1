------------------------------ MODULE Alignment ------------------------------
(***************************************************************************)
(* Alignment of an analysis to the token it came from: where the surfaces  *)
(* of its morphemes begin and end in the token, and where the token is     *)
(* therefore cut.  A token is a sequence of the characters of              *)
(* LexicalScanner; positions count characters and are zero based.  An      *)
(* analysis is a record of its dictionary, parts of speech, stem, ending   *)
(* and morphemes; a morpheme is [id, surface, derivational].               *)
(***************************************************************************)
LOCAL INSTANCE Naturals
LOCAL INSTANCE Sequences
LOCAL INSTANCE SequencesExt
LOCAL INSTANCE LexicalScanner

Upper == Chars("ABCDEFGHIJKLMNOPQRSTUVWXYZ")
Lower == Chars("abcdefghijklmnopqrstuvwxyz")
Apostrophe == {"'", "apostrophe"}
Alphabet == AsciiLetter \cup UnicodeLetter
Numeral == Digit \cup {"numeral"}

(* Turkish lower case: I loses its dot, and every letter becomes one.      *)
LowerChar(char) ==
  CASE char = "I" -> "dotless"
    [] char = "dotted" -> "i"
    [] char \in AsciiUpper \ {"I"} -> Lower[CHOOSE i \in 1 .. 26 : Upper[i] = char]
    [] OTHER -> char
LowerText(text) == [i \in DOMAIN text |-> LowerChar(text[i])]

NormalizeChar(char) ==
  IF char = "circumflex" THEN "a" ELSE LowerChar(char)

(* What a letter may stand for in the lexicon: a foreign diacritic is      *)
(* dropped, and what the morphology does not know is a question mark.      *)
Undiacritic(char) == IF char = "acute" THEN "e" ELSE char
Known(char) ==
  IF char \in AsciiLower \cup {"turkish", "dotless", "circumflex", ".", "-"} THEN char ELSE "?"
NormalizationMatches(actual, expected) ==
  LET mapped == [i \in DOMAIN actual |-> Undiacritic(actual[i])]
  IN  \/ actual = expected
      \/ mapped = expected
      \/ [i \in DOMAIN mapped |-> Known(mapped[i])] = expected

(* Letters and dots, at least one of each, before the first apostrophe.    *)
IsDottedAbbreviation(token) ==
  LET marks == {i \in DOMAIN token : token[i] \in Apostrophe}
      stem == {i \in DOMAIN token : \A j \in marks : i < j}
      letters == {i \in stem : token[i] # "."}
  IN  /\ letters # stem /\ letters # {}
      /\ \A i \in letters : token[i] \in Alphabet

(* The positions of a token that its morphemes must spell. *)
Spelled(token, analysis) ==
  LET ignoreDots == analysis.secondary = "RegAbbrv" \/ IsDottedAbbreviation(token)
  IN  SelectSeq([i \in DOMAIN token |-> i],
        LAMBDA i : token[i] \notin Apostrophe /\ ~(ignoreDots /\ token[i] = "."))

NormalizedTarget(analysis) ==
  FoldLeft(LAMBDA text, morpheme :
             text \o [i \in DOMAIN morpheme.surface |-> NormalizeChar(morpheme.surface[i])],
           <<>>, analysis.morphemes)

(* The state after a morpheme was put between two positions of the token.  *)
Placed(state, morpheme, start, end, cuts) ==
  [cursor |-> state.cursor + Len(morpheme.surface), last |-> end,
   morphemes |-> Append(state.morphemes, [id |-> morpheme.id, surface |-> morpheme.surface,
                                          start |-> start, end |-> end]),
   cuts |-> state.cuts \cup cuts]

PlacedOnSurface(state, morpheme, spelled, cursor) ==
  Placed(state, morpheme, spelled[state.cursor + 1] - 1, spelled[cursor],
         IF cursor < Len(spelled) THEN {spelled[cursor]} ELSE {})

(* Mutant of AlignMorpheme: a morpheme without a surface goes back to the  *)
(* start of the unit.                                                      *)
AlignMorphemeAtStart(state, morpheme, spelled) ==
  IF morpheme.surface = <<>> THEN Placed(state, morpheme, 0, 0, {})
  ELSE PlacedOnSurface(state, morpheme, spelled, state.cursor + Len(morpheme.surface))

(* One morpheme after the others: the characters it spells, or nothing at  *)
(* the end of the one before.                                              *)
AlignMorpheme(state, morpheme, spelled) ==
  IF morpheme.surface = <<>> THEN Placed(state, morpheme, state.last, state.last, {})
  ELSE PlacedOnSurface(state, morpheme, spelled, state.cursor + Len(morpheme.surface))

Misaligned == [ok |-> FALSE, cuts |-> {}, morphemes |-> <<>>]

AlignmentOf(token, state) ==
  LET marks == {i \in DOMAIN token : token[i] \in Apostrophe}
  IN  [ok |-> TRUE, morphemes |-> state.morphemes,
       cuts |-> 1 .. Len(token) - 1 \cap (state.cuts \cup marks \cup {i - 1 : i \in marks})]

AlignSpelled(token, analysis, spelled) ==
  IF NormalizationMatches([i \in DOMAIN spelled |-> NormalizeChar(token[spelled[i]])],
                          NormalizedTarget(analysis))
  THEN AlignmentOf(token, FoldLeft(LAMBDA state, morpheme : AlignMorpheme(state, morpheme, spelled),
                                 [cursor |-> 0, last |-> 0, morphemes |-> <<>>, cuts |-> {}],
                                 analysis.morphemes))
  ELSE Misaligned

(* align_analysis: the cuts are strictly inside the token. *)
Align(token, analysis) ==
  AlignSpelled(token, analysis, Spelled(token, analysis))
-----------------------------------------------------------------------------
(* Numerals: the derivation the morphology leaves out after an apostrophe. *)
Derivations ==
  <<[id |-> "Ord", surface |-> Chars("inci")], [id |-> "Ord", surface |-> Chars("uncu")],
    [id |-> "Ord", surface |-> Chars("nci")], [id |-> "Ord", surface |-> Chars("ncu")],
    [id |-> "Dist", surface |-> Chars("ar")], [id |-> "Dist", surface |-> Chars("er")]>>

NumericDerivationPrefix(suffix) ==
  SelectSeq(Derivations, LAMBDA derivation : IsPrefix(derivation.surface, suffix))

(* The analysis with the first of the derivations its suffix begins with.  *)
CompleteWith(analysis, suffix, prefixes) ==
  LET derivation == Head(prefixes)
  IN  IF /\ prefixes # <<>>
         /\ \A k \in DOMAIN analysis.morphemes : analysis.morphemes[k].id # derivation.id
         /\ LowerText(analysis.ending) =
              SubSeq(suffix, Len(derivation.surface) + 1, Len(suffix))
      THEN [analysis EXCEPT
              !.ending = derivation.surface \o @,
              !.morphemes = InsertAt(@, 2, [id |-> derivation.id, surface |-> derivation.surface,
                                            derivational |-> TRUE])]
      ELSE analysis

CompleteNumericDerivation(token, analysis) ==
  LET marks == {i \in DOMAIN token : token[i] \in Apostrophe}
      mark == CHOOSE i \in marks : \A j \in marks : i <= j
      derive(suffix) == CompleteWith(analysis, suffix, NumericDerivationPrefix(suffix))
  IN  IF /\ analysis.pos = "Num" /\ marks # {} /\ mark \in 2 .. Len(token) - 1
         /\ analysis.stem = SubSeq(token, 1, mark - 1)
      THEN derive(LowerText(SubSeq(token, mark + 1, Len(token)))) ELSE analysis

(* A separator between digits is cut on both sides. *)
NumericMicroCuts(text) ==
  UNION {{i - 1, i} : i \in {j \in 2 .. Len(text) - 1 :
    /\ text[j] \in {".", ",", ":", "/", "-"}
    /\ text[j - 1] \in Numeral /\ text[j + 1] \in Numeral}}
-----------------------------------------------------------------------------
UnknownAnalysis(token) ==
  [dictionary |-> "UNK", pos |-> "Unk", secondary |-> "Unk", stem |-> token, ending |-> <<>>,
   morphemes |-> <<[id |-> "Unknown", surface |-> token, derivational |-> FALSE]>>]

(* AnalysisMetadata: what a rich unit keeps of its analysis.               *)
Metadata(analysis, morphemes) ==
  [dictionary |-> analysis.dictionary, pos |-> analysis.pos, secondary |-> analysis.secondary,
   morphemes |-> morphemes]
UnknownMetadata(token, span) ==
  Metadata(UnknownAnalysis(token), <<[id |-> "Unknown", surface |-> token,
                                      start |-> span.start, end |-> span.end]>>)

(* The candidates of the rich path: those that align, or one unknown.      *)
SurfaceValidCandidates(token, analyses) ==
  LET known(valid) == IF valid = <<>> THEN <<UnknownAnalysis(token)>> ELSE valid
  IN  known(SelectSeq(analyses,
        LAMBDA analysis : Align(token, CompleteNumericDerivation(token, analysis)).ok))

(* The candidates of the flat paths: of the same analyses only the cuts.   *)
BuildFlatAnalysisSet(token, analyses) ==
  LET completed(analysis) ==
        IF \E i \in DOMAIN token : token[i] \in Numeral
        THEN CompleteNumericDerivation(token, analysis) ELSE analysis
      candidate(analysis, aligned) ==
        IF ~aligned.ok THEN <<>>
        ELSE <<[cuts |-> aligned.cuts, unknown |-> analysis.dictionary = "UNK",
                analysis |-> analysis]>>
      known(candidates) ==
        IF candidates # <<>> THEN candidates
        ELSE <<[cuts |-> {}, unknown |-> TRUE, analysis |-> UnknownAnalysis(token)]>>
  IN  known(FlattenSeq([k \in DOMAIN analyses |->
        candidate(analyses[k], Align(token, completed(analyses[k])))]))

(* Whether every candidate leaves the same bytes in the output.            *)
OutputInvariant(candidates) ==
  \A k \in DOMAIN candidates : /\ candidates[k].cuts = candidates[1].cuts
                               /\ candidates[k].unknown = candidates[1].unknown
=============================================================================
