--------------------------- MODULE QualityFallbacks ---------------------------
(***************************************************************************)
(* What the tokenizer tries when the morphology has no analysis of a       *)
(* token: quality.rs.  A fallback analyses a normalised candidate of the   *)
(* token and carries the cuts back to the token itself, whose bytes are    *)
(* never rewritten.  A candidate is [text, ends]: ends[k] is where the k-th *)
(* character of the text ends in the token.                                *)
(***************************************************************************)
LOCAL INSTANCE Naturals
LOCAL INSTANCE Sequences
LOCAL INSTANCE SequencesExt
LOCAL INSTANCE FiniteSetsExt
LOCAL INSTANCE LexicalScanner
LOCAL INSTANCE Alignment

CONSTANTS
  Lexicon,         \* the analyses the morphology has: a function from tokens to sequences
  LongestToken,    \* longer tokens are not analysed (512 characters)
  MaxVariants      \* candidates of one deasciification (64)

(* NativeMorphology::analyze_token. *)
AnalyzeToken(token) == IF token \in DOMAIN Lexicon THEN Lexicon[token] ELSE <<>>

(* An analysis made of the pieces between cuts of the token. *)
SyntheticAnalysis(token, cuts, base, label) ==
  LET bounds == {0, Len(token)} \cup (cuts \cap 1 .. Len(token) - 1)
      ends == SelectSeq([i \in DOMAIN token |-> i], LAMBDA i : i \in bounds)
      start(k) == IF k = 1 THEN 0 ELSE ends[k - 1]
      surface(k) == SubSeq(token, start(k) + 1, ends[k])
  IN  [dictionary |-> label, pos |-> base.pos, secondary |-> base.secondary,
       stem |-> surface(1), ending |-> SubSeq(token, ends[1] + 1, Len(token)),
       morphemes |-> [k \in DOMAIN ends |->
         [id |-> IF k = 1 THEN "Root" ELSE "Part", surface |-> surface(k),
          derivational |-> FALSE]]]

SingleLetter(token) ==
  Len(token) = 1 /\ token[1] \in AsciiLetter \cup {"turkish", "dotless", "dotted"}
Letter == [pos |-> "Noun", secondary |-> "Abbrv"]
-----------------------------------------------------------------------------
(* 14:30'da: a clock, an apostrophe and a suffix. *)
LooksLikeClock(text) ==
  LET colons == {i \in DOMAIN text : text[i] = ":"}
      bounds == {0, Len(text) + 1} \cup colons
      parts == {[first |-> a + 1, last |-> b - 1] : a, b \in bounds}
      between == {part \in parts : /\ part.first <= part.last + 1
                                   /\ part.first .. part.last \cap colons = {}}
      width(part) == part.last + 1 - part.first
  IN  /\ \E n \in 1 .. 2 : Quantify(colons, LAMBDA i : TRUE) = n
      /\ \A part \in between :
           /\ width(part) \in IF part.first = 1 THEN 1 .. 2 ELSE {2}
           /\ \A i \in part.first .. part.last : text[i] \in Digit

NumericTimeWithSuffix(token) ==
  LET marks == {i \in DOMAIN token : token[i] \in Apostrophe}
      mark == Min(marks)
      clock == SubSeq(token, 1, mark - 1)
      suffix == SubSeq(token, mark + 1, Len(token))
      part(id, surface) == [id |-> id, surface |-> surface, derivational |-> FALSE]
  IN  IF marks # {} /\ suffix # <<>> /\ ToSet(suffix) \subseteq Alphabet /\ LooksLikeClock(clock)
      THEN <<[dictionary |-> "Clock", pos |-> "Num", secondary |-> "Clock",
              stem |-> clock, ending |-> suffix,
              morphemes |-> <<part("ClockRoot", clock), part("ClockSuffix", suffix)>>]>>
      ELSE <<>>

(* The analyses of a text that align to it, each with its cuts. *)
AlignedAnalyses(text) ==
  LET base(analysis, aligned) ==
        IF aligned.ok THEN <<[analysis |-> analysis, cuts |-> aligned.cuts]>> ELSE <<>>
      analyses == AnalyzeToken(text)
  IN  FlattenSeq([k \in DOMAIN analyses |-> base(analyses[k], Align(text, analyses[k]))])

(* A question particle written together with the word before it.           *)
AttachedQuestion(token) ==
  LET vowels == {"dotless", "i", "u"}
      length == Len(token)
      attached(bases) ==
        IF bases = <<>> THEN <<>>
        ELSE <<SyntheticAnalysis(token, bases[1].cuts \cup {length - 2}, bases[1].analysis,
                                 "QuestionAttached")>>
  IN  IF /\ length > 3
         /\ LowerChar(token[length - 1]) = "m" /\ LowerChar(token[length]) \in vowels
      THEN attached(AlignedAnalyses(SubSeq(token, 1, length - 2)))
      ELSE <<>>
-----------------------------------------------------------------------------
(* Mutant of OriginalCuts: the cuts of the candidate taken for the token's. *)
UnmappedCuts(candidate, cuts) == cuts

OriginalCuts(candidate, cuts) == {candidate.ends[cut] : cut \in cuts}

(* analysis_from_candidate: the first analysis of the text that aligns.    *)
FromCandidate(token, candidate, label) ==
  LET from(bases) ==
        IF bases = <<>> THEN <<>>
        ELSE <<SyntheticAnalysis(token, OriginalCuts(candidate, bases[1].cuts),
                                 bases[1].analysis, label)>>
  IN  IF candidate.text = token THEN <<>>
      ELSE IF AnalyzeToken(candidate.text) = <<>> /\ SingleLetter(candidate.text)
      THEN <<SyntheticAnalysis(token, {}, Letter, label)>>
      ELSE from(AlignedAnalyses(candidate.text))

(* A letter and the mark after it, written as one character.               *)
CompositionCandidate(token) ==
  LET composed(i) == i < Len(token) /\ token[i] = "s" /\ token[i + 1] = "mark"
      kept == SelectSeq([i \in DOMAIN token |-> i], LAMBDA i : i = 1 \/ ~composed(i - 1))
  IN  [text |-> [k \in DOMAIN kept |-> IF composed(kept[k]) THEN "turkish" ELSE token[kept[k]]],
       ends |-> [k \in DOMAIN kept |-> IF composed(kept[k]) THEN kept[k] + 1 ELSE kept[k]]]

(* A last letter written three to eight times, in whatever ASCII case,     *)
(* written once.                                                           *)
HasEmphasis(token, start) ==
  /\ start > 1 /\ Len(token) + 1 - start \in 3 .. 8
  /\ token[Len(token)] \in Alphabet
EmphasisStart(token) ==
  LET fold(i) == CASE token[i] = "I" -> "i"
                   [] token[i] = "dotted" -> "dotted"
                   [] OTHER -> LowerChar(token[i])
  IN  Min({i \in DOMAIN token : \A j \in i .. Len(token) : fold(j) = fold(Len(token))})
EmphasisCandidate(token) ==
  LET start == EmphasisStart(token)
  IN  [text |-> SubSeq(token, 1, start),
       ends |-> [k \in 1 .. start |-> IF k = start THEN Len(token) ELSE k]]

LowerCandidate(token) == [text |-> LowerText(token), ends |-> [k \in DOMAIN token |-> k]]

(* Every way to put back the diacritics, at most MaxVariants of them.      *)
Alternate(char) ==
  CASE char = "s" -> <<char, "turkish">> [] char = "i" -> <<char, "dotless">> [] OTHER -> <<char>>
Variants(text) ==
  FoldLeft(LAMBDA variants, char :
             LET longer == FlattenSeq([v \in DOMAIN variants |->
                   [a \in DOMAIN Alternate(char) |-> Append(variants[v], Alternate(char)[a])]])
             IN  SubSeq(longer, 1, Min({Len(longer), MaxVariants})),
           <<<<>>>>, text)
DeasciifyCandidates(base) ==
  [k \in DOMAIN SelectSeq(Variants(base.text), LAMBDA text : text # base.text) |->
     [text |-> SelectSeq(Variants(base.text), LAMBDA text : text # base.text)[k],
      ends |-> base.ends]]
-----------------------------------------------------------------------------
(* analyze_token_with_quality_fallback: the morphology first, and then the *)
(* first fallback that has an analysis.                                    *)
AnalyzeWithFallback(token) ==
  LET first(found) == IF found = <<>> THEN <<>> ELSE Head(found)
  IN  IF token = <<>> \/ Len(token) > LongestToken THEN <<>>
      ELSE first(SelectSeq(
        <<NumericTimeWithSuffix(token), AnalyzeToken(token), AttachedQuestion(token),
          FromCandidate(token, CompositionCandidate(token), "Normalized"),
          IF HasEmphasis(token, EmphasisStart(token))
          THEN FromCandidate(token, EmphasisCandidate(token), "Emphasis") ELSE <<>>,
          IF SingleLetter(token)
          THEN <<SyntheticAnalysis(token, {}, Letter, "Letter")>> ELSE <<>>>>,
        LAMBDA analyses : analyses # <<>>))

(* analyze_token_with_nedoformer_shadow: the lower case text and its       *)
(* deasciified variants, without analyses that say the same.               *)
AnalyzeWithShadow(token) ==
  LET known(analyses, analysis) ==
        \E k \in DOMAIN analyses : /\ analyses[k].dictionary = analysis.dictionary
                                   /\ analyses[k].morphemes = analysis.morphemes
      extend(analyses, found) ==
        IF found = <<>> \/ known(analyses, found[1]) THEN analyses ELSE analyses \o found
      addTo(analyses, candidate) ==
        extend(analyses, FromCandidate(token, candidate, "ShadowDeasciify"))
      shadow(lowered) == FoldLeft(addTo, FromCandidate(token, lowered, "ShadowLower"),
                                  DeasciifyCandidates(lowered))
      analyze(direct) == IF direct # <<>> THEN direct ELSE shadow(LowerCandidate(token))
  IN  analyze(AnalyzeWithFallback(token))
=============================================================================
