--------------------------- MODULE ContextualUnits ---------------------------
(***************************************************************************)
(* The three tokenizer paths over one document after the other: the rich   *)
(* tokenizer (tokenize_with_cache), the flat training encoder              *)
(* (encode_flat_document) and the surface encoder                          *)
(* (append_flat_surface_document), each a worker that keeps its own cache. *)
(* The decoder is any function of the candidates of a segment.             *)
(***************************************************************************)
LOCAL INSTANCE Naturals
LOCAL INSTANCE Sequences
LOCAL INSTANCE SequencesExt
LOCAL INSTANCE FiniteSets
LOCAL INSTANCE TLC
LOCAL INSTANCE LexicalScanner
LOCAL INSTANCE Alignment

CONSTANTS
  Documents, ContinuationDistance, FencedRun, LongLine,
  Lexicon, LongestToken, MaxVariants, Listed,
  Modes,               \* the modes a runtime is opened in
  MaxSentenceTokens,   \* TokenizerConfig::max_sentence_tokens
  MaxFallbackChars,    \* TokenizerConfig::max_fallback_chars
  AnalysisCapacity,    \* analyses a worker retains
  ProgramCapacity,     \* SEGMENT_PROGRAM_CACHE_ENTRIES
  DocumentCapacity,    \* document programs of a surface worker
  MaxDocuments,        \* bound: documents a worker is given
  Disambiguate(_)      \* the chosen candidate of each set of a segment

LOCAL INSTANCE CodeSpans
LOCAL INSTANCE DocumentUnits
LOCAL INSTANCE QualityFallbacks
LOCAL INSTANCE TrainingStreams

ASSUME ContextConstants ==
  /\ MaxSentenceTokens \in Nat \ {0} /\ MaxFallbackChars \in Nat \ {0}
  /\ {AnalysisCapacity, ProgramCapacity, DocumentCapacity, MaxDocuments} \subseteq Nat

VARIABLES mode, contextual, richCache, flatCache, surfaceCache, raw, lexical, code, stage,
          rich, flat, surface, given
caches == <<richCache, flatCache, surfaceCache>>
document == <<raw, lexical, code>>
vars == <<mode, contextual, caches, document, stage, rich, flat, surface, given>>
-----------------------------------------------------------------------------
(* Scanning and splitting. *)
Lexical(text) ==
  FoldLeft(LAMBDA units, i :
             IF units # <<>> /\ Last(units).end >= i THEN units
             ELSE Append(units, NextUnit(text, i - 1)),
           <<>>, [i \in DOMAIN text |-> i])
Hints(text, scanned) ==
  FinishHints(FoldLeft(LAMBDA tracker, unit : Observe(tracker, unit.kind, Bytes(text, unit)),
                       [line |-> LineStart, hints |-> NoHints], scanned))

DocumentCode(text, scanned) ==
  IF mode = "Auto" THEN AutoCodeSpans(text, Hints(text, scanned)) ELSE {}

SplitDocument ==
  IF code = {} THEN SplitUnitByUnit(raw, lexical, mode) ELSE SplitUnits(raw, lexical, code, mode)

SurfaceSplit == IF mode = "Auto" THEN SplitDocument ELSE FixedUnits(raw, lexical, mode)

Sentences(units) == Segments(raw, units, MaxSentenceTokens)
Tokens(units, segment) == [k \in DOMAIN segment |-> Bytes(raw, units[segment[k]])]
Place(segment, i) == CHOOSE k \in DOMAIN segment : segment[k] = i
-----------------------------------------------------------------------------
(* What a worker keeps: a bounded map that is never evicted. *)
Kept(cache, key, value, capacity) ==
  IF key \in DOMAIN cache \/ Cardinality(DOMAIN cache) >= capacity THEN cache
  ELSE key :> value @@ cache
KeepAll(cache, keys, values) ==
  FoldLeft(LAMBDA kept, k : Kept(kept, keys[k], values[k], AnalysisCapacity), cache,
           [k \in DOMAIN keys |-> k])

RichAnalyses(token) == SurfaceValidCandidates(token, AnalyzeWithFallback(token))
FlatAnalyses(token) == BuildFlatAnalysisSet(token, AnalyzeWithFallback(token))
-----------------------------------------------------------------------------
(* The rich path. *)
ApplyAnalysis(unit, token, analysis) ==
  LET shifted(morphemes) ==
        [k \in DOMAIN morphemes |->
           [morphemes[k] EXCEPT !.start = @ + unit.start, !.end = @ + unit.start]]
      apply(completed, aligned) ==
        [unit EXCEPT !.status = "Morphological",
                     !.cuts = {unit.start + cut : cut \in aligned.cuts},
                     !.analysis = <<Metadata(completed, shifted(aligned.morphemes))>>]
      align(completed) == apply(completed, Align(token, completed))
  IN  IF analysis.dictionary = "UNK"
      THEN [unit EXCEPT !.status = "Unknown", !.analysis = <<UnknownMetadata(token, unit)>>]
      ELSE align(CompleteNumericDerivation(token, analysis))

ApplySelected(unit, token, analysis) ==
  LET micro == IF unit.kind = "Number" THEN NumericMicroCuts(token) ELSE {}
  IN  IF unit.kind \in {"Punctuation", "Symbol"} THEN [unit EXCEPT !.status = "Structural"]
      ELSE [ApplyAnalysis(unit, token, analysis) EXCEPT
              !.cuts = @ \cup {unit.start + cut : cut \in micro}]

ApplySegment(state, segment, tokens, sets) ==
  LET selected == IF contextual THEN Disambiguate(sets) ELSE [k \in DOMAIN sets |-> 1]
      apply(unit, k) == ApplySelected(unit, tokens[k], sets[k][selected[k]])
  IN  [units |-> [i \in DOMAIN state.units |->
                    IF i \notin ToSet(segment) THEN state.units[i]
                    ELSE apply(state.units[i], Place(segment, i))],
       cache |-> KeepAll(state.cache, tokens, sets)]

FlushSegment(state, segment) ==
  LET tokens == Tokens(state.units, segment)
      analyses(token) == IF token \in DOMAIN state.cache THEN state.cache[token]
                         ELSE RichAnalyses(token)
  IN  ApplySegment(state, segment, tokens, [k \in DOMAIN tokens |-> analyses(tokens[k])])

FinishRich(state) ==
  [units |-> AssignInnerGroups(raw, SplitLong(raw, state.units, MaxFallbackChars, TRUE)),
   cache |-> state.cache]

AnalyseRich(units) ==
  FinishRich(FoldLeft(FlushSegment, [units |-> units, cache |-> richCache], Sentences(units)))
RichUnits == AnalyseRich(SplitDocument)
-----------------------------------------------------------------------------
(* The flat paths: the same analyses, of which only the cuts are kept.     *)
FlatCandidates(sets) ==
  [k \in DOMAIN sets |-> [c \in DOMAIN sets[k] |-> sets[k][c].analysis]]

SelectedCandidates(sets) ==
  IF contextual /\ \E k \in DOMAIN sets : ~OutputInvariant(sets[k])
  THEN Disambiguate(FlatCandidates(sets)) ELSE [k \in DOMAIN sets |-> 1]

ApplyFlatOutput(unit, token, candidate) ==
  LET micro == IF unit.kind = "Number" THEN NumericMicroCuts(token) ELSE {}
  IN  IF unit.kind \in {"Punctuation", "Symbol"} THEN [unit EXCEPT !.status = "Structural"]
      ELSE [unit EXCEPT !.status = IF candidate.unknown THEN "Unknown" ELSE "Morphological",
                        !.cuts = {unit.start + cut : cut \in candidate.cuts \cup micro}]

FlatSets(entries, tokens) ==
  [k \in DOMAIN tokens |-> IF tokens[k] \in DOMAIN entries THEN entries[tokens[k]]
                           ELSE FlatAnalyses(tokens[k])]

(* Mutant of CaptureSegmentProgram: the cuts are those of the document.    *)
CaptureAbsoluteProgram(units, segment) ==
  [k \in DOMAIN segment |-> [cuts |-> units[segment[k]].cuts,
                             unknown |-> units[segment[k]].status = "Unknown"]]

(* capture_flat_segment_program: cuts relative to their unit.              *)
CaptureSegmentProgram(units, segment) ==
  [k \in DOMAIN segment |->
     LET unit == units[segment[k]]
     IN  [cuts |-> {cut - unit.start : cut \in unit.cuts}, unknown |-> unit.status = "Unknown"]]

ApplySegmentProgram(units, segment, program) ==
  [i \in DOMAIN units |->
     IF i \notin ToSet(segment) THEN units[i]
     ELSE LET k == Place(segment, i)
          IN  [units[i] EXCEPT !.status = IF program[k].unknown THEN "Unknown" ELSE "Morphological",
                               !.cuts = {units[i].start + cut : cut \in program[k].cuts}]]

(* The key of a segment: the kinds and the bytes of its units.             *)
SegmentKey(units, segment) ==
  [k \in DOMAIN segment |-> <<units[segment[k]].kind, Bytes(raw, units[segment[k]])>>]

ApplyFlatSegment(units, segment, tokens, sets, selected) ==
  LET apply(unit, k) == ApplyFlatOutput(unit, tokens[k], sets[k][selected[k]])
  IN  [i \in DOMAIN units |-> IF i \notin ToSet(segment) THEN units[i]
                              ELSE apply(units[i], Place(segment, i))]

AnalyseFlatSegment(state, segment, tokens, sets) ==
  LET keep(units) ==
        [units |-> units,
         cache |-> [entries |-> KeepAll(state.cache.entries, tokens, sets),
                    programs |-> Kept(state.cache.programs, SegmentKey(state.units, segment),
                                      CaptureSegmentProgram(units, segment), ProgramCapacity)]]
  IN  keep(ApplyFlatSegment(state.units, segment, tokens, sets, SelectedCandidates(sets)))

FlushFlatSegment(state, segment) ==
  LET key == SegmentKey(state.units, segment)
      tokens == Tokens(state.units, segment)
  IN  IF key \in DOMAIN state.cache.programs
      THEN [state EXCEPT
              !.units = ApplySegmentProgram(@, segment, state.cache.programs[key])]
      ELSE AnalyseFlatSegment(state, segment, tokens, FlatSets(state.cache.entries, tokens))

FinishFlat(state) ==
  [units |-> SplitLong(raw, state.units, MaxFallbackChars, FALSE), cache |-> state.cache]

AnalyseFlat(units) ==
  FinishFlat(FoldLeft(FlushFlatSegment, [units |-> units, cache |-> flatCache],
                      Sentences(units)))
FlatUnits == AnalyseFlat(SplitDocument)
-----------------------------------------------------------------------------
(* The surface path keeps the cuts of a document in one array; a unit has  *)
(* a range of it.                                                          *)
Sorted(cuts, length) == SelectSeq([i \in 1 .. length |-> i], LAMBDA i : i \in cuts)

(* Mutant of AppendCuts: the cuts of a number are not sorted together with *)
(* those of its analysis, and the range is the longer for it.              *)
AppendCutsUnsorted(arena, relative, micro, length) ==
  arena \o Sorted(relative, length) \o Sorted(micro, length)

(* apply_output: the tail that belongs to the unit is sorted and deduped.  *)
AppendCuts(arena, relative, micro, length) == arena \o Sorted(relative \cup micro, length)

ApplyOutput(state, index, candidate) ==
  LET unit == state.units[index]
      shift(cuts) == {unit.start + cut : cut \in cuts}
      micro == IF unit.kind = "Number" THEN shift(NumericMicroCuts(Bytes(raw, unit))) ELSE {}
      longer == AppendCuts(state.arena, shift(candidate.cuts), micro, Len(raw))
  IN  IF unit.kind \in {"Punctuation", "Symbol"}
      THEN [state EXCEPT !.units[index].status = "Structural"]
      ELSE [state EXCEPT
              !.units[index].status = IF candidate.unknown THEN "Unknown" ELSE "Morphological",
              !.ranges[index] = <<Len(state.arena), Len(longer)>>,
              !.arena = longer]

ApplyOutputs(state, segment, tokens, sets, selected) ==
  [FoldLeft(LAMBDA s, k : ApplyOutput(s, segment[k], sets[k][selected[k]]),
            state, [k \in DOMAIN segment |-> k])
   EXCEPT !.entries = KeepAll(@, tokens, sets)]

FlushSurfaceSegment(state, segment) ==
  LET tokens == Tokens(state.units, segment)
      apply(sets) == ApplyOutputs(state, segment, tokens, sets, SelectedCandidates(sets))
  IN  apply(FlatSets(state.entries, tokens))

(* FlatSurfaceUnit::cuts. *)
RangeCuts(state, index) ==
  SubSeq(state.arena, state.ranges[index][1] + 1, state.ranges[index][2])

FinishSurface(state) ==
  LET cut == [k \in DOMAIN state.units |->
                [state.units[k] EXCEPT !.cuts = ToSet(RangeCuts(state, k))]]
  IN  [units |-> SplitLong(raw, cut, MaxFallbackChars, FALSE), entries |-> state.entries,
       ordered |-> \A k \in DOMAIN cut : RangeCuts(state, k) = Sorted(cut[k].cuts, Len(raw))]

AnalyseSurface(units) ==
  FinishSurface(FoldLeft(FlushSurfaceSegment,
    [units |-> units, arena |-> <<>>, entries |-> surfaceCache.entries,
     ranges |-> [k \in DOMAIN units |-> <<0, 0>>]], Sentences(units)))
SurfaceUnits == AnalyseSurface(SurfaceSplit)
-----------------------------------------------------------------------------
NoOutput == <<>>

Init ==
  /\ mode \in Modes /\ contextual \in BOOLEAN
  /\ richCache = <<>>
  /\ flatCache = [entries |-> <<>>, programs |-> <<>>]
  /\ surfaceCache = [entries |-> <<>>, documents |-> <<>>]
  /\ raw = <<>> /\ lexical = <<>> /\ code = {} /\ stage = "waiting" /\ given = 0
  /\ rich = NoOutput /\ flat = NoOutput /\ surface = NoOutput

(* The three workers are given the next document.  Each scans it by itself *)
(* (document_spans), and they find the same.                               *)
Give ==
  /\ stage \in {"waiting", "surface"} /\ given < MaxDocuments
  /\ raw' \in Documents
  /\ lexical' = Lexical(raw') /\ code' = DocumentCode(raw', lexical')
  /\ stage' = "given" /\ given' = given + 1
  /\ rich' = NoOutput /\ flat' = NoOutput /\ surface' = NoOutput
  /\ UNCHANGED <<mode, contextual, caches>>

(* The workers share nothing, so that one order stands for all.            *)
TokenizeWithCache ==
  /\ stage = "given"
  /\ \E result \in {RichUnits} :
       rich' = result.units /\ richCache' = result.cache
  /\ stage' = "rich"
  /\ UNCHANGED <<mode, contextual, flatCache, surfaceCache, document, flat, surface, given>>

EncodeFlatDocument ==
  /\ stage = "rich"
  /\ \E result \in {FlatUnits} :
       flat' = result.units /\ flatCache' = result.cache
  /\ stage' = "flat"
  /\ UNCHANGED <<mode, contextual, richCache, surfaceCache, document, rich, surface, given>>

(* A document program replays what the document gave before.               *)
AppendFlatSurfaceDocument ==
  /\ stage = "flat"
  /\ \/ /\ raw \in DOMAIN surfaceCache.documents
        /\ surface' = surfaceCache.documents[raw]
        /\ UNCHANGED surfaceCache
     \/ /\ raw \notin DOMAIN surfaceCache.documents
        /\ \E result \in {SurfaceUnits} :
             /\ surface' = [units |-> result.units, ordered |-> result.ordered]
             /\ surfaceCache' = [entries |-> result.entries,
                                 documents |-> Kept(surfaceCache.documents, raw, surface',
                                                    DocumentCapacity)]
  /\ stage' = "surface"
  /\ UNCHANGED <<mode, contextual, richCache, flatCache, document, rich, flat, given>>

Next == Give \/ TokenizeWithCache \/ EncodeFlatDocument \/ AppendFlatSurfaceDocument

Spec == Init /\ [][Next]_vars
-----------------------------------------------------------------------------
(* validate_unit_metadata and validate_analysis_metadata. *)
ValidMorphemes(unit, morphemes) ==
  \A k \in DOMAIN morphemes :
    LET morpheme == morphemes[k]
    IN  /\ unit.start <= morpheme.start /\ morpheme.start <= morpheme.end
        /\ morpheme.end <= unit.end
        /\ k > 1 => morphemes[k - 1].end <= morpheme.start
        /\ (morpheme.surface = <<>>) = (morpheme.start = morpheme.end)

ValidUnit(unit) ==
  /\ <<unit.mode, unit.status>> \in
       ({"Turkish"} \X {"Structural", "Morphological", "Unknown"})
       \cup {<<"Code", "Code">>, <<"Opaque", "Opaque">>}
  /\ (unit.kind \in {"Opaque", "Control"}) = (unit.mode = "Opaque")
  /\ (unit.status \in {"Morphological", "Unknown"}) = (unit.analysis # <<>>)
  /\ unit.analysis # <<>> =>
       /\ unit.analysis[1].morphemes # <<>>
       /\ (unit.status = "Unknown") = (unit.analysis[1].dictionary = "UNK")
       /\ ValidMorphemes(unit, unit.analysis[1].morphemes)

Validate(text, units) ==
  ValidFlatUnits(text, units) /\ \A k \in DOMAIN units : ValidUnit(units[k])

AllOptions == [code : BOOLEAN, unit : BOOLEAN, morpheme : BOOLEAN]
Every == [code |-> TRUE, unit |-> TRUE, morpheme |-> TRUE]
-----------------------------------------------------------------------------
(* The rich tokenizer always has a document to return: the checks of       *)
(* TokenizedDocument::new never fail on what it has put together, and the  *)
(* two writers of its training stream write the same tokens.               *)
RichValidates ==
  stage = "rich" =>
    /\ Validate(raw, rich)
    /\ EncodeTrainingUnits(raw, rich, FALSE, Every) =
         [ok |-> TRUE, tokens |-> EncodeDocument(raw, rich)]

None == [code |-> FALSE, unit |-> FALSE, morpheme |-> FALSE]
AsBytes(tokens) ==
  FlattenSeq([k \in DOMAIN tokens |->
    IF tokens[k].token # "char" THEN <<tokens[k]>>
    ELSE [i \in 1 .. tokens[k].width |-> [tokens[k] EXCEPT !.token = "byte", !.width = 1]]])

(* The stream of the rich path is "the exact reference that future         *)
(* metadata-free/flat tokenizer paths must match" (training.rs), for every *)
(* choice of boundaries.                                                   *)
FlatMatchesReference ==
  stage = "flat" => \A newline \in BOOLEAN, options \in AllOptions :
    EncodeTrainingUnits(raw, flat, newline, options) =
      EncodeTrainingUnits(raw, rich, newline, options)

(* Whether the document has a number in letters, like IX'uncu, of which    *)
(* the morphology leaves the derivation to be completed.  The flat paths   *)
(* complete no token without a numeral character.                          *)
NumberInLetters ==
  \E token \in {Bytes(raw, unit) : unit \in ToSet(rich)} :
    /\ ToSet(token) \cap Numeral = {}
    /\ \E analysis \in ToSet(AnalyzeWithFallback(token)) :
         CompleteNumericDerivation(token, analysis) # analysis

(* But for those, the flat training encoder gives the stream of the rich   *)
(* reference, whatever its worker keeps from earlier documents; without    *)
(* boundaries it is the stream of the characters, and that one the stream  *)
(* of the bytes, of any document.                                          *)
StreamsAgree ==
  stage = "flat" => \A newline \in BOOLEAN :
    /\ ~NumberInLetters => \A options \in AllOptions :
         EncodeTrainingUnits(raw, flat, newline, options) =
           EncodeTrainingUnits(raw, rich, newline, options)
    /\ EncodeTrainingUnits(raw, flat, newline, None) = EncodeCharacters(raw, newline)
    /\ AsBytes(EncodeCharacters(raw, newline).tokens) = EncodeBytes(raw, newline).tokens

(* The surface encoder has the units of the rich tokenizer, with their     *)
(* kinds, modes, statuses and cuts, but for numbers in letters; the cuts   *)
(* of a unit are always in order.                                          *)
SurfaceAgrees ==
  stage = "surface" =>
    LET bare(unit) == [unit EXCEPT !.analysis = <<>>, !.group = 0]
    IN  /\ surface.ordered
        /\ ~NumberInLetters => surface.units = [k \in DOMAIN rich |-> bare(rich[k])]

(* What a fallback recovers reaches the output: the analysis it makes up   *)
(* aligns to the token it is for, with the cuts it was made from, and      *)
(* parts no letter from its mark.  Tokens with an apostrophe or the dots   *)
(* of an abbreviation are left out: there the alignment skips characters   *)
(* that the analysis spells.                                               *)
FallbackCutsSurvive ==
  stage = "rich" => \A token \in {Bytes(raw, unit) : unit \in ToSet(lexical)} :
    LET pieces(morphemes) == [k \in DOMAIN morphemes |-> Len(morphemes[k].surface)]
        ends(lengths) == {FoldLeft(LAMBDA sum, n : sum + n, 0, SubSeq(lengths, 1, k)) :
                            k \in DOMAIN lengths}
        survives(aligned, cuts) == /\ aligned.ok /\ aligned.cuts = cuts \ {Len(token)}
                                   /\ \A cut \in cuts : At(token, cut + 1) # "mark"
        recovered(analysis) == survives(Align(token, analysis), ends(pieces(analysis.morphemes)))
    IN  \/ AnalyzeToken(token) # <<>>
        \/ ToSet(token) \cap Apostrophe # {} \/ IsDottedAbbreviation(token)
        \/ \A analyses \in {AnalyzeWithShadow(token)} :
             analyses # <<>> => recovered(Head(analyses))
=============================================================================
