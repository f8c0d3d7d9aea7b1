--------------------------- MODULE MorphologyRuntime ---------------------------
(***************************************************************************)
(* The native morphology runtime: one call at a time analyses a token or   *)
(* generates the forms of a dictionary item, by breadth first searches of  *)
(* the morphology graph under limits.  A token is tried as it is, then as  *)
(* a web address, a Roman numeral, a dotted abbreviation, a numeral and a  *)
(* proper name, until something is found; each attempt searches one text   *)
(* or more and reads the paths found its own way.                          *)
(*                                                                         *)
(* A path is [history, dictionary, stem, tail, bits, derivation, suffix,   *)
(* consumed]: its nodes [state, morpheme, surface, derivative] with the    *)
(* stem first, how many characters it has read, the sounds it asks for,    *)
(* and how many of the requested morphemes it has met.                     *)
(***************************************************************************)
EXTENDS MorphologyTables, TokenForms
LOCAL INSTANCE Naturals
LOCAL INSTANCE Sequences
LOCAL INSTANCE FiniteSets
LOCAL INSTANCE SequencesExt
LOCAL INSTANCE LexicalScanner
LOCAL INSTANCE Phonology

CONSTANTS
  Calls,        \* the calls made, with their limits
  Formulas      \* conditions beside those of the edges, for the machine

VARIABLES
  call,         \* the call under way, or the last one
  stage,        \* the attempt under way, or how the call ended
  search,       \* the search under way
  found,        \* the readings of the texts the attempt has searched
  result,       \* what the call returned
  form          \* the generated reading whose form is being analysed

vars == <<call, stage, search, found, result, form>>

Attempts == <<"static", "url", "roman", "abbreviation", "numeral", "proper">>
Ended == {"done", "failed"}
NoCall == [kind |-> "none"]
NoForm == [form |-> <<>>]
-----------------------------------------------------------------------------
(* The texts an attempt searches, none when it does not apply.             *)
Original == NormalizeApostrophes(call.token)
Lowered(text) == NormalizeCircumflex(TurkishLower(text))

StaticTexts ==
  LET Of(text) == CASE ~HasApostrophe(text) -> <<text>>
                    [] ApostropheInside(text) -> <<StemOf(text) \o EndingOf(text)>>
                    [] OTHER -> <<>>
  IN  Of(NormalizeForAnalysis(call.token))

UrlRoot ==
  IF HasApostrophe(Original) THEN WithoutDots(Lowered(StemOf(Original))) ELSE Lowered(Original)
AbbreviationRoot == WithoutDots(Lowered(StemOf(Original)))
ProperStem == WithoutDots(NormalizeRuntimeComponent(StemOf(TurkishLower(Original))))

(* How the root of an attempt sounds; nothing when it cannot be said. *)
Pronunciation(attempt) ==
  LET Said(text) == IF HasVowel(text) THEN text ELSE <<>>
      Spelled(root) == IF HasVowel(root) THEN root ELSE LetterPronunciations(root)
  IN  Said(CASE attempt = "url" -> SelectSeq(UrlRoot, LAMBDA char : char \in TurkishAlphabet)
             [] attempt = "abbreviation" -> Spelled(AbbreviationRoot)
             [] OTHER -> ProperStem)

(* The stem that stands for a name the dictionary lacks, 0 for none.       *)
Candidate(attempt) ==
  LET Sounding(said) ==
        IF said = <<>> THEN 0
        ELSE NounStateCandidate(MorphemicAttributes(said, {}),
                                IF attempt = "abbreviation" THEN "nounAbbrv_S" ELSE "nounProper_S")
  IN  Sounding(Pronunciation(attempt))
NounLikeTexts(attempt, ending) ==
  LET By(candidate) == IF candidate = 0 THEN <<>> ELSE <<StemTable[candidate].text \o ending>>
  IN  By(Candidate(attempt))

RomanTexts ==
  LET stem == StemOf(Original)
  IN  <<NumeralText(NumberEndingValue(RomanToDecimal(RomanNumeral(Original))),
                    Last(stem) = ".", Lowered(EndingOf(Original)))>>

Numeral == SplitNumeral(TurkishLower(Original))
NumeralTexts ==
  LET Digits(stem) == SubSeq(stem, 1, SelectLastInSeq(stem, LAMBDA char : char # "."))
      Of(numeral, value) ==
        IF NumeralKinds(numeral.stem) = <<>> \/ value = NoLemma THEN <<>>
        ELSE <<NumeralText(value, Last(numeral.stem) = ".", numeral.ending)>>
  IN  Of(Numeral, NumeralEndingValue(Digits(Numeral.stem)))

ProperTexts ==
  LET Both(candidate, ending) ==
        IF candidate = 0 THEN <<>>
        ELSE <<StemTable[candidate].text \o ending, ProperStem \o ending>>
  IN  Both(Candidate("proper"), NormalizeRuntimeComponent(EndingOf(TurkishLower(Original))))

Texts(attempt) ==
  CASE attempt = "static" -> StaticTexts
    [] attempt = "url" /\ IsUrl(Original) -> NounLikeTexts("url", Lowered(EndingOf(Original)))
    [] attempt = "roman" /\ IsRoman(Original) -> RomanTexts
    [] attempt = "abbreviation" /\ IsDottedAbbreviation(Original) /\ ApostropheInside(Original) ->
         NounLikeTexts("abbreviation", Lowered(EndingOf(Original)))
    [] attempt = "numeral" /\ ToSet(Original) \cap Digit # {} -> NumeralTexts
    [] attempt = "proper" /\ ApostropheInside(Original) -> ProperTexts
    [] OTHER -> <<>>
-----------------------------------------------------------------------------
(* A finished path as an analysis: a dummy item gives way to its reference, *)
(* the nominative and the missing possessive are not said.                 *)
ItemId(id) == [item |-> id, lemma |-> <<>>]
Materialize(path, text) ==
  LET source == Dictionary[path.dictionary]
      id == IF "Dummy" \in source.attributes THEN source.reference ELSE path.dictionary
      nodes == path.history
      Said(list) == SelectSeq(list, LAMBDA node : node.morpheme \notin {"Nom", "Pnon"})
      said == Said(nodes)
      after == Said(Tail(nodes))
  IN  [id |-> ItemId(id), pos |-> Dictionary[id].pos, secondary |-> Dictionary[id].secondary,
       form |-> text, stem |-> Head(nodes).surface,
       ending |-> FlattenSeq([i \in DOMAIN after |-> after[i].surface]),
       morphemes |-> [i \in DOMAIN said |-> [id |-> said[i].morpheme, surface |-> said[i].surface]]]

Canonical(analysis) == <<analysis.id, analysis.morphemes>>
Deduplicated(analyses) ==
  FoldLeft(LAMBDA kept, analysis :
             IF Canonical(analysis) \in {Canonical(kept[i]) : i \in DOMAIN kept} THEN kept
             ELSE Append(kept, analysis),
           <<>>, analyses)

(* The root of an analysis becomes the one of the token. *)
Rewritten(analysis, lemma, pos, secondary, stem) ==
  [analysis EXCEPT !.id = [item |-> secondary, lemma |-> lemma], !.pos = pos,
                   !.secondary = secondary, !.stem = stem,
                   !.form = stem \o analysis.ending, !.morphemes[1].surface = stem]

(* Mutant of NounLike: any stem of the candidate's text will do.           *)
NounLikeOfAnyStem(attempt, analyses, lemma, root) ==
  [i \in DOMAIN analyses |->
     Rewritten(analyses[i], lemma, "Noun",
               CASE attempt = "url" -> "Url" [] attempt = "proper" -> "Prop" [] OTHER -> "Abbrv",
               root)]

(* Only the readings of the candidate itself are rewritten.                *)
NounLike(attempt, analyses, lemma, root) ==
  LET Own(candidate) ==
        SelectSeq(analyses, LAMBDA analysis :
          analysis.id = ItemId(candidate.dictionary) /\ analysis.stem = candidate.text)
      secondary == CASE attempt = "url" -> "Url" [] attempt = "proper" -> "Prop" [] OTHER -> "Abbrv"
      Renamed(own) ==
        [i \in DOMAIN own |-> Rewritten(own[i], lemma, "Noun", secondary, root)]
  IN  Renamed(Own(StemTable[Candidate(attempt)]))

Numbers(analyses) == SelectSeq(analyses, LAMBDA analysis : analysis.pos = "Num")
Counted(analyses, kind, stem) ==
  [i \in DOMAIN analyses |-> Rewritten(analyses[i], stem, "Num", kind, stem)]

StaticReadings(analyses) ==
  LET Of(text) ==
        IF ~HasApostrophe(text) THEN analyses
        ELSE SelectSeq(analyses, LAMBDA analysis :
               /\ analysis.pos = "Noun"
               /\ \/ analysis.stem = StemOf(text)
                  \/ \E i \in DOMAIN analysis.morphemes : analysis.morphemes[i].id = "P3sg")
  IN  Of(NormalizeForAnalysis(call.token))

Readings(attempt, answers) ==
  LET Kinds(kinds, stem) ==
        Deduplicated(FlattenSeq([k \in DOMAIN kinds |->
          Counted(Numbers(answers[1]), kinds[k], stem)]))
      url == IF HasApostrophe(Original) THEN StemOf(Original) ELSE Lowered(Original)
  IN  CASE attempt = "static" -> StaticReadings(answers[1])
        [] attempt = "url" -> Deduplicated(NounLike("url", answers[1], url, UrlRoot))
        [] attempt = "roman" ->
             Deduplicated(Counted(Numbers(answers[1]), "RomanNumeral", StemOf(Original)))
        [] attempt = "abbreviation" ->
             Deduplicated(NounLike(attempt, answers[1], TurkishCapitalize(Original),
                                   AbbreviationRoot))
        [] attempt = "numeral" ->
             Kinds(NumeralKinds(Numeral.stem), Numeral.stem)
        [] attempt = "proper" ->
             Deduplicated(NounLike(attempt, answers[1], TurkishCapitalize(Original), ProperStem)
                            \o SelectSeq(answers[2], LAMBDA a : a.stem = ProperStem))
        [] attempt = "generate" -> Deduplicated(answers[1])
-----------------------------------------------------------------------------
(* Searching.  [text, status, nodes, current, next, accepted]: the nodes    *)
(* allocated, the paths of this layer still to look at, those of the next   *)
(* layer, and the finished ones.                                           *)
NoSearch == [text |-> <<>>, status |-> "none", nodes |-> 0, current |-> <<>>, next |-> <<>>,
             accepted |-> <<>>]
Limits == call.limits
Generating == call.kind = "generate"
Requested == IF Generating THEN call.morphemes ELSE <<>>

StemPath(entry, surface, tail) ==
  LET state == StateNamed[entry.state]
  IN  [history |-> <<[state |-> state.key, morpheme |-> state.morpheme, surface |-> surface,
                      derivative |-> state.derivative]>>,
       dictionary |-> entry.dictionary, stem |-> surface, tail |-> tail, bits |-> entry.bits,
       derivation |-> FALSE, suffix |-> FALSE,
       consumed |-> IF Requested # <<>> /\ Head(Requested) = state.morpheme THEN 1 ELSE 0]

InitialPaths(text) ==
  LET Generated(stems, chosen) ==
        [k \in DOMAIN chosen |-> StemPath(stems[chosen[k]], stems[chosen[k]].text, 0)]
      Beginning(stems, prefix) ==
        [k \in 1 .. (prefix.range.end - prefix.range.start) |->
           StemPath(stems[prefix.range.start + k], SubSeq(text, 1, prefix.end), prefix.end)]
      Analysed(stems, prefixes) == FlattenSeq([p \in DOMAIN prefixes |-> Beginning(stems, prefixes[p])])
  IN  IF Generating THEN Generated(StemTable, CandidateStems(call.dictionary))
      ELSE Analysed(StemTable, PrefixRanges(text))

(* A layer is searched when it is smaller than the limit. *)
LayerStatus(paths) == IF Len(paths) >= Limits.active THEN "failed" ELSE "running"
Begin(text) ==
  LET From(paths) ==
        [text |-> text, nodes |-> Len(paths), current |-> paths, next |-> <<>>, accepted |-> <<>>,
         status |-> IF Len(paths) > Limits.nodes THEN "failed" ELSE LayerStatus(paths)]
  IN  From(InitialPaths(text))

TailOf(path) == SubSeq(search.text, path.tail + 1, Len(search.text))
Finished(path) ==
  /\ IF Generating THEN path.consumed = Len(Requested) ELSE TailOf(path) = <<>>
  /\ StateNamed[Last(path.history).state].terminal
  /\ "CannotTerminate" \notin path.bits

(* Does the edge lead anywhere before its sounds are known? *)
Fits(path, edge) ==
  LET wanted == path.consumed < Len(Requested) /\ Requested[path.consumed + 1] = edge.morpheme
  IN  edge.template = <<>> \/ (IF Generating THEN wanted ELSE TailOf(path) # <<>>)
HasTail(path) == Generating \/ TailOf(path) # <<>>

Extended(path, edge, surface) ==
  LET state == StateNamed[edge.to]
      wanted == path.consumed < Len(Requested) /\ Requested[path.consumed + 1] = edge.morpheme
  IN  [path EXCEPT
         !.history = Append(@, [state |-> edge.to, morpheme |-> edge.morpheme,
                                surface |-> surface, derivative |-> state.derivative]),
         !.tail = IF Generating THEN 0 ELSE @ + Len(surface),
         !.bits = IF Generating THEN GeneratedPhoneticBits(@, surface, edge.template)
                  ELSE NextPhoneticBits(@, TailOf(path), surface, edge.template),
         !.derivation = @ \/ state.derivative,
         !.suffix = @ \/ surface # <<>>,
         !.consumed = IF wanted THEN @ + 1 ELSE @]

(* Mutant of NodesAfter: a suffix without a sound is free.                 *)
NodesAfterSounds(state, surface) == IF surface = <<>> THEN state.nodes ELSE state.nodes + 1

(* Every node of a path counts, whether it adds a sound or not.            *)
NodesAfter(state, surface) == state.nodes + 1

(* One edge of a path: [status, nodes, next].  Analysis realises a suffix   *)
(* before it asks the condition, generation after.                         *)
Passes(path, edge) == edge.program = <<>> \/ Evaluate(edge.program, path, HasTail(path)).value
TryEdge(state, path, edge) ==
  LET Try(surface, passes) ==
        CASE Generating /\ ~passes -> state
          [] surface = NoHarmony -> [state EXCEPT !.status = "failed"]
          [] ~(Generating \/ (IsPrefix(surface, TailOf(path)) /\ passes)) -> state
          [] state.nodes >= Limits.nodes \/ Len(state.next) >= Limits.active ->
               [state EXCEPT !.status = "failed"]
          [] OTHER -> [state EXCEPT !.nodes = NodesAfter(state, surface),
                                    !.next = Append(@, Extended(path, edge, surface))]
  IN  IF state.status = "failed" \/ ~Fits(path, edge) THEN state
      ELSE Try(GenerateSurface(edge.template, path.bits), Passes(path, edge))

EdgesFrom(key) == SubSeq(EdgeTable, EdgeRange[key].start + 1, EdgeRange[key].end)

(* Mutant of AllEdges: each path starts the next layer anew.               *)
AllEdgesAnew(path) ==
  FoldLeft(LAMBDA state, edge : TryEdge(state, path, edge),
           [status |-> "running", nodes |-> search.nodes, next |-> <<>>],
           EdgesFrom(Last(path.history).state))

AllEdges(path) ==
  FoldLeft(LAMBDA state, edge : TryEdge(state, path, edge),
           [status |-> "running", nodes |-> search.nodes, next |-> search.next],
           EdgesFrom(Last(path.history).state))
-----------------------------------------------------------------------------
Init ==
  /\ call = NoCall
  /\ stage = "done"
  /\ search = NoSearch
  /\ found = <<>>
  /\ result = <<>>
  /\ form = NoForm

(* The first attempt from there on that searches a text, or the end. *)
RECURSIVE Attempt(_)
Attempt(from) ==
  IF from > Len(Attempts) THEN 0
  ELSE IF Texts(Attempts[from]) # <<>> THEN from ELSE Attempt(from + 1)
Turn(from) ==
  /\ \E i \in {Attempt(from)} :
       \/ i = 0 /\ stage' = "done" /\ search' = NoSearch
       \/ i # 0 /\ stage' = Attempts[i] /\ search' \in {Begin(Head(Texts(Attempts[i])))}
  /\ result' = <<>>

Known(request) ==
  request.kind = "generate" =>
    /\ request.dictionary \in ToSet(DictionaryIds)
    /\ \A k \in DOMAIN request.morphemes : request.morphemes[k] \in Morphemes

(* analyze_token_with_limits, generate_with_limits: what is wrong with the *)
(* call itself is seen before any search.                                  *)
Ask ==
  /\ stage \in Ended
  /\ \E request \in Calls :
       /\ call' = request
       /\ stage' = IF Known(request) /\ 0 \notin {request.limits.active, request.limits.nodes,
                                                  request.limits.results}
                   THEN "asked" ELSE "failed"
  /\ search' = NoSearch /\ found' = <<>> /\ result' = <<>> /\ form' = NoForm

(* A caller analyses a form it was given. *)
AskBack ==
  /\ stage = "done" /\ call.kind = "generate"
  /\ \E k \in DOMAIN result :
       /\ form' = result[k]
       /\ call' = [kind |-> "analyze", token |-> result[k].form, limits |-> call.limits]
  /\ stage' = "asked" /\ search' = NoSearch /\ found' = <<>> /\ result' = <<>>

Start ==
  /\ stage = "asked"
  /\ IF Generating THEN stage' = "generate" /\ search' = Begin(<<>>) /\ result' = <<>>
     ELSE Turn(1)
  /\ UNCHANGED <<call, found, form>>

Running == stage \notin Ended /\ search.status = "running"

(* A path that reads the whole text in a state where a word may end goes   *)
(* no further.                                                             *)
Accept ==
  /\ Running /\ search.current # <<>> /\ Finished(Head(search.current))
  /\ search' = IF Len(search.accepted) >= Limits.results THEN [search EXCEPT !.status = "failed"]
               ELSE [search EXCEPT !.accepted = Append(@, Head(search.current)),
                                   !.current = Tail(@)]
  /\ UNCHANGED <<call, stage, found, result, form>>

(* Any other takes every edge it can. *)
Advance ==
  /\ Running /\ search.current # <<>> /\ ~Finished(Head(search.current))
  /\ \E end \in {AllEdges(Head(search.current))} :
       search' = [search EXCEPT !.status = end.status, !.nodes = end.nodes, !.next = end.next,
                                  !.current = Tail(@)]
  /\ UNCHANGED <<call, stage, found, result, form>>

NextLayer ==
  /\ Running /\ search.current = <<>> /\ search.next # <<>>
  /\ search' = [search EXCEPT !.current = search.next, !.next = <<>>,
                              !.status = LayerStatus(search.next)]
  /\ UNCHANGED <<call, stage, found, result, form>>

Complete == Running /\ search.current = <<>> /\ search.next = <<>>
Said(path) == FlattenSeq([i \in DOMAIN path.history |-> path.history[i].surface])
Answers ==
  Append(found, [k \in DOMAIN search.accepted |->
                   Materialize(search.accepted[k],
                               IF Generating THEN Said(search.accepted[k]) ELSE search.text)])

(* The next text of the attempt, or what the attempt found, or the next attempt. *)
Conclude ==
  /\ Complete
  /\ \E texts \in {IF Generating THEN <<<<>>>> ELSE Texts(stage)} :
       IF Len(Answers) < Len(texts)
       THEN /\ search' = Begin(texts[Len(Answers) + 1])
            /\ found' = Answers
            /\ UNCHANGED <<stage, result>>
       ELSE \E readings \in {Readings(stage, Answers)} :
              /\ found' = <<>>
              /\ IF readings # <<>> \/ Generating
                 THEN stage' = "done" /\ result' = readings /\ search' = NoSearch
                 ELSE Turn(SelectInSeq(Attempts, LAMBDA a : a = stage) + 1)
  /\ UNCHANGED <<call, form>>

Fail ==
  /\ stage \notin Ended /\ search.status = "failed"
  /\ stage' = "failed" /\ search' = NoSearch /\ found' = <<>>
  /\ UNCHANGED <<call, result, form>>

Work == Start \/ Accept \/ Advance \/ NextLayer \/ Conclude \/ Fail
Next == Ask \/ AskBack \/ Work
Spec == Init /\ [][Next]_vars
-----------------------------------------------------------------------------
(* What the graph of the bundle says, depth first: the ways to finish a    *)
(* path that no shorter way finishes.                                      *)
Leads(path, i) ==
  LET edge == Edges[i]
      surface == GenerateSurface(edge.template, path.bits)
  IN  /\ edge.owner = Last(path.history).state
      /\ Fits(path, edge)
      /\ edge.condition # NoCondition => Holds(edge.condition, path, HasTail(path))
      /\ Generating \/ IsPrefix(surface, TailOf(path))
RECURSIVE Completions(_)
Completions(path) ==
  IF Finished(path) THEN {path}
  ELSE UNION {Completions(Extended(path, Edges[i], GenerateSurface(Edges[i].template, path.bits)))
                : i \in {j \in DOMAIN Edges : Leads(path, j)}}
Roots ==
  {IF Generating THEN StemPath(Stems[i], Stems[i].surface, 0)
   ELSE StemPath(Stems[i], Stems[i].surface, Len(Stems[i].surface))
     : i \in {j \in DOMAIN Stems : IF Generating THEN Stems[j].dictionary = call.dictionary
                                   ELSE IsPrefix(Stems[j].surface, search.text)}}

(* A search that ends without hitting a limit has found every way through  *)
(* the graph of the bundle and no other, whatever was compiled in between: *)
(* the run of edges of a state, the condition programs, the stem tables.   *)
SearchIsComplete == Complete => ToSet(search.accepted) = UNION {Completions(root) : root \in Roots}

(* A valid bundle compiles to tables the validator accepts, and the stems   *)
(* of a text are the same by the prefix index, by binary search and in the *)
(* bundle.                                                                 *)
TablesAgree ==
  Running => /\ BundleValid => BinaryValid /\ PrefixIndex.ok
             /\ \A p \in DOMAIN PrefixRanges(search.text) :
                  LET prefix == PrefixRanges(search.text)[p]
                      text == SubSeq(search.text, 1, prefix.end)
                  IN  /\ StemMatches(text) = prefix.range
                      /\ prefix.range.end - prefix.range.start =
                           Cardinality({i \in DOMAIN Stems : Stems[i].surface = text})

(* The machine that runs a condition agrees with the formula of the bundle *)
(* at every path, also past the Booleans it keeps without allocating, and   *)
(* both counts of its conditions are the same.                             *)
EveryCondition ==
  {[of |-> Edges[i].condition] : i \in {j \in DOMAIN Edges : Edges[j].condition # NoCondition}}
    \cup {[of |-> formula] : formula \in Formulas}
ConditionsAgree ==
  Running /\ search.current # <<>> =>
    \A condition \in EveryCondition :
      LET path == Head(search.current)
          program == Compile(condition.of)
      IN  /\ WellFormed(condition.of) =>
               Validated(program) = [ok |-> TRUE, count |-> ZemberekCount(condition.of)]
          /\ Evaluate(program, path, HasTail(path)) =
               [ok |-> TRUE, value |-> Holds(condition.of, path, HasTail(path))]

(* The form of a generated reading, analysed as a token, has that reading. *)
FormsAnalyseBack ==
  stage = "done" /\ form # NoForm =>
    Canonical(form) \in {Canonical(result[k]) : k \in DOMAIN result}

(* A name that is analysed by way of a stem of the same sounds is still    *)
(* spelled as in the token; a numeral keeps its digits and an ending of    *)
(* the token (its middle may be read as part of the number word).          *)
Plain(text) ==
  NormalizeRuntimeComponent(SelectSeq(WithoutDots(text), LAMBDA char : char \notin Apostrophe))
RuntimeReadingsSpellToken ==
  stage = "done" /\ call.kind = "analyze" =>
    \A k \in DOMAIN result :
      LET reading == result[k]
      IN  CASE reading.id.item \in {"Url", "Abbrv", "Prop"} -> Plain(reading.form) = Plain(call.token)
            [] reading.pos = "Num" /\ reading.id.lemma # <<>> ->
                 /\ IsPrefix(reading.stem, call.token)
                 /\ IsSuffix(reading.ending, Lowered(call.token))
            [] OTHER -> TRUE

(* Every step of a call brings it nearer to its end, also in a graph with  *)
(* a cycle that reads nothing, where only the nodes it allocates stop it:   *)
(* fewer attempts are left, or fewer texts, or less of the search.         *)
AttemptsLeft ==
  CASE stage = "asked" -> Len(Attempts) + 1
    [] stage \in Ended -> 0
    [] stage = "generate" -> 1
    [] OTHER -> 1 + Len(Attempts) - SelectInSeq(Attempts, LAMBDA a : a = stage)
Left ==
  <<AttemptsLeft, 2 - Len(found), IF search.status = "running" THEN 1 ELSE 0,
    IF stage \in Ended \/ search = NoSearch THEN 0
    ELSE 4 * (Limits.nodes - search.nodes) + 2 * Len(search.current) + 3 * Len(search.next)>>
Nearer(new, old) ==
  \E i \in DOMAIN old : new[i] < old[i] /\ \A j \in 1 .. (i - 1) : new[j] = old[j]
CallsAdvance == [][stage \notin Ended => Nearer(Left', Left)]_vars
=============================================================================
