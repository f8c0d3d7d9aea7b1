---------------------------- MODULE DocumentUnits ----------------------------
(***************************************************************************)
(* From the lexical units of a document to the units of the tokenizer:     *)
(* split_units and its two flat forms, the sentences that are analysed     *)
(* together, the pieces of long units, and the groups of clitics.          *)
(*                                                                         *)
(* A unit is [start, end, kind, mode, status, cuts, analysis, group]; cuts  *)
(* is the set of its cuts, in characters of the document, analysis a       *)
(* sequence of at most one analysis, and group is zero for none.           *)
(***************************************************************************)
LOCAL INSTANCE Naturals
LOCAL INSTANCE Sequences
LOCAL INSTANCE SequencesExt
LOCAL INSTANCE LexicalScanner
LOCAL INSTANCE Alignment

CONSTANTS ContinuationDistance, FencedRun, LongLine
LOCAL INSTANCE CodeSpans

AsciiPrintable == AsciiPunctuation \cup OperatorStart \cup ToSet(Chars("#$@_~"))

EffectiveMode(span, kind, codeSpans, requested) ==
  CASE kind \in {"Opaque", "Control"} -> "Opaque"
    [] requested # "Auto" /\ kind \notin {"Opaque", "Control"} -> requested
    [] OTHER -> IF \E code \in codeSpans : code.start <= span.start /\ span.end <= code.end
                THEN "Code" ELSE "Turkish"

InitialStatus(mode) == IF mode = "Turkish" THEN "Structural" ELSE mode

NewUnit(span, kind, mode) ==
  [start |-> span.start, end |-> span.end, kind |-> kind, mode |-> mode,
   status |-> InitialStatus(mode), cuts |-> {}, analysis |-> <<>>, group |-> 0]

(* Punctuation is taken apart, and so are the symbols of prose.            *)
SplitsScalars(text, kind, mode) ==
  \/ kind = "Punctuation"
  \/ mode = "Turkish" /\ kind = "Symbol" /\ ToSet(text) \subseteq AsciiPrintable

(* Where a lexical unit is split: its ends, its scalars, its identifiers.  *)
UnitBoundaries(raw, unit, codeSpans, requested) ==
  LET mode == EffectiveMode(unit, unit.kind, codeSpans, requested)
      text == Bytes(raw, unit)
  IN  {unit.start, unit.end}
      \cup (IF SplitsScalars(text, unit.kind, mode) THEN unit.start .. unit.end ELSE {})
      \cup (IF mode = "Code" /\ unit.kind \in {"Word", "Number"}
            THEN {unit.start + cut : cut \in IdentifierCuts(text)} ELSE {})

(* The spans between boundaries up to the length, in order. *)
Windows(boundaries, length) ==
  LET sorted == SelectSeq([i \in 1 .. length + 1 |-> i - 1], LAMBDA i : i \in boundaries)
  IN  [k \in 1 .. Len(sorted) - 1 |-> [start |-> sorted[k], end |-> sorted[k + 1]]]

(* With code spans: all boundaries at once, and each piece has the kind of *)
(* the unit it lies in.                                                    *)
SplitUnits(raw, lexical, codeSpans, requested) ==
  LET boundaries ==
        UNION {UnitBoundaries(raw, unit, codeSpans, requested) : unit \in ToSet(lexical)}
        \cup UNION {{span.start, span.end} : span \in codeSpans}
      source(span) == CHOOSE k \in DOMAIN lexical :
                        lexical[k].start <= span.start /\ span.start < lexical[k].end
      piece(span) == LET kind == lexical[source(span)].kind
                     IN  NewUnit(span, kind, EffectiveMode(span, kind, codeSpans, requested))
      pieces(windows) == [k \in DOMAIN windows |-> piece(windows[k])]
  IN  pieces(Windows(boundaries, Len(raw)))

(* Without code spans: one unit after the other. *)
SplitUnitByUnit(raw, lexical, requested) ==
  LET split(windows, kind, mode) == [k \in DOMAIN windows |-> NewUnit(windows[k], kind, mode)]
  IN  FoldLeft(LAMBDA pieces, unit :
        pieces \o split(Windows(UnitBoundaries(raw, unit, {}, requested), unit.end), unit.kind,
                        EffectiveMode(unit, unit.kind, {}, requested)),
        <<>>, lexical)

(* for_each_fixed_unit: the stream of the surface path when the mode is    *)
(* fixed; prose needs no boundaries, only scalars.                         *)
FixedUnits(raw, lexical, requested) ==
  IF requested = "Code" THEN SplitUnitByUnit(raw, lexical, requested)
  ELSE FoldLeft(LAMBDA pieces, unit :
         LET mode == EffectiveMode(unit, unit.kind, {}, requested)
             scalar(k) == [start |-> unit.start + k - 1, end |-> unit.start + k]
         IN  pieces \o
             IF SplitsScalars(Bytes(raw, unit), unit.kind, mode)
             THEN [k \in 1 .. unit.end - unit.start |-> NewUnit(scalar(k), unit.kind, mode)]
             ELSE <<NewUnit(unit, unit.kind, mode)>>,
         <<>>, lexical)
-----------------------------------------------------------------------------
(* The indices of the units that are analysed together: sentences of the   *)
(* prose on one line, of at most `longest` units.                          *)
IsSentenceBoundary(raw, unit) ==
  unit.kind = "Punctuation" /\ Bytes(raw, unit) \in {<<".">>, <<"!">>, <<"?">>}

Segments(raw, units, longest) ==
  LET close(state) == IF state.open = <<>> THEN state
                      ELSE [open |-> <<>>, closed |-> Append(state.closed, state.open)]
      take(state, k) ==
        LET unit == units[k]
            longer == [state EXCEPT !.open = Append(@, k)]
        IN  CASE unit.mode # "Turkish" \/ unit.kind \in {"LineBreak", "Control", "Opaque"} ->
                   close(state)
              [] unit.mode = "Turkish" /\ unit.kind = "Whitespace" -> state
              [] OTHER -> IF IsSentenceBoundary(raw, unit) \/ Len(longer.open) >= longest
                          THEN close(longer) ELSE longer
  IN  close(FoldLeft(take, [open |-> <<>>, closed |-> <<>>], [k \in DOMAIN units |-> k])).closed
-----------------------------------------------------------------------------
(* Pieces of `maximum` characters, the last one what is left.              *)
ChunkSpan(span, maximum) ==
  LET count == (span.end - span.start + maximum - 1) \div maximum
      end(k) == span.start + k * maximum
  IN  [k \in 1 .. count |-> [start |-> end(k - 1),
                             end |-> IF end(k) > span.end THEN span.end ELSE end(k)]]

(* split_long_fallback_units and its flat forms: a unit without an         *)
(* analysis is cut to pieces; only the rich path says what they are.       *)
SplitLong(raw, units, maximum, rich) ==
  LET split(unit) == \/ unit.status \in {"Unknown", "Code"}
                     \/ unit.mode = "Opaque"
      piece(unit, span) ==
        [unit EXCEPT !.start = span.start, !.end = span.end, !.cuts = {}, !.group = 0,
                     !.analysis = IF rich /\ unit.status = "Unknown"
                                  THEN <<UnknownMetadata(Bytes(raw, span), span)>> ELSE <<>>]
      pieces(unit) == LET chunks == ChunkSpan(unit, maximum)
                      IN  IF ~split(unit) \/ unit.end - unit.start <= maximum THEN <<unit>>
                          ELSE [k \in DOMAIN chunks |-> piece(unit, chunks[k])]
  IN  FoldLeft(LAMBDA output, unit : output \o pieces(unit), <<>>, units)
-----------------------------------------------------------------------------
(* assign_inner_groups: every content unit of prose has a group, and a     *)
(* clitic has the group of the content before it on the line.              *)
Clitics == {Chars(word) : word \in {"mi", "mu", "de", "da"}} \cup {<<"m", "dotless">>}

(* to_lowercase, which is not Turkish: I becomes i. *)
IsPhonologicalClitic(token) ==
  [i \in DOMAIN token |-> IF token[i] = "I" THEN "i" ELSE LowerChar(token[i])] \in Clitics

EndsGroup(unit) == unit.mode # "Turkish" \/ unit.kind = "LineBreak"

AssignInnerGroups(raw, units) ==
  LET join(state, k) ==
        LET previous == state.units[state.previous].group
        IN  [units |-> [j \in DOMAIN state.units |->
                          IF j \in state.previous + 1 .. k
                          THEN [state.units[j] EXCEPT !.group = previous] ELSE state.units[j]],
             previous |-> k, next |-> state.next]
      open(state, k) == [units |-> [state.units EXCEPT ![k].group = state.next],
                         previous |-> k, next |-> state.next + 1]
      visit(state, k) ==
        LET unit == units[k]
        IN  CASE EndsGroup(unit) -> [state EXCEPT !.previous = 0]
              [] unit.kind = "Whitespace" /\ ~EndsGroup(unit) -> state
              [] unit.kind # "Whitespace" /\ ~EndsGroup(unit) ->
                   IF state.previous > 0 /\ IsPhonologicalClitic(Bytes(raw, unit))
                   THEN join(state, k) ELSE open(state, k)
  IN  FoldLeft(visit, [units |-> units, previous |-> 0, next |-> 1],
               [k \in DOMAIN units |-> k]).units
=============================================================================
