--------------------------- MODULE CodeDetection ---------------------------
(***************************************************************************)
(* Scanning one document and finding its code: Tokenizer::document_spans   *)
(* over scan_compact_with_code_hints and auto_code_spans.                  *)
(***************************************************************************)
EXTENDS CodeSpans

CONSTANT Documents

ASSUME DocumentConstants == \A document \in Documents : document \in Seq(STRING)

(* The characters of some literals: TLC evaluates them, the provers do not. *)
ASSUME LiteralCharacters ==
  /\ Chars("http") = <<"h", "t", "t", "p">> /\ Chars("https") = <<"h", "t", "t", "p", "s">>
  /\ Chars("www") = <<"w", "w", "w">>
  /\ Chars("http://") = <<"h", "t", "t", "p", ":", "/", "/">>
  /\ Chars("https://") = <<"h", "t", "t", "p", "s", ":", "/", "/">>
  /\ Chars("www.") = <<"w", "w", "w", ".">>
  /\ Opening = {"(", "[", "{", "<", "\"", "'"}

VARIABLES raw, units, tracker, hints, spans, stage
vars == <<raw, units, tracker, hints, spans, stage>>

Init ==
  /\ raw \in Documents
  /\ units = <<>> /\ spans = {} /\ hints = NoHints
  /\ tracker = [line |-> LineStart, hints |-> NoHints]
  /\ stage = "scanning"

Scanned == IF units = <<>> THEN 0 ELSE Last(units).end

(* One round of the scanning loop: take a unit and let the tracker see it. *)
ScanUnit ==
  /\ stage = "scanning" /\ Scanned < Len(raw)
  /\ \E unit \in {NextUnit(raw, Scanned)} :
         /\ units' = Append(units, unit)
         /\ tracker' = Observe(tracker, unit.kind, Bytes(raw, unit))
  /\ UNCHANGED <<raw, hints, spans, stage>>

FinishScan ==
  /\ stage = "scanning" /\ Scanned = Len(raw)
  /\ hints' = FinishHints(tracker)
  /\ stage' = "scanned"
  /\ UNCHANGED <<raw, units, tracker, spans>>

Detect ==
  /\ stage = "scanned"
  /\ spans' = AutoCodeSpans(raw, hints)
  /\ stage' = "detected"
  /\ UNCHANGED <<raw, units, tracker, hints>>

Next == ScanUnit \/ FinishScan \/ Detect

Spec == Init /\ [][Next]_vars
-----------------------------------------------------------------------------
(* A unit does not depend on what surrounds it: scanning its bytes alone   *)
(* gives the same unit.  Caches of the tokenizer key programs and analyses *)
(* by the bytes of a unit or of a segment of units.                        *)
UnitsAreContextFree ==
  stage = "scanned" => \A unit \in ToSet(units) :
    NextUnit(Bytes(raw, unit), 0) =
      [start |-> 0, end |-> unit.end - unit.start, kind |-> unit.kind]

(* The specialised run consumers end a run where the generic one, which    *)
(* asks the classifier for every scalar, ends it; only a symbol may go on  *)
(* through a joiner, and then the generic run ends there.                  *)
SpecialisedRunsAgree ==
  stage = "scanned" => \A unit \in ToSet(units) :
    unit.kind \notin {"Word", "Number"} =>
      \E width \in {ClassifyAt(raw, unit.start + 1).width} :
        \E generic \in {RunEnd(raw, unit.start + 1 + width, GenericStep(raw, unit.kind)) - 1} :
          \/ generic = unit.end
          \/ unit.kind = "Symbol" /\ generic < unit.end /\ raw[generic + 1] = "joiner"

(* What a hint tells of an artifact of these forms. *)
HintedForms(token) ==
  \/ LooksLikeUrl(token) /\ ~StartsWith(token, "ftp://")
  \/ LooksLikeEmail(token) \/ LooksLikeInlineAssignment(token) \/ LooksLikeIsoTimestamp(token)

Hinted == hints.artifact \/ hints.unmarked

(* The byte scan for artifacts is only made when the scanner hinted at one *)
(* (code.rs:30): an address, an assignment or a timestamp the byte scan    *)
(* would accept is never missed because the units hid it.                  *)
ArtifactsAreHinted ==
  stage = "scanned" =>
    \A span \in InlineArtifactSpans(raw) : HintedForms(Bytes(raw, span)) => Hinted

Within(line, span) == span.start <= line.start /\ line.end <= span.end

(* Prose is not swallowed: a line that reads as prose, that holds no       *)
(* backtick and no technical token and is no code line itself is never     *)
(* code, whatever surrounds it.                                            *)
ProseStaysProse ==
  stage = "detected" =>
    \A lines \in {CodeLines(raw)} :
      \/ \E k \in DOMAIN lines : lines[k].shebang
      \/ "backtick" \in ToSet(raw) \/ InlineArtifactSpans(raw) # {}
      \/ \A k \in DOMAIN lines \ SelectedLines(lines) :
           lines[k].prose => \A span \in spans : ~Within(lines[k], span)
=============================================================================
