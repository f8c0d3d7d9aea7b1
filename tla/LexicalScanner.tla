--------------------------- MODULE LexicalScanner ---------------------------
(***************************************************************************)
(* The lexical scanner of nedo-core: how the characters of a document are  *)
(* grouped into units, and the code hints collected on the way.            *)
(*                                                                         *)
(* A document is a sequence of characters.  ASCII is written out, one      *)
(* string per character (but for the backtick and the escape character,    *)
(* which have a name); the rest is abstracted to one name per class the     *)
(* scanner tells apart, so that UTF-8 decoding is the choice of the name.  *)
(* Positions are one based; a unit is [start, end, kind] with a zero based *)
(* half open span, as in the code.                                         *)
(***************************************************************************)
EXTENDS Naturals, Sequences, SequencesExt

(* The characters of a string. *)
Chars(string) == [i \in 1 .. Len(string) |-> SubSeq(string, i, i)]

AsciiLower ==
  {"a", "b", "c", "d", "e", "f", "g", "h", "i", "j", "k", "l", "m", "n", "o",
   "p", "q", "r", "s", "t", "u", "v", "w", "x", "y", "z"}
AsciiUpper ==
  {"A", "B", "C", "D", "E", "F", "G", "H", "I", "J", "K", "L", "M", "N", "O",
   "P", "Q", "R", "S", "T", "U", "V", "W", "X", "Y", "Z"}
Digit ==
  {"0", "1", "2", "3", "4", "5", "6", "7", "8", "9"}
HexDigit == Digit \cup ToSet(Chars("abcdefABCDEF"))
AsciiBlank == {" ", "\t", "\f"}
AsciiControl == {"esc"}
AsciiPunctuation ==
  {".", ",", ";", ":", "!", "?", "'", "(", ")", "[", "]", "{", "}", "<", ">",
   "-", "/", "\\", "\"", "backtick"}
OperatorStart ==
  {"=", "!", "<", ">", "*", "/", "?", "-", ":", "&", "|", "+", "%", "^"}
AsciiLetter == AsciiLower \cup AsciiUpper

(* The classes of other scalars: Turkish letters (s with cedilla, i without *)
(* a dot, capital I with one), a with circumflex, e with acute, a letter   *)
(* the morphology does not know, a combining cedilla, a numeral, a blank,  *)
(* a line separator, a control, a quote, a decimal separator, a hyphen, a  *)
(* pictograph, the zero width joiner; and a byte that starts no scalar.    *)
UnicodeKind ==
  [turkish |-> "Word", dotless |-> "Word", dotted |-> "Word", circumflex |-> "Word",
   acute |-> "Word", foreign |-> "Word", mark |-> "Word", numeral |-> "Number",
   nbsp |-> "Whitespace", separator |-> "LineBreak", control |-> "Control",
   apostrophe |-> "Punctuation", decimal |-> "Symbol", hyphen |-> "Punctuation",
   pictograph |-> "Symbol", joiner |-> "Punctuation", invalid |-> "Opaque"]
TurkishLetter == {"turkish", "dotless", "dotted"}
UnicodeLetter == TurkishLetter \cup {"circumflex", "acute", "foreign"}

Ascii(char) == char \notin DOMAIN UnicodeKind

(* At most `width` characters from i on. *)
Piece(raw, i, width) ==
  SubSeq(raw, i, IF i + width - 1 > Len(raw) THEN Len(raw) ELSE i + width - 1)

At(raw, i) == IF i \in DOMAIN raw THEN raw[i] ELSE "none"

(* Pairs that are one operator; the first set may be followed by "=".      *)
Lengthened ==
  {<<"=", "=">>, <<"!", "=">>, <<"<", "<">>, <<">", ">">>, <<"*", "*">>,
   <<"/", "/">>, <<"?", "?">>}
Operators ==
  Lengthened \cup
  {<<"<", "=">>, <<">", "=">>, <<"-", ">">>, <<"=", ">">>, <<":", ":">>,
   <<"&", "&">>, <<"|", "|">>, <<"+", "+">>, <<"-", "-">>, <<"+", "=">>,
   <<"-", "=">>, <<"*", "=">>, <<"/", "=">>, <<"%", "=">>, <<"&", "=">>,
   <<"|", "=">>, <<"^", "=">>, <<"/", "*">>, <<"*", "/">>, <<"?", ".">>}

(* Zero where no operator begins. *)
OperatorWidth(raw, i) ==
  LET pair == <<At(raw, i), At(raw, i + 1)>>
  IN  IF pair \notin Operators THEN 0
      ELSE IF pair \in Lengthened /\ At(raw, i + 2) = "=" THEN 3 ELSE 2

AsciiKind(char) ==
  IF char \in {"\n", "\r"} THEN "LineBreak"
  ELSE IF char \in AsciiBlank THEN "Whitespace"
  ELSE IF char \in AsciiControl THEN "Control"
  ELSE IF char \in AsciiLetter \cup {"_"} THEN "Word"
  ELSE IF char \in Digit THEN "Number"
  ELSE IF char \in AsciiPunctuation THEN "Punctuation"
  ELSE "Symbol"

OperatorAt(raw, i) == IF raw[i] \in OperatorStart THEN OperatorWidth(raw, i) ELSE 0

ClassifyAt(raw, i) ==
  LET class(char, operator) ==
        IF operator > 0 THEN [kind |-> "Symbol", width |-> operator]
        ELSE IF ~Ascii(char) THEN [kind |-> UnicodeKind[char], width |-> 1]
        ELSE [kind |-> AsciiKind(char),
              width |-> IF char = "\r" /\ At(raw, i + 1) = "\n" THEN 2 ELSE 1]
  IN  class(raw[i], OperatorAt(raw, i))

(* Where a run that advances by step[j] at j stops: at the first zero.     *)
RunEnd(raw, i, step) ==
  LET from[j \in i .. Len(raw) + 2] ==
        IF j > Len(raw) \/ step[j] = 0 THEN j ELSE from[j + step[j]]
  IN  from[i]

(* The reference: as long as the classifier answers the same kind.         *)
GenericStep(raw, kind) ==
  LET step(class) == IF class.kind = kind THEN class.width ELSE 0
  IN  [j \in DOMAIN raw |-> step(ClassifyAt(raw, j))]

(* Mutant of AsciiStep: a punctuation run swallows operators.              *)
AsciiStepThroughOperators(raw, j, kind) ==
  CASE kind = "Punctuation" -> IF raw[j] \in AsciiPunctuation THEN 1 ELSE 0
    [] OTHER -> GenericStep(raw, kind)[j]

(* The specialised runs decide an ASCII character without the classifier.  *)
AsciiStep(raw, j, kind) ==
  LET one(test) == IF test THEN 1 ELSE 0
      step(char, operator) ==
        CASE kind = "Whitespace" -> one(char \in AsciiBlank)
          [] kind = "LineBreak" ->
               IF char = "\r" THEN 1 + one(At(raw, j + 1) = "\n") ELSE one(char = "\n")
          [] kind = "Control" -> one(char \in AsciiControl)
          [] kind = "Punctuation" -> one(operator = 0 /\ char \in AsciiPunctuation)
          [] kind = "Symbol" ->
               IF operator > 0 THEN operator ELSE one(AsciiKind(char) = "Symbol")
          [] OTHER -> one(AsciiKind(char) = kind)
  IN  step(raw[j], OperatorAt(raw, j))

(* A joiner continues a symbol when a symbol follows it.                   *)
JoinerStep(raw, j) ==
  LET step(class) == IF class.kind = "Symbol" THEN 1 + class.width ELSE 0
  IN  IF j < Len(raw) THEN step(ClassifyAt(raw, j + 1)) ELSE 0

SpecialisedStep(raw, kind) ==
  [j \in DOMAIN raw |->
     IF Ascii(raw[j]) /\ kind # "Opaque" THEN AsciiStep(raw, j, kind)
     ELSE IF kind = "Symbol" /\ raw[j] = "joiner" THEN JoinerStep(raw, j)
     ELSE GenericStep(raw, kind)[j]]

ConsumeSameKind(raw, i, kind) == RunEnd(raw, i, SpecialisedStep(raw, kind))

WordConnector == {"'", "-", "apostrophe", "hyphen"}
SuffixConnector == {"'", "apostrophe"}
NumberSeparator == {".", ",", ":", "/", "-", "decimal"}

KindAt(raw, i) == IF i \in DOMAIN raw THEN ClassifyAt(raw, i).kind ELSE "none"

(* Letters and digits, and connectors between them. *)
ConsumeWord(raw, i) ==
  RunEnd(raw, i, [j \in DOMAIN raw |->
    IF \/ KindAt(raw, j) \in {"Word", "Number"}
       \/ raw[j] \in WordConnector /\ KindAt(raw, j + 1) \in {"Word", "Number"}
    THEN 1 ELSE 0])

(* Mutant of ConsumeNumber: a separator may end a number.                  *)
ConsumeOpenNumber(raw, i) ==
  RunEnd(raw, i, [j \in DOMAIN raw |->
    IF \/ KindAt(raw, j) = "Number"
       \/ raw[j] \in NumberSeparator /\ KindAt(raw, j + 1) \in {"Number", "Whitespace"}
    THEN 1 ELSE 0])

(* Digits and separators between them; an apostrophe and a letter turn the *)
(* rest into a word.                                                       *)
ConsumeNumber(raw, i) ==
  LET suffixed(digitsEnd) ==
        IF At(raw, digitsEnd) \in SuffixConnector /\ KindAt(raw, digitsEnd + 1) = "Word"
        THEN ConsumeWord(raw, digitsEnd + 1) ELSE digitsEnd
  IN  suffixed(RunEnd(raw, i, [j \in DOMAIN raw |->
        IF \/ KindAt(raw, j) = "Number"
           \/ raw[j] \in NumberSeparator /\ KindAt(raw, j + 1) = "Number"
        THEN 1 ELSE 0]))

Consume(raw, i, kind) ==
  CASE kind = "Word" -> ConsumeWord(raw, i)
    [] kind = "Number" -> ConsumeNumber(raw, i)
    [] OTHER -> ConsumeSameKind(raw, i, kind)

UnitOf(raw, from, class) ==
  [start |-> from, end |-> Consume(raw, from + 1 + class.width, class.kind) - 1,
   kind |-> class.kind]

(* The unit that begins after the first `from` characters. *)
NextUnit(raw, from) == UnitOf(raw, from, ClassifyAt(raw, from + 1))

(* ScanResult::validate and CompactScanResult::validate: the units follow  *)
(* one another from the first character to the last.                       *)
Covers(raw, units) ==
  /\ \A k \in DOMAIN units : units[k].start = IF k = 1 THEN 0 ELSE units[k - 1].end
  /\ Len(raw) = IF units = <<>> THEN 0 ELSE units[Len(units)].end
-----------------------------------------------------------------------------
(* Code hints. *)
LeadingWords ==
  {Chars(word) : word \in {"pub", "unsafe", "fn", "use", "let", "def", "import", "if", "for",
     "return", "SELECT"}}
StrongSignals ==
  {Chars(op) : op \in {"=>", "::", "->", "+=", "-=", "*=", "/=", "%=", "==", "!=", "<=", ">=",
     "&&", "||", "??", "?.", ":=", "<<", ">>"}}

StrongSignal(bytes) ==
  {"{", "}"} \cap ToSet(bytes) # {} \/ bytes \in StrongSignals

IsoTimeTail(bytes) ==
  Len(bytes) >= 3 /\ bytes[1] \in {"T", "t"} /\ bytes[2] \in Digit /\ bytes[3] \in Digit

(* What follows a number written for a machine: 0x1f, 1e5, 1u8. *)
NumericTail(bytes, afterZero) ==
  LET rest == ToSet(Tail(bytes))
      unsigned == IF Len(bytes) > 1 /\ bytes[2] \in {"+", "-"} THEN ToSet(Tail(Tail(bytes)))
                  ELSE rest
  IN  CASE afterZero /\ bytes[1] \in ToSet(Chars("xXbBoO")) ->
             rest # {} /\ rest \subseteq HexDigit \cup {"_"}
        [] bytes[1] \in {"e", "E"} -> unsigned # {} /\ unsigned \subseteq Digit \cup {"_"}
        [] OTHER -> /\ bytes[1] \in ToSet(Chars("fFiIuU"))
                    /\ rest # {} /\ rest \subseteq Digit

(* What CodeHintTracker keeps of the line so far. *)
LineStart ==
  [first |-> TRUE, callWord |-> FALSE, afterMember |-> FALSE, quoteKey |-> 0, section |-> 0,
   escapedMarkup |-> 0, hash |-> FALSE, number |-> FALSE, zero |-> FALSE]
NoHints == [unmarked |-> FALSE, artifact |-> FALSE, backtick |-> FALSE]

Operatorlike == {"Symbol", "Punctuation"}

(* What follows the first double quote: it closes the key of an entry.     *)
AfterQuote(bytes) ==
  LET quotes == {i \in DOMAIN bytes : bytes[i] = "\""}
      first == CHOOSE i \in quotes : \A j \in quotes : i <= j
  IN  SubSeq(bytes, first + 1, Len(bytes))

ClosesKey(line, kind, bytes) ==
  LET quoted == IF line.first THEN Tail(bytes) ELSE bytes
  IN  /\ IF line.first THEN bytes[1] = "\"" ELSE line.quoteKey = 1 /\ kind \in Operatorlike
      /\ "\"" \in ToSet(quoted)
AfterKey(line, bytes) == AfterQuote(IF line.first THEN Tail(bytes) ELSE bytes)

(* Whether this unit alone makes the line look like code. *)
Unmarked(line, kind, bytes) ==
  \/ line.quoteKey = 2 /\ bytes = <<":">>
  \/ ClosesKey(line, kind, bytes) /\ AfterKey(line, bytes) = <<":">>
  \/ line.escapedMarkup = 2 /\ kind = "Punctuation" /\ ";" \in ToSet(bytes)
  \/ /\ kind = "Word"
     /\ \/ line.number /\ NumericTail(bytes, line.zero)
        \/ line.first /\ bytes \in LeadingWords
  \/ /\ kind \in Operatorlike
     /\ \/ line.first /\ (bytes[1] = "<" \/ bytes \in {Chars(op) : op \in {"//", "/*", "#!", "#["}})
        \/ line.callWord /\ (bytes = <<"=">> \/ "(" \in ToSet(bytes))
        \/ line.hash /\ "!" \in ToSet(bytes)
        \/ StrongSignal(bytes)

(* Mutant of Artifact: an address is not noticed.                          *)
ArtifactButAddress(line, kind, bytes) ==
  \/ kind \in Operatorlike /\ "=" \in ToSet(bytes)
  \/ /\ kind = "Word"
     /\ \/ bytes \in {Chars("http"), Chars("https"), Chars("www")}
        \/ line.number /\ IsoTimeTail(bytes)

Artifact(line, kind, bytes) ==
  \/ /\ kind \in Operatorlike
     /\ \/ {"@", "="} \cap ToSet(bytes) # {}
        \/ \E i \in DOMAIN bytes : Piece(bytes, i, 3) = Chars("://")
  \/ /\ kind = "Word"
     /\ \/ bytes \in {Chars("http"), Chars("https"), Chars("www")}
        \/ line.number /\ IsoTimeTail(bytes)

(* The line after a unit that is neither blank nor a line break and did    *)
(* not end the search.                                                     *)
LineAfter(line, kind, bytes) ==
  LET reset == kind \in {"Control", "Opaque"}
      opens(char) == line.first /\ ToSet(bytes) = {char}
  IN  [first |-> FALSE,
       callWord |-> CASE kind = "Word" -> bytes[1] \in AsciiLower
                                          /\ (line.first \/ line.afterMember)
                      [] kind \in Operatorlike ->
                           line.callWord /\ bytes \in {<<"!">>, <<".">>, Chars("::")}
                      [] OTHER -> FALSE,
       afterMember |-> kind \in Operatorlike /\ bytes \in {<<".">>, Chars("::")},
       quoteKey |-> IF ClosesKey(line, kind, bytes)
                    THEN IF AfterKey(line, bytes) = <<>> THEN 2 ELSE 0
                    ELSE IF line.first /\ bytes[1] = "\"" THEN 1
                    ELSE IF line.quoteKey = 2 \/ reset THEN 0 ELSE line.quoteKey,
       section |-> CASE opens("[") -> 1
                     [] line.section = 1 /\ kind \in Operatorlike ->
                          IF ToSet(bytes) \subseteq {".", ":", "-", "["} THEN 1
                          ELSE IF ToSet(bytes) = {"]"} THEN 2 ELSE 0
                     [] OTHER -> IF line.section = 1 /\ ~reset THEN 1 ELSE 0,
       escapedMarkup |-> CASE line.first /\ bytes = <<"&">> -> 1
                           [] OTHER -> IF line.escapedMarkup = 1 /\ kind = "Word"
                                          /\ bytes = Chars("lt") THEN 2 ELSE 0,
       hash |-> IF line.first THEN bytes[1] = "#" ELSE line.hash,
       number |-> kind = "Number",
       zero |-> kind = "Number" /\ bytes = <<"0">>]

(* CodeHintTracker::observe.  Once a line looks like code the rest of the  *)
(* line state is no longer read.                                           *)
Observe(tracker, kind, bytes) ==
  LET line == tracker.line
      hints == tracker.hints
      seen == [hints EXCEPT
        !.backtick = @ \/ (kind = "Punctuation" /\ "backtick" \in ToSet(bytes)),
        !.artifact = @ \/ Artifact(line, kind, bytes)]
  IN  IF kind = "LineBreak"
      THEN [line |-> LineStart, hints |-> [hints EXCEPT !.unmarked = @ \/ line.section = 2]]
      ELSE IF kind = "Whitespace"
      THEN [line |-> [line EXCEPT !.number = FALSE, !.zero = FALSE,
                                  !.section = IF @ = 1 THEN 0 ELSE @],
            hints |-> hints]
      ELSE IF hints.unmarked THEN [line |-> [line EXCEPT !.first = FALSE], hints |-> seen]
      ELSE IF Unmarked(line, kind, bytes)
      THEN [line |-> [line EXCEPT !.number = FALSE, !.zero = FALSE],
            hints |-> [seen EXCEPT !.unmarked = TRUE]]
      ELSE [line |-> LineAfter(line, kind, bytes), hints |-> seen]

FinishHints(tracker) ==
  [tracker.hints EXCEPT !.unmarked = @ \/ tracker.line.section = 2]
=============================================================================
