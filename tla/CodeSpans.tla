------------------------------ MODULE CodeSpans ------------------------------
(***************************************************************************)
(* Detection of code in a document that is mostly prose: explicit backtick *)
(* regions, code-shaped lines, and single technical tokens.  Texts are     *)
(* sequences of the characters of LexicalScanner; spans are zero based and *)
(* half open.  Keyword lists are cut to representatives of each family.    *)
(***************************************************************************)
EXTENDS Naturals, Sequences, SequencesExt, FiniteSetsExt, LexicalScanner

CONSTANTS
  ContinuationDistance,   \* CONTINUATION_DISTANCE (2)
  FencedRun,              \* backticks from which a run is a fence (3)
  LongLine                \* words from which a line reads as prose (9; 12 for a longer one)

ASSUME CodeSpanConstants == {ContinuationDistance, FencedRun, LongLine} \subseteq Nat

Strong == 7
Moderate == 3
Adjacent == 8

Blank == {" ", "\t", "\f", "\n", "\r"}
Separator == Blank \cup AsciiControl \cup {"backtick"}

StartsWith(text, word) == IsPrefix(Chars(word), text)
EndsWith(text, word) == IsSuffix(Chars(word), text)
ContainsWord(text, word) ==
  \E i \in DOMAIN text : Piece(text, i, Len(word)) = Chars(word)
StartsWithAny(text, words) == \E word \in words : StartsWith(text, word)
EndsWithAny(text, words) == \E word \in words : EndsWith(text, word)
ContainsAny(text, words) == \E word \in words : ContainsWord(text, word)

From(text, i) == SubSeq(text, i, Len(text))

(* The first position of text, at or after i, that is not in the set. *)
SkipWhile(text, i, set) ==
  Min({j \in i .. Len(text) + 1 : j > Len(text) \/ text[j] \notin set} \cup {Len(text) + 1})

TrimStart(text, set) == From(text, SkipWhile(text, 1, set))
TrimEnd(text, set) ==
  SubSeq(text, 1, Max({j \in 0 .. Len(text) : j = 0 \/ text[IF j = 0 THEN 1 ELSE j] \notin set}))
TrimBlank(text) == TrimEnd(TrimStart(text, Blank), Blank)

IdentifierStart == AsciiLetter \cup {"_", "$"}
Identifier == IdentifierStart \cup Digit
Alphabetic == AsciiLetter \cup UnicodeLetter
Alphanumeric == Alphabetic \cup Digit \cup {"numeral"}

StartsWithKeyword(text, word) ==
  /\ StartsWith(text, word)
  /\ At(text, Len(word) + 1) \notin Alphanumeric \cup {"_"}
-----------------------------------------------------------------------------
(* Single tokens: inline_artifact_spans. *)
LooksLikeUrl(token) ==
  StartsWithAny(token, {"http://", "https://", "ftp://", "www."}) /\ Len(token) > 8

LooksLikeEmail(token) ==
  LET ats == {i \in DOMAIN token : token[i] = "@"}
      at == Min(ats)
      local == SubSeq(token, 1, at - 1)
      domain == From(token, at + 1)
  IN  /\ \A char \in ToSet(token) : char # "invalid"
      /\ \E i \in ats : ats = {i}
      /\ local # <<>> /\ domain # <<>> /\ "." \in ToSet(domain)
      /\ domain[1] # "." /\ domain[Len(domain)] # "."
      /\ ToSet(local) \subseteq Alphanumeric \cup {".", "_", "+", "-"}
      /\ ToSet(domain) \subseteq Alphanumeric \cup {".", "-"}

LooksLikeInlineAssignment(token) ==
  LET equals == {i \in DOMAIN token : token[i] = "="}
      equal == Min(equals)
      name == SubSeq(token, 1, equal - 1)
  IN  /\ equals # {} /\ equal > 1 /\ equal < Len(token)
      /\ token[equal + 1] # "="
      /\ name[1] \in AsciiLetter \cup {"_"}
      /\ ToSet(name) \subseteq AsciiLetter \cup Digit \cup {"_", ".", "-"}
      /\ \/ ToSet(name) \cap {"_", ".", "-"} # {}
         \/ name \in {Chars("id"), Chars("key")}

LooksLikeIsoTimestamp(token) ==
  /\ Len(token) >= 19
  /\ token[5] = "-" /\ token[8] = "-" /\ token[11] \in {"T", "t"}
  /\ token[14] = ":" /\ token[17] = ":"
  /\ \A i \in 1 .. 19 \ {5, 8, 11, 14, 17} : token[i] \in Digit
  /\ \A i \in 20 .. Len(token) :
       token[i] \in Digit \cup {".", ",", "+", "-", ":", "Z", "z"}

(* Digits, perhaps a fraction, and then an exponent, a suffix or both.     *)
LooksLikeDecimalNumber(value) ==
  LET grouped == Digit \cup {"_"}
      suffixed(j) == /\ At(value, j) \in ToSet(Chars("fFiIuU")) /\ j < Len(value)
                     /\ ToSet(From(value, j + 1)) \subseteq Digit
      scaled(j) ==
        /\ At(value, j) \in {"e", "E"}
        /\ \E first \in {IF At(value, j + 1) \in {"+", "-"} THEN j + 2 ELSE j + 1} :
             \E end \in {SkipWhile(value, first, grouped)} :
               end > first /\ (end = Len(value) + 1 \/ suffixed(end))
      rest(j) == scaled(j) \/ suffixed(j)
  IN  \E whole \in {SkipWhile(value, 1, grouped)} :
        /\ whole > 1
        /\ IF At(value, whole) # "." THEN rest(whole)
           ELSE \E fraction \in {SkipWhile(value, whole + 1, grouped)} :
                  fraction > whole + 1 /\ rest(fraction)

LooksLikeProgrammingNumber(token) ==
  LET value == IF At(token, 1) \in {"+", "-"} THEN Tail(token) ELSE token
      radix == IF At(value, 1) # "0" THEN "none" ELSE At(value, 2)
      inRadix(digits) == Len(value) > 2 /\ ToSet(From(value, 3)) \subseteq digits \cup {"_"}
  IN  IF radix \in {"x", "X"} THEN inRadix(HexDigit)
      ELSE IF radix \in {"b", "B"} THEN inRadix({"0", "1"})
      ELSE IF radix \in {"o", "O"} THEN inRadix(Digit \ {"8", "9"})
      ELSE LooksLikeDecimalNumber(value)

Opening == ToSet(Chars("([{<\"'"))
Closing == ToSet(Chars(".,;!?)]}>\"'"))

LooksTechnical(token) ==
  /\ token # <<>>
  /\ \/ LooksLikeUrl(token) \/ LooksLikeEmail(token) \/ LooksLikeInlineAssignment(token)
     \/ LooksLikeIsoTimestamp(token) \/ LooksLikeProgrammingNumber(token)

(* The tokens between separators, without the marks around them. *)
InlineTokens(raw) ==
  LET begins == {i \in DOMAIN raw : raw[i] \notin Separator
                                    /\ (i = 1 \/ raw[i - 1] \in Separator)}
      ends(i) == Min({j \in i .. Len(raw) : j = Len(raw) \/ raw[j + 1] \in Separator})
      trimmed(i) == LET left == Min({j \in i .. ends(i) + 1 :
                                       j > ends(i) \/ raw[j] \notin Opening})
                        kept == {j \in left .. ends(i) : raw[j] \notin Closing}
                    IN  [start |-> left - 1, end |-> IF kept = {} THEN left - 1 ELSE Max(kept)]
  IN  {trimmed(i) : i \in begins}

Bytes(raw, span) == SubSeq(raw, span.start + 1, span.end)

InlineArtifactSpans(raw) == {span \in InlineTokens(raw) : LooksTechnical(Bytes(raw, span))}
-----------------------------------------------------------------------------
(* Backtick regions: explicit_code_spans. *)
BacktickRun(raw, i) == SkipWhile(raw, i, {"backtick"}) - i

(* A fence closes at the first run at least as long, an inline region at   *)
(* the next backtick; an unclosed run is skipped.                          *)
ExplicitCodeSpans(raw) ==
  LET from[i \in 1 .. Len(raw) + 1] ==
        IF i > Len(raw) THEN {}
        ELSE IF raw[i] # "backtick" THEN from[i + 1]
        ELSE LET run == BacktickRun(raw, i)
                 delimiter == IF run >= FencedRun THEN run ELSE 1
                 closing == {j \in i + delimiter .. Len(raw) :
                               raw[j] = "backtick" /\ BacktickRun(raw, j) >= delimiter}
                 end == Min(closing) + delimiter
             IN  IF closing = {} THEN from[i + run]
                 ELSE {[start |-> i - 1, end |-> end - 1]} \cup from[end]
  IN  from[1]
-----------------------------------------------------------------------------
(* Code-shaped lines: analyze_code_line. *)
Jumps == {"fn", "use", "let", "def", "import", "return", "SELECT"}
Controls == {"if", "for", "else", "try"}
HardStarts == {"#!", "#[", "//", "/*", "#include", "using namespace", "<?", "</"}
KeywordPrefixes ==
  {"pub ", "fn ", "use ", "let ", "def ", "import ", "return ", "SELECT ", "if ", "for ",
   "else", "try"} \cup HardStarts

(* A qualifier may come before a declaration; pub stands for all of them. *)
StartsWithCodeKeyword(text) ==
  LET value == IF StartsWith(text, "pub ") THEN TrimStart(From(text, 5), Blank) ELSE text
  IN  \/ \E word \in Jumps : StartsWithKeyword(value, word)
      \/ /\ \E word \in Controls : StartsWithKeyword(value, word)
         /\ ContainsAny(value, {"{", ":", ";", "(", "=>"})

OperatorPairs ==
  {Chars(pair) : pair \in {"=>", "::", "->", "+=", "-=", "*=", "/=", "%=", "==", "!=", "<=",
     ">=", "&&", "||", "??", "?.", ":=", "<<", ">>", ".."}}

LooksLikeAssignment(text) ==
  LET width(operator) ==
        CASE At(text, operator) = "=" -> 1
          [] At(text, operator) \in ToSet(Chars("+-*/%")) /\ At(text, operator + 1) = "=" -> 2
          [] OTHER -> 0
      name == SkipWhile(text, 1, Identifier \cup {".", "[", "]", "-"})
  IN  /\ text[1] \in IdentifierStart
      /\ \E operator \in {SkipWhile(text, name, Blank)} :
           /\ width(operator) > 0
           /\ At(text, operator + width(operator)) \notin {"=", "none"}

LooksLikeTomlAssignment(text) ==
  LET value == TrimStart(From(text, 1 + Min({i \in DOMAIN text : text[i] = "="})), Blank)
  IN  \/ At(value, 1) \in Digit \cup ToSet(Chars("\"'[{+-"))
      \/ StartsWithKeyword(value, "true") \/ StartsWithKeyword(value, "false")

LooksLikeJsonKey(text) ==
  LET escapes[i \in 1 .. Len(text)] == i > 1 /\ text[i] = "\\" /\ ~escapes[i - 1]
      closing == {i \in 2 .. Len(text) : text[i] = "\"" /\ ~escapes[i - 1]}
  IN  closing # {} /\ At(TrimStart(From(text, Min(closing) + 1), Blank), 1) = ":"

LooksLikeSection(text) ==
  LET depth == IF StartsWith(text, "[[") /\ EndsWith(text, "]]") /\ Len(text) > 3 THEN 2 ELSE 1
      inner == SubSeq(text, depth + 1, Len(text) - depth)
  IN  /\ text[Len(text)] = "]" /\ inner # <<>>
      /\ ToSet(inner) \subseteq AsciiLetter \cup Digit \cup {"_", ".", ":", "-"}

LooksLikeMarkupTag(text) ==
  At(text, IF StartsWith(text, "</") THEN 3 ELSE 2) \in AsciiLetter /\ ">" \in ToSet(text)

LooksLikeEscapedMarkupTag(text) ==
  LET closes == {i \in DOMAIN text : StartsWith(From(text, i), "&gt;")}
      suffix == TrimStart(From(text, Min(closes) + 4), Blank)
  IN  /\ StartsWith(text, "&lt;") /\ closes # {}
      /\ \/ suffix = <<>> \/ StartsWith(suffix, "&lt;")
         \/ ContainsWord(suffix, "&lt;/")

LooksLikeCssSelector(text) == "{" \in ToSet(text) /\ ToSet(text) \cap AsciiLetter # {}

Camel(text) ==
  \E i \in 2 .. Len(text) : text[i - 1] \in AsciiLower /\ text[i] \in AsciiUpper

(* A name, its arguments, and then nothing or the start of a block. *)
LooksLikeCall(text) ==
  LET begins(i) == /\ text[i] \in IdentifierStart
                   /\ i > 1 => Ascii(text[i - 1]) /\ text[i - 1] \notin Identifier
      callable(i, name) ==
        \/ text[i] \in AsciiLower \cup {"_", "$"}
        \/ "_" \in ToSet(name) \/ Camel(name)
        \/ At(text, i - 1) \in {".", ":"}
      ends(suffix) == suffix # <<>> => StartsWithAny(suffix, {"{", ";", "->", "=>", "?"})
      called(argument) ==
        /\ At(text, argument) = "("
        /\ \E close \in argument + 1 .. Len(text) :
             /\ text[close] = ")"
             /\ \A j \in argument + 1 .. close - 1 : text[j] # ")"
             /\ ends(TrimStart(From(text, close + 1), Blank))
  IN  \E i \in {j \in DOMAIN text : begins(j)} : \E after \in {SkipWhile(text, i, Identifier)} :
        /\ callable(i, SubSeq(text, i, after - 1))
        /\ \E j \in {SkipWhile(text, after, Blank)} :
             called(IF At(text, j) = "!" THEN j + 1 ELSE j)

Words(text) ==
  Cardinality({i \in DOMAIN text : text[i] \in Alphabetic
                                   /\ (i = 1 \/ text[i - 1] \notin Alphabetic)})
Marks(text) == Cardinality({i \in DOMAIN text : text[i] \notin Alphanumeric \cup Blank})
HasTurkish(text) == ToSet(text) \cap TurkishLetter # {}

(* What a line that reads like prose loses. *)
ProsePenalty(text) ==
  LET words == Words(text)
  IN  (IF words >= LongLine + 3 THEN 10 ELSE IF words >= LongLine THEN 6 ELSE 0)
      + (IF words >= 4 /\ HasTurkish(text) THEN (IF words >= 8 THEN 6 ELSE 3)
         ELSE IF words >= 6 /\ Marks(text) <= 2 THEN 3 ELSE 0)
      + (IF EndsWithAny(text, {".", "!", "?"}) THEN 2 ELSE 0)

Structured(text) ==
  CASE text[1] = "\"" -> LooksLikeJsonKey(text)
    [] text[1] = "{" -> {":", "\""} \subseteq ToSet(text)
    [] text[1] = "[" -> LooksLikeSection(text)
    [] text[1] = "<" -> LooksLikeMarkupTag(text)
    [] text[1] = "&" -> LooksLikeEscapedMarkupTag(text)
    [] text[1] \in {".", "#", "@"} -> LooksLikeCssSelector(text)
    [] OTHER -> LooksLikeAssignment(text) /\ LooksLikeTomlAssignment(text)

CodePunctuation == ToSet(Chars("=;{}()[]<>:"))

Score(text, hard) ==
  LET has(chars) == chars \subseteq ToSet(text)
      operators == Cardinality({i \in DOMAIN text : Piece(text, i, 2) \in OperatorPairs})
      when(test, points) == IF test THEN points ELSE 0
      penalised(score) ==
        IF hard \/ score < Moderate THEN score ELSE score - Min({score, ProsePenalty(text)})
  IN  penalised(when(hard, 4) + 2 * Min({operators, 2})
               + when(LooksLikeAssignment(text), 4)
               + when(has({"(", ")"}) /\ LooksLikeCall(text), 6)
               + when(has({";"}), 2) + when(has({"{"}) \/ has({"}"}), 1)
               + when(has({"(", ")"}), 1) + when(has({"[", "]"}), 1)
               + when(has({"_"}), 1)
               + when(Camel(text), 1))

AnalyzeText(line, text, structured) ==
  LET candidate == \/ StartsWithAny(text, KeywordPrefixes)
                   \/ ToSet(text) \cap (CodePunctuation \cup {"_", "#", "/", "$"}) # {}
      hard == StartsWithAny(text, HardStarts) \/ StartsWithCodeKeyword(text) \/ structured
      quoted == \/ text[1] = "backtick" /\ text[Len(text)] = "backtick"
                \/ BacktickRun(text, 1) >= FencedRun
      none == [score |-> 0, hard |-> FALSE, weak |-> FALSE]
  IN  IF text = <<>> THEN [none EXCEPT !.weak = TRUE]
      ELSE IF quoted THEN none
      ELSE IF ~candidate
      THEN [none EXCEPT !.weak = StartsWithAny(text, {"* ", "*/", "# "})]
      ELSE IF "invalid" \in ToSet(text) THEN none
      ELSE [score |-> Score(text, hard), hard |-> hard,
            weak |-> \/ ToSet(text) \subseteq ToSet(Chars("{}[](),;"))
                     \/ StartsWithAny(text, {"//", "/*", "*/", "* ", "# "})
                     \/ line[1] \in Blank /\ ToSet(text) \cap CodePunctuation # {}
                     \/ EndsWithAny(text, {"{", "(", "[", ",", ";", "=>"})
                     \/ structured]

AnalyzeTrimmed(line, text) == AnalyzeText(line, text, Structured(text))
AnalyzeCodeLine(line) == AnalyzeTrimmed(line, TrimBlank(line))

NaturalProse(line) ==
  LET prose(text, words) ==
        /\ text # <<>>
        /\ ~StartsWithAny(text, KeywordPrefixes \cup {"* ", "# ", "&lt;", "<"})
        /\ "invalid" \notin ToSet(text)
        /\ ~EndsWithAny(text, {";", "{", "}", ",", "=>"})
        /\ ~ContainsAny(text, {" = ", "::", "->"})
        /\ \/ HasTurkish(text) /\ words >= 2
           \/ words >= 8
           \/ words >= 1 /\ Marks(text) <= 8 /\ EndsWithAny(text, {".", "!", "?"})
      read(text) == prose(text, Words(text))
  IN  read(TrimBlank(line))
-----------------------------------------------------------------------------
(* Blocks of code-shaped lines: inferred_code_spans. *)

(* The lines of a document, each with its terminator and its analysis. *)
CodeLine(start, end, text, analysis, prose) ==
  [start |-> start, end |-> end, score |-> analysis.score, hard |-> analysis.hard,
   blank |-> text = <<>>, shebang |-> StartsWith(text, "#!"),
   safe |-> analysis.weak /\ ~prose, prose |-> prose]

ReadLine(raw, start, end) ==
  LET read(content) ==
        CodeLine(start, end, TrimBlank(content), AnalyzeCodeLine(content), NaturalProse(content))
  IN  read(TrimEnd(SubSeq(raw, start + 1, end), {"\r", "\n"}))

(* A line ends at a line feed and at the end of the text. *)
AddLine(raw, lines, i) ==
  LET start == IF lines = <<>> THEN 0 ELSE lines[Len(lines)].end
  IN  IF raw[i] = "\n" \/ i = Len(raw) THEN Append(lines, ReadLine(raw, start, i)) ELSE lines

CodeLines(raw) ==
  LET upto[i \in 0 .. Len(raw)] == IF i = 0 THEN <<>> ELSE AddLine(raw, upto[i - 1], i)
  IN  upto[Len(raw)]

Anchors(lines) ==
  {k \in DOMAIN lines : lines[k].hard \/ lines[k].score >= Moderate}

(* Lines that are code by themselves or with a neighbour. *)
SelectedLines(lines) ==
  {k \in DOMAIN lines :
     \/ lines[k].hard \/ lines[k].score >= Strong
     \/ \E near \in {k - 1, k + 1} \cap DOMAIN lines :
          /\ {k, near} \subseteq {j \in DOMAIN lines : lines[j].score >= Moderate}
          /\ lines[k].score + lines[near].score >= Adjacent}

(* Enough of the document is code for its other lines to be taken along.   *)
Dense(lines) ==
  LET anchors == Cardinality(Anchors(lines))
      nonblank == Cardinality({k \in DOMAIN lines : ~lines[k].blank})
  IN  anchors >= 3 /\ anchors * 100 >= nonblank * 35

(* Mutant of Filled: prose between code lines is taken along too.          *)
FilledWithProse(lines) ==
  IF Dense(lines) THEN Min(Anchors(lines)) .. Max(Anchors(lines)) ELSE {}

(* A document with enough code is code from its first to its last anchor,  *)
(* except where a line reads as prose.                                     *)
Filled(lines) ==
  IF ~Dense(lines) THEN {}
  ELSE {k \in Min(Anchors(lines)) .. Max(Anchors(lines)) : lines[k].safe \/ ~lines[k].prose}

(* The continuation lines around a line.                                   *)
Continuations(lines, k) ==
  LET reach(j) == \A between \in (j .. k - 1) \cup (k + 1 .. j) : lines[between].safe
  IN  {j \in DOMAIN lines :
         /\ j - k \in 1 .. ContinuationDistance \/ k - j \in 1 .. ContinuationDistance
         /\ reach(j)}

(* Continuation lines around each selected line.  The pass runs forward    *)
(* over the selection it extends, so a line selected after its cause is    *)
(* itself a cause.                                                         *)
WithContinuations(lines, selected) ==
  LET pass[k \in 0 .. Len(lines)] ==
        IF k = 0 THEN selected
        ELSE pass[k - 1] \cup IF k \in pass[k - 1] THEN Continuations(lines, k) ELSE {}
  IN  pass[Len(lines)]

(* Neighbouring selected lines make one span. *)
LineSpans(lines, selected) ==
  LET last(k) == Min({j \in selected : j >= k /\ j + 1 \notin selected})
  IN  {[start |-> lines[k].start, end |-> lines[last(k)].end] :
         k \in {j \in selected : j - 1 \notin selected}}

InferredCodeSpans(raw) ==
  LET spans(lines, nonblank) ==
        IF nonblank # {} /\ lines[Min(nonblank)].shebang
        THEN {[start |-> 0, end |-> Len(raw)]}
        ELSE LineSpans(lines, WithContinuations(lines, SelectedLines(lines) \cup Filled(lines)))
      infer(lines) == spans(lines, {k \in DOMAIN lines : ~lines[k].blank})
  IN  infer(CodeLines(raw))
-----------------------------------------------------------------------------
(* Spans that overlap or touch become one: each begins where no other      *)
(* reaches, and ends where the last one before the next beginning ends.    *)
MergeSpans(spans) ==
  LET proper == {span \in spans : span.start < span.end}
      heads == {span.start : span \in
                  {s \in proper : \A t \in proper : ~(t.start < s.start /\ s.start <= t.end)}}
      end(head) == Max({span.end : span \in
                     {s \in proper : s.start >= head
                                     /\ ~\E other \in heads : other > head /\ other <= s.start}})
  IN  {[start |-> head, end |-> end(head)] : head \in heads}

AutoCodeSpans(raw, hints) ==
  MergeSpans((IF hints.backtick THEN ExplicitCodeSpans(raw) ELSE {})
             \cup (IF hints.unmarked THEN InferredCodeSpans(raw) ELSE {})
             \cup (IF hints.artifact \/ hints.unmarked THEN InlineArtifactSpans(raw) ELSE {}))
-----------------------------------------------------------------------------
Uppercase == AsciiUpper \cup {"dotted"}
Lowercase == AsciiLower \cup (UnicodeLetter \ {"dotted"})
Numeric == Digit \cup {"numeral"}

(* Where an identifier is cut: around separators, before a capital that    *)
(* starts a word, and between letters and digits.                          *)
IdentifierCuts(text) ==
  LET dash(i) == text[i] \in {"_", "-"}
      camel(i) == text[i] \in Lowercase /\ text[i + 1] \in Uppercase
      acronym(i) == /\ text[i] \in Uppercase /\ text[i + 1] \in Uppercase
                    /\ At(text, i + 2) \in Lowercase
      digits(i) == /\ (text[i] \in Numeric) # (text[i + 1] \in Numeric)
                   /\ {text[i], text[i + 1]} \subseteq Alphanumeric
  IN  {i \in 1 .. Len(text) - 1 :
         dash(i) \/ dash(i + 1) \/ camel(i) \/ acronym(i) \/ digits(i)}
=============================================================================
