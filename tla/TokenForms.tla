------------------------------ MODULE TokenForms ------------------------------
(***************************************************************************)
(* The forms of a token the morphology runtime tells apart before it       *)
(* searches: its normalisation, web addresses, Roman numerals, dotted      *)
(* abbreviations and numerals.  A token is a sequence of characters, named *)
(* as in Phonology; "quote" stands for the apostrophes other than "'" and  *)
(* "e'" for the foreign letters with a Turkish counterpart.  A number is   *)
(* its lemma, [value, ordinal]; Spelling says how the lemmas are written.  *)
(***************************************************************************)
LOCAL INSTANCE Naturals
LOCAL INSTANCE Sequences
LOCAL INSTANCE SequencesExt
LOCAL INSTANCE LexicalScanner
LOCAL INSTANCE Phonology

CONSTANT Spelling  \* the written lemmas, by [value, ordinal]

Apostrophe == {"'", "quote"}
UpperLetters == Chars("ABCDEFGHJKLMNOPQRSTUVWXYZ") \o <<"C,", "G^", "dotted", "O:", "S,", "U:",
                                                         "A^", "I", "I^", "U^", "E'">>
LowerLetters == Chars("abcdefghjklmnopqrstuvwxyz") \o <<"c,", "g^", "i", "o:", "s,", "u:",
                                                         "a^", "dotless", "i^", "u^", "e'">>
TurkishUppercase == ToSet(UpperLetters) \ {"E'"}
TurkishAlphabet == ToSet(LowerLetters) \ {"a^", "i^", "u^", "e'"}
Circumflex == [letter \in {"a^", "i^", "u^"} |->
                 CASE letter = "a^" -> "a" [] letter = "i^" -> "i" [] OTHER -> "u"]

Mapped(text, Letter(_)) == FoldLeft(LAMBDA done, char : Append(done, Letter(char)), <<>>, text)
TurkishLower(text) ==
  LET Swap(char, place) == IF place = 0 THEN char ELSE LowerLetters[place]
  IN  Mapped(text, LAMBDA char : Swap(char, SelectInSeq(UpperLetters, LAMBDA l : l = char)))
TurkishCapitalize(text) ==
  LET Swap(lower, place) == IF place = 0 THEN lower ELSE <<UpperLetters[place]>> \o Tail(lower)
      Of(lower) == Swap(lower, SelectInSeq(LowerLetters, LAMBDA l : lower # <<>> /\ l = lower[1]))
  IN  Of(TurkishLower(text))
NormalizeCircumflex(text) ==
  Mapped(text, LAMBDA char : IF char \in DOMAIN Circumflex THEN Circumflex[char] ELSE char)
NormalizeApostrophes(text) ==
  Mapped(text, LAMBDA char : IF char \in Apostrophe THEN "'" ELSE char)
WithoutDots(text) == SelectSeq(text, LAMBDA char : char # ".")

NormalizeForAnalysis(token) ==
  LET Of(lowered) == IF WithoutDots(lowered) = <<>> THEN lowered ELSE WithoutDots(lowered)
  IN  NormalizeApostrophes(Of(NormalizeCircumflex(TurkishLower(token))))

NormalizeRuntimeComponent(text) ==
  Mapped(NormalizeCircumflex(TurkishLower(text)), LAMBDA char :
    CASE char = "e'" -> "e"
      [] char \in TurkishAlphabet \cup {".", "-"} -> char
      [] OTHER -> "?")
-----------------------------------------------------------------------------
(* The apostrophe splits a token into a stem and an ending. *)
ApostropheAt(text) == SelectInSeq(text, LAMBDA char : char \in Apostrophe)
HasApostrophe(text) == ApostropheAt(text) # 0
ApostropheInside(text) == ApostropheAt(text) \in 2 .. (Len(text) - 1)
StemOf(text) == IF HasApostrophe(text) THEN SubSeq(text, 1, ApostropheAt(text) - 1) ELSE text
EndingOf(text) ==
  IF HasApostrophe(text) THEN SubSeq(text, ApostropheAt(text) + 1, Len(text)) ELSE <<>>

(* Everything between two separators. *)
Parts(text, separator) ==
  FoldLeft(LAMBDA parts, char :
             IF char = separator THEN Append(parts, <<>>)
             ELSE [parts EXCEPT ![Len(parts)] = Append(@, char)],
           << <<>> >>, text)
ContainsPart(text, part) == \E i \in DOMAIN text : IsPrefix(part, SubSeq(text, i, Len(text)))

IsUrl(token) ==
  LET Of(lower) ==
        IF \E start \in {"http://", "https://", "www."} : IsPrefix(Chars(start), lower)
        THEN Len(lower) > 4 /\ "." \in ToSet(lower)
        ELSE \E domain \in {".com", ".org", ".edu", ".gov", ".net", ".info"} :
               ContainsPart(Head(Parts(lower, "/")), Chars(domain))
  IN  Of(Mapped(StemOf(token), LAMBDA char :
           CASE char = "I" -> "i"
             [] char \in AsciiUpper \ {"I"} -> Head(TurkishLower(<<char>>))
             [] OTHER -> char))

IsDottedAbbreviation(token) ==
  LET stem == StemOf(token)
  IN  /\ EndingOf(token) # <<>> /\ "." \in ToSet(stem)
      /\ Len(stem) % 2 = 0
      /\ \A i \in DOMAIN stem : IF i % 2 = 1 THEN stem[i] \in TurkishUppercase ELSE stem[i] = "."

(* How a letter is called. *)
Pronounced(letter, last) ==
  CASE letter \in Vowel -> <<letter>>
    [] letter = "g^" -> <<"y", "u", "m", "u", "s,", "a", "k", "g", "e">>
    [] letter = "k" /\ last -> <<"k", "a">>
    [] letter = "w" -> <<"d", "a", "b", "dotless", "l", "y", "u">>
    [] letter = "q" -> <<"k", "u:">>
    [] letter = "x" -> <<"i", "k", "s">>
    [] OTHER -> <<letter, "e">>
LetterPronunciations(text) ==
  FlattenSeq([i \in DOMAIN text |-> IF text[i] \in TurkishAlphabet
                                    THEN Pronounced(text[i], i = Len(text)) ELSE <<>>])
-----------------------------------------------------------------------------
(* Roman numerals: only the one way to write a number is read. *)
RomanLetters == <<<<1000, "M">>, <<900, "CM">>, <<500, "D">>, <<400, "CD">>, <<100, "C">>,
                  <<90, "XC">>, <<50, "L">>, <<40, "XL">>, <<10, "X">>, <<9, "IX">>,
                  <<5, "V">>, <<4, "IV">>, <<1, "I">>>>
DecimalToRoman(decimal) ==
  FoldLeft(LAMBDA state, symbol :
             LET times == state.left \div symbol[1]
             IN  [left |-> state.left % symbol[1],
                  roman |-> state.roman
                              \o FlattenSeq([i \in 1 .. times |-> Chars(symbol[2])])],
           [left |-> decimal, roman |-> <<>>], RomanLetters).roman
RomanDigit(char) ==
  CHOOSE value \in {1, 5, 10, 50, 100, 500, 1000} :
    \E i \in DOMAIN RomanLetters : RomanLetters[i] = <<value, char>>

(* A smaller digit before a larger one is subtracted; 0 is no numeral. *)
RomanToDecimal(text) ==
  LET Add(state, char) ==
        LET current == RomanDigit(char)
        IN  IF current >= state.previous
            THEN [state EXCEPT !.total = @ + current, !.previous = current]
            ELSE IF current > state.total THEN [state EXCEPT !.ok = FALSE]
                 ELSE [state EXCEPT !.total = @ - current]
      Of(all) == IF all.ok /\ all.total \in 1 .. 3999 /\ DecimalToRoman(all.total) = text
                 THEN all.total ELSE 0
  IN  Of(FoldLeft(Add, [total |-> 0, previous |-> 0, ok |-> TRUE], Reverse(text)))
RomanNumeral(token) ==
  LET stem == StemOf(token)
  IN  IF stem # <<>> /\ Last(stem) = "." THEN Front(stem) ELSE stem
IsRoman(token) ==
  /\ RomanNumeral(token) # <<>>
  /\ ToSet(RomanNumeral(token)) \subseteq {"I", "L", "V", "C", "D", "M", "X"}
  /\ RomanToDecimal(RomanNumeral(token)) # 0
-----------------------------------------------------------------------------
(* Numerals.  The value is that of the last number word of the digits.     *)
DigitValue(char) == SelectInSeq(Chars("123456789"), LAMBDA d : d = char)
NoLemma == 0 - 1
Scale(zeros) ==
  CASE zeros = 2 -> 100
    [] zeros \in 3 .. 5 -> 1000
    [] zeros \in 6 .. 8 -> 1000000
    [] zeros \in 9 .. 11 -> 1000000000
    [] OTHER -> NoLemma

(* A number of zeros alone has the word of its length, but for one or none. *)
NumeralEndingValue(text) ==
  LET odd == SelectLastInSeq(text, LAMBDA char : char # "0")
      zeros == Len(text) - odd
  IN  CASE odd # 0 /\ text[odd] \in Digit ->
             (CASE zeros = 0 -> DigitValue(text[odd])
                [] zeros = 1 -> 10 * DigitValue(text[odd])
                [] OTHER -> Scale(zeros))
        [] odd # 0 /\ text[odd] \notin Digit ->
             (IF zeros = 0 THEN NoLemma ELSE 0)
        [] OTHER -> IF zeros = 0 THEN NoLemma ELSE IF zeros = 1 THEN 0 ELSE Scale(zeros)

(* The same of a number written without zeros in front. *)
NumberEndingValue(number) ==
  CASE number % 10 # 0 -> number % 10
    [] number % 10 = 0 /\ number % 100 # 0 -> number % 100
    [] number % 100 = 0 /\ number % 1000 # 0 -> 100
    [] OTHER -> 1000

(* The text searched for a number: d of four becomes voiced before a vowel. *)
NumeralText(value, ordinal, ending) ==
  LET lemma == Spelling[[value |-> value, ordinal |-> ordinal]]
      voiced == value = 4 /\ ~ordinal /\ ending # <<>> /\ ending[1] \in Vowel
  IN  (IF voiced THEN Append(Front(lemma), "d") ELSE lemma) \o ending

(* Without an apostrophe the ending starts after the last digit or dot. *)
SplitNumeral(text) ==
  IF HasApostrophe(text) THEN [stem |-> StemOf(text), ending |-> EndingOf(text)]
  ELSE LET cut == SelectLastInSeq(text, LAMBDA char : char \in Digit \cup {"."})
       IN  [stem |-> SubSeq(text, 1, cut), ending |-> SubSeq(text, cut + 1, Len(text))]

IsDigits(text) == text # <<>> /\ ToSet(text) \subseteq Digit
Unsigned(text) == IF text # <<>> /\ Head(text) \in {"+", "-"} THEN Tail(text) ELSE text
AreDigits(parts) == Len(parts) = 2 /\ IsDigits(parts[1]) /\ IsDigits(parts[2])
IsPair(text, separator) == AreDigits(Parts(Unsigned(text), separator))
IsReal(text) == IsPair(text, ",") \/ IsPair(text, ".")
Decimal(text) == FoldLeft(LAMBDA n, char : 10 * n + DigitValue(char), 0, Unsigned(text))
Byte(text) == IsDigits(IF text # <<>> /\ Head(text) = "+" THEN Tail(text) ELSE text)
                /\ Decimal(text) < 256

IsClock(parts) ==
  /\ Len(parts) = 2 /\ Len(parts[2]) = 2 /\ IsDigits(parts[2])
  /\ Byte(parts[1]) /\ Decimal(parts[1]) \in 1 .. 29 /\ Decimal(parts[2]) <= 59
IsDate(parts) ==
  /\ Len(parts) = 3 /\ Len(parts[3]) = 4 /\ IsDigits(parts[3])
  /\ Byte(parts[1]) /\ Decimal(parts[1]) <= 39
  /\ Byte(parts[2]) /\ Decimal(parts[2]) <= 19

NumeralKinds(stem) ==
  LET body == Unsigned(stem)
      leading == SelectInSeq(stem, LAMBDA char : char \notin Digit)
  IN  (IF IsDigits(body) THEN <<"Card">> ELSE <<>>)
        \o (IF stem # <<>> /\ Last(stem) = "." /\ IsDigits(Unsigned(Front(stem)))
            THEN <<"Ord">> ELSE <<>>)
        \o (IF IsPair(stem, "-") THEN <<"Range">> ELSE <<>>)
        \o (IF IsPair(stem, "/") THEN <<"Ratio">> ELSE <<>>)
        \o (IF IsReal(stem) THEN <<"Real">> ELSE <<>>)
        \o (IF leading > 1 /\ \A i \in leading .. Len(stem) : stem[i] \notin Digit
            THEN <<"Dist">> ELSE <<>>)
        \o (IF body # <<>> /\ Head(body) = "%" /\ (IsDigits(Unsigned(Tail(body))) \/ IsReal(Tail(body)))
            THEN <<"Percent">> ELSE <<>>)
        \o (IF \E separator \in {":", "."} : IsClock(Parts(stem, separator))
            THEN <<"Clock">> ELSE <<>>)
        \o (IF \E separator \in {".", "/"} : IsDate(Parts(stem, separator))
            THEN <<"Date">> ELSE <<>>)
=============================================================================
