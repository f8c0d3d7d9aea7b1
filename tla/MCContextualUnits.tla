------------------------- MODULE MCContextualUnits -------------------------
(***************************************************************************)
(* A small lexicon and documents for ContextualUnits: words that the       *)
(* morphology knows, that only a fallback knows, and that nobody knows;    *)
(* numerals, clitics, code, controls and bytes.                            *)
(***************************************************************************)
EXTENDS ContextualUnits

LOCAL INSTANCE Naturals
LOCAL INSTANCE Sequences
LOCAL INSTANCE SequencesExt
LOCAL INSTANCE TLC
LOCAL INSTANCE LexicalScanner

Morpheme(id, text) == [id |-> id, surface |-> Chars(text), derivational |-> FALSE]
Analysis(pos, stem, ending, morphemes) ==
  [dictionary |-> stem, pos |-> pos, secondary |-> "None", stem |-> Chars(stem),
   ending |-> Chars(ending), morphemes |-> morphemes]

Plural == Analysis("Noun", "ev", "ler", <<Morpheme("Noun", "ev"), Morpheme("A3pl", "ler")>>)
Sheep == Analysis("Noun", "koyun", "", <<Morpheme("Noun", "koyun"), Morpheme("A3sg", "")>>)
Cove == Analysis("Noun", "koy", "un",
                 <<Morpheme("Noun", "koy"), Morpheme("A3sg", ""), Morpheme("P2sg", "un")>>)
And == Analysis("Conj", "de", "", <<Morpheme("Conj", "de")>>)
Other == Analysis("Noun", "elma", "", <<Morpheme("Noun", "elma")>>)
Ordinal == Analysis("Num", "3", "", <<Morpheme("Num", "3")>>)
Ninth == [Analysis("Num", "IX", "", <<Morpheme("Num", "IX")>>) EXCEPT !.secondary = "RomanNumeral"]
Dotted == [Analysis("Noun", "ab", "", <<Morpheme("Noun", "ab")>>) EXCEPT !.secondary = "RegAbbrv"]
Fish == [Analysis("Noun", "ba", "", <<Morpheme("Noun", "ba")>>)
           EXCEPT !.stem = <<"b", "a", "turkish">>,
                  !.morphemes = <<[id |-> "Noun", surface |-> <<"b", "a", "turkish">>,
                                   derivational |-> FALSE], Morpheme("A3sg", "")>>]

MCLexicon ==
  Chars("evler") :> <<Plural>> @@ Chars("EVLER") :> <<Plural>>
  @@ Chars("koyun") :> <<Other, Sheep, Cove>> @@ Chars("de") :> <<And>>
  @@ Chars("3'nci") :> <<Ordinal>> @@ Chars("IX'uncu") :> <<Ninth>> @@ Chars("a.b") :> <<Dotted>>
  @@ <<"b", "a", "turkish">> :> <<Fish>>
  @@ <<"b", "a", "turkish", "e", "r">> :>
       <<[Fish EXCEPT !.morphemes[2] = Morpheme("Aor", "er")]>>

(* The first candidate, or the last one after a word that is not a noun.   *)
MCDisambiguate(sets) ==
  FoldLeft(LAMBDA chosen, set :
             LET k == Len(chosen)
             IN  Append(chosen, IF k = 0 \/ sets[k][chosen[k]].pos = "Noun" THEN 1 ELSE Len(set)),
           <<>>, sets)

MCWords ==
  {Chars(text) : text \in {"evler", "koyun", "De", "evlermi", "evlerrr", "qqqqqqq", "3'nci",
     "3'nciq", "IX'uncu", "14:30'da", "1.5", "a.b", "x", "aB_c1", "==", "..", "\t", "\n", "f();"}}
  \cup {<<"b", "a", "s", "mark">>, <<"B", "A", "S">>, <<"b", "a", "s", "mark", "e", "r">>,
        <<"invalid">>, <<"esc">>, <<"foreign">>,
        <<"backtick", "a", "backtick">>}
MCJoined == {a \o <<" ">> \o b : a \in {Chars("koyun"), Chars("De"), Chars("x"), Chars("=")},
                               b \in {Chars("koyun"), Chars("de"), Chars("1.5"), <<"joiner">>}}
MCPhrases ==
  {Chars(text) : text \in {"De koyun.de koyun", "evler\nde", "x = y;\n}", "koyunevler", "a.b de",
     "1.5 koyun x", "qqqqqqq1.5", "evler de da", "_=koyun ", "de IX'uncu"}}
MCDocuments == MCWords \cup MCJoined \cup MCPhrases
RomanDocuments == {Chars("IX'uncu")}
MCListed == {"a", "e", " ", "turkish"}
MCModes == {"Auto", "Turkish", "Code"}
RomanModes == {"Turkish"}
=============================================================================
