------------------------------ MODULE Phonology ------------------------------
(***************************************************************************)
(* Turkish sound rules of the morphology runtime: what the surface read so *)
(* far asks of the next suffix, and how the template of a suffix is        *)
(* realised.  A surface is a sequence of characters (letters outside ASCII *)
(* have names: "u:" is u with diaeresis, "c," c with cedilla, "g^" soft g, *)
(* "a^" a with circumflex, "dotless" and "dotted" the two other i), and the *)
(* phonetic bits of a path are the set of their names.  A template is a    *)
(* sequence of tokens [kind, letter].                                      *)
(***************************************************************************)
LOCAL INSTANCE Naturals
LOCAL INSTANCE Sequences
LOCAL INSTANCE SequencesExt
LOCAL INSTANCE LexicalScanner

Vowel == ToSet(Chars("aeiouAEIOU"))
           \cup {"dotless", "dotted", "o:", "u:", "O:", "U:", "a^", "i^", "u^"}
Frontal == {"e", "E", "i", "dotted", "o:", "O:", "u:", "U:", "i^", "u^"}
Rounded == {"o", "O", "o:", "O:", "u", "U", "u:", "U:", "u^"}
Stop == {"c,", "C,", "k", "K", "p", "P", "t", "T"}
Voiceless == Stop \cup {"f", "F", "h", "H", "s", "S", "s,", "S,"}

Devoice(letter) ==
  CASE letter = "b" -> "p"
    [] letter = "c" -> "c,"
    [] letter = "d" -> "t"
    [] letter \in {"g", "g^"} -> "k"
    [] OTHER -> letter

HasVowel(text) == ToSet(text) \cap Vowel # {}

AttributesWithVowel(surface) ==
  LET vowel == Last(SelectSeq(surface, LAMBDA char : char \in Vowel))
  IN  {IF Last(surface) \in Vowel THEN "LastLetterVowel" ELSE "LastLetterConsonant",
       IF vowel \in Frontal THEN "LastVowelFrontal" ELSE "LastVowelBack",
       IF vowel \in Rounded THEN "LastVowelRounded" ELSE "LastVowelUnrounded",
       IF Head(surface) \in Vowel THEN "FirstLetterVowel" ELSE "FirstLetterConsonant"}

(* A piece without a vowel keeps the harmony of what is before it. *)
AttributesWithoutVowel(predecessor) ==
  (predecessor \cup {"LastLetterConsonant", "FirstLetterConsonant", "HasNoVowel"})
    \ {"LastLetterVowel", "ExpectsConsonant"}

MorphemicAttributes(surface, predecessor) ==
  IF surface = <<>> THEN predecessor
  ELSE (IF HasVowel(surface) THEN AttributesWithVowel(surface)
        ELSE AttributesWithoutVowel(predecessor))
         \cup (IF Last(surface) \in Voiceless THEN {"LastLetterVoiceless"}
               ELSE {"LastLetterVoiced"})
         \cup (IF Last(surface) \in Stop THEN {"LastLetterVoicelessStop"} ELSE {})
-----------------------------------------------------------------------------
(* The letters one token adds; NoHarmony when no vowel fits. *)
NoHarmony == <<"no harmony">>

AVowel(attributes) ==
  CASE "LastVowelBack" \in attributes -> <<"a">>
    [] "LastVowelFrontal" \in attributes -> <<"e">>
    [] OTHER -> NoHarmony

IVowel(attributes) ==
  CASE {"LastVowelFrontal", "LastVowelUnrounded"} \subseteq attributes -> <<"i">>
    [] {"LastVowelBack", "LastVowelUnrounded"} \subseteq attributes -> <<"dotless">>
    [] {"LastVowelBack", "LastVowelRounded"} \subseteq attributes -> <<"u">>
    [] {"LastVowelFrontal", "LastVowelRounded"} \subseteq attributes -> <<"u:">>
    [] OTHER -> NoHarmony

(* A vowel at the start of a suffix is dropped after a vowel. *)
RealizeToken(token, first, predecessor, attributes) ==
  CASE token.kind \in {"AVowel", "IVowel"} ->
         IF first /\ "LastLetterVowel" \in predecessor THEN <<>>
         ELSE IF token.kind = "AVowel" THEN AVowel(attributes) ELSE IVowel(attributes)
    [] token.kind = "DevoiceFirst" ->
         <<IF "LastLetterVoiceless" \in attributes THEN Devoice(token.letter) ELSE token.letter>>
    [] token.kind = "Append" ->
         IF "LastLetterVowel" \in attributes THEN <<token.letter>> ELSE <<>>
    [] OTHER -> <<token.letter>>

GenerateSurface(template, predecessor) ==
  FoldLeft(
    LAMBDA output, k :
      LET piece == RealizeToken(template[k], k = 1, predecessor,
                                MorphemicAttributes(output, predecessor))
      IN  IF NoHarmony \in {output, piece} THEN NoHarmony ELSE output \o piece,
    <<>>, [k \in DOMAIN template |-> k])

(* A suffix that ends in a letter of a changing pair says what must follow. *)
Closed(bits, template) ==
  (bits \ {"CannotTerminate"})
    \cup CASE Last(template).kind = "LastVoiced" -> {"ExpectsConsonant"}
           [] Last(template).kind = "LastNotVoiced" -> {"ExpectsVowel", "CannotTerminate"}
           [] OTHER -> {}

(* Analysis does not look at the sounds of a suffix that ends the word. *)
NextPhoneticBits(bits, tail, surface, template) ==
  IF surface = <<>> THEN bits
  ELSE Closed(IF tail = surface THEN bits ELSE MorphemicAttributes(surface, bits), template)

(* Mutant of GeneratedPhoneticBits: the end of the suffix asks for nothing. *)
GeneratedBitsUnclosed(bits, surface, template) ==
  IF surface = <<>> THEN bits ELSE MorphemicAttributes(surface, bits)

GeneratedPhoneticBits(bits, surface, template) ==
  IF surface = <<>> THEN bits ELSE Closed(MorphemicAttributes(surface, bits), template)
=============================================================================
