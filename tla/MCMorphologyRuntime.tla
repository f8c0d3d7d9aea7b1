------------------------- MODULE MCMorphologyRuntime -------------------------
(***************************************************************************)
(* A small Turkish: nouns with voicing (kitap, kitaba) and without (ev),    *)
(* numbers, proper names, abbreviations, a derivation to diminutives and   *)
(* one to verbs, a stem without a vowel, a dummy item and a state with an   *)
(* empty cycle.  The condition machine keeps two Booleans instead of 32, so *)
(* that its stack spills and comes back.                                   *)
(***************************************************************************)
EXTENDS MorphologyRuntime
LOCAL INSTANCE Naturals
LOCAL INSTANCE Sequences
LOCAL INSTANCE LexicalScanner
LOCAL INSTANCE Phonology

MCAlphabet == Chars("abcdefghijklmnopqrstuvwxyz") \o <<"c,", "g^", "dotless", "o:", "s,", "u:">>
MCMorphemes == {"Noun", "Num", "A3sg", "A3pl", "Pnon", "P3sg", "Nom", "Dat", "Loc", "Dim",
                "Become", "Past", "Zero", "Loop"}

Item(pos, attributes, reference) ==
  [pos |-> pos, secondary |-> "None", attributes |-> attributes, reference |-> reference]
MCDictionary ==
  [ev |-> Item("Noun", {}, "null"), kitap |-> Item("Noun", {"Voicing"}, "null"),
   ada |-> Item("Noun", {}, "null"), aday |-> Item("Noun", {"NoPlural"}, "null"),
   Om |-> Item("Noun", {}, "null"), Ada |-> Item("Noun", {}, "null"),
   Aba |-> Item("Noun", {"Dummy"}, "ada"), Te |-> Item("Noun", {}, "null"),
   iki |-> Item("Num", {}, "null"), ikinci |-> Item("Num", {}, "null"),
   uc |-> Item("Num", {}, "null"), dort |-> Item("Num", {"Voicing"}, "null"),
   otuz |-> Item("Num", {}, "null"), onuncu |-> Item("Num", {}, "null"),
   yuz |-> Item("Num", {}, "null"), zz |-> Item("Noun", {}, "null"),
   donen |-> Item("Noun", {}, "null"), suev |-> Item("Noun", {"Dummy"}, "ev")]
MCDictionaryIds == <<"Aba", "Ada", "Om", "Te", "ada", "aday", "donen", "dort", "ev", "iki",
                     "ikinci", "kitap", "onuncu", "otuz", "suev", "uc", "yuz", "zz">>

State(key, name, morpheme, terminal, derivative) ==
  [key |-> key, name |-> name, morpheme |-> morpheme, terminal |-> terminal,
   derivative |-> derivative]
MCStates ==
  << State("a3pl", "a3pl_S", "A3pl", FALSE, FALSE), State("a3sg", "a3sg_S", "A3sg", FALSE, FALSE),
     State("abbrv", "nounAbbrv_S", "Noun", FALSE, FALSE),
     State("become", "become_S", "Become", FALSE, TRUE),
     State("dat", "dat_ST", "Dat", TRUE, FALSE), State("dim", "dim_S", "Dim", FALSE, TRUE),
     State("loc", "loc_ST", "Loc", TRUE, FALSE), State("loop", "loop_S", "Loop", FALSE, FALSE),
     State("nom", "nom_ST", "Nom", TRUE, FALSE), State("noun", "noun_S", "Noun", FALSE, FALSE),
     State("num", "numeralRoot_ST", "Num", TRUE, FALSE),
     State("p3sg", "p3sg_S", "P3sg", FALSE, FALSE), State("past", "past_S", "Past", FALSE, FALSE),
     State("pnon", "pnon_S", "Pnon", FALSE, FALSE),
     State("proper", "nounProper_S", "Noun", FALSE, FALSE),
     State("person", "vA3sg_ST", "A3sg", TRUE, FALSE),
     State("zero", "numZeroDeriv_S", "Zero", FALSE, TRUE) >>

Sounds(text) == MorphemicAttributes(text, {})
Stem(surface, order, dictionary, state, more) ==
  [surface |-> surface, order |-> order, dictionary |-> dictionary, state |-> state,
   bits |-> Sounds(surface) \cup more]
Closing == {"ExpectsConsonant"}
Open == {"ExpectsVowel", "CannotTerminate"}
MCStems ==
  << Stem(Chars("ev"), 1, "ev", "noun", {}), Stem(Chars("kitap"), 2, "kitap", "noun", Closing),
     Stem(Chars("kitab"), 3, "kitap", "noun", Open), Stem(Chars("ada"), 4, "ada", "noun", {}),
     Stem(Chars("aday"), 5, "aday", "noun", {}), Stem(Chars("om"), 6, "Om", "proper", {}),
     Stem(Chars("ada"), 7, "Ada", "proper", {}), Stem(Chars("aba"), 8, "Aba", "proper", {}),
     Stem(Chars("te"), 9, "Te", "abbrv", {}), Stem(Chars("iki"), 10, "iki", "num", {}),
     Stem(Chars("ikinci"), 11, "ikinci", "num", {}), Stem(<<"u:", "c,">>, 12, "uc", "num", {}),
     Stem(<<"d", "o:", "r", "t">>, 13, "dort", "num", Closing),
     Stem(<<"d", "o:", "r", "d">>, 14, "dort", "num", Open),
     Stem(Chars("otuz"), 15, "otuz", "num", {}), Stem(Chars("onuncu"), 16, "onuncu", "num", {}),
     Stem(<<"y", "u:", "z">>, 17, "yuz", "num", {}),
     [Stem(Chars("zz"), 18, "zz", "noun", {}) EXCEPT !.bits = {"LastLetterConsonant"}],
     Stem(Chars("donen"), 19, "donen", "loop", {}), Stem(Chars("suev"), 20, "suev", "noun", {}) >>
-----------------------------------------------------------------------------
(* Conditions. *)
MCNoCondition == [kind |-> "none"]
Is(kind, names) == [kind |-> kind, of |-> names]
Not(formula) == [kind |-> "NOT", children |-> <<formula>>]
And(children) == [kind |-> "AND", children |-> children]
Or(children) == [kind |-> "OR", children |-> children]
Phonetic(attribute) == Is("HasPhoneticAttribute", <<attribute>>)
FirstDim == And(<<Is("RootPrimaryPosIs", <<"Noun">>), Not(Is("ContainsMorpheme", <<"Dim">>)),
                  Is("NoSurfaceAfterDerivation", <<>>)>>)
PluralAllowed == Not(Is("HasAnyRootAttribute", <<"NoPlural">>))

Letter(letter) == [kind |-> "Letter", letter |-> letter]
Token(kind, letter) == [kind |-> kind, letter |-> letter]
A == Token("AVowel", "")
I == Token("IVowel", "")
Edge(owner, to, morpheme, order, template, condition, count) ==
  [owner |-> owner, to |-> to, morpheme |-> morpheme, order |-> order, template |-> template,
   condition |-> condition, count |-> count]
Bare(owner, to, morpheme, order) == Edge(owner, to, morpheme, order, <<>>, MCNoCondition, 0)
DimTemplate(last, letter) == <<Token("DevoiceFirst", "c"), I, Token(last, letter)>>
MCEdges ==
  << Edge("noun", "a3pl", "A3pl", 2, <<Letter("l"), A, Letter("r")>>, PluralAllowed, 1),
     Bare("noun", "a3sg", "A3sg", 1), Bare("proper", "a3sg", "A3sg", 1),
     Bare("abbrv", "a3sg", "A3sg", 1), Bare("a3sg", "pnon", "Pnon", 1),
     Edge("a3sg", "p3sg", "P3sg", 2, <<Token("Append", "s"), I>>,
          Or(<<Phonetic("LastLetterVowel"), And(<<Is("HasTail", <<>>),
               Not(Phonetic("ExpectsConsonant"))>>)>>), 3),
     Bare("a3pl", "pnon", "Pnon", 1), Bare("pnon", "nom", "Nom", 1),
     Edge("pnon", "dat", "Dat", 2, <<Token("Append", "y"), A>>,
          Not(Phonetic("ExpectsConsonant")), 1),
     Edge("pnon", "loc", "Loc", 3, <<Token("DevoiceFirst", "d"), A>>,
          Not(Phonetic("ExpectsVowel")), 1),
     Bare("p3sg", "nom", "Nom", 1),
     Edge("p3sg", "loc", "Loc", 2, <<Letter("n"), Letter("d"), A>>, MCNoCondition, 0),
     Edge("nom", "dim", "Dim", 1, DimTemplate("LastVoiced", "k"), FirstDim, 3),
     Edge("nom", "dim", "Dim", 2, DimTemplate("LastNotVoiced", "g^"), FirstDim, 3),
     Bare("dim", "noun", "Noun", 1),
     Edge("nom", "become", "Become", 3, <<Letter("l"), A, Letter("s,")>>,
          Is("NoSurfaceAfterDerivation", <<>>), 1),
     Edge("become", "past", "Past", 1, <<Token("DevoiceFirst", "d"), I>>, MCNoCondition, 0),
     Bare("past", "person", "A3sg", 1), Bare("num", "zero", "Zero", 1),
     Bare("zero", "noun", "Noun", 1), Bare("loop", "loop", "Loop", 1) >>

(* One condition of every kind, and some whose operands spill and return. *)
Leaves ==
  {Is("HasRootAttribute", <<"Voicing">>), Is("HasAnyRootAttribute", <<"NoPlural", "Voicing">>),
   Phonetic("LastVowelFrontal"), Is("DictionaryItemIs", <<"ev">>),
   Is("DictionaryItemIsAny", <<"ev", "dort", "null">>), Is("DictionaryItemIsNone", <<"kitap">>),
   Is("SecondaryPosIs", <<"None">>), Is("HasAnySuffixSurface", <<>>), Is("HasNoTail", <<>>),
   Is("HasTailSequence", <<"A3sg", "Pnon">>), Is("ContainsMorphemeSequence", <<"Noun", "A3pl">>),
   Is("CurrentMorphemeIs", <<"Pnon">>), Is("CurrentMorphemeIsAny", <<"Pnon", "P3sg">>),
   Is("PreviousMorphemeIs", <<"A3sg">>), Is("PreviousMorphemeIsAny", <<"A3sg", "Dim">>),
   Is("PreviousGroupContainsMorpheme", <<"Noun">>), Is("CurrentStateIs", <<"pnon">>),
   Is("CurrentStateIsNot", <<"pnon">>), Is("PreviousStateIs", <<"a3sg">>),
   Is("PreviousStateIsAny", <<"a3sg", "num">>), Is("PreviousStateIsNot", <<"a3sg">>),
   Is("LastDerivationIs", <<"dim">>), Is("LastDerivationIsAny", <<"dim", "zero">>),
   Is("HasDerivation", <<>>), Is("CurrentGroupContainsAny", <<"a3sg">>),
   Is("PreviousGroupContains", <<"a3sg">>)}
MCFormulas ==
  {[kind |-> "AND", children |-> <<leaf, Or(<<Not(leaf), Is("HasTail", <<>>),
                                             Phonetic("LastLetterVowel")>>), leaf>>] : leaf \in Leaves}
    \cup {Or(<<Is("RootSurfaceIsAny", <<Chars("ev"), Chars("kitab")>>),
               And(<<Phonetic("LastVowelFrontal"), Is("HasTail", <<>>),
                     Is("RootSurfaceIs", <<Chars("ev")>>)>>)>>),
          Not(And(<<Is("HasTail", <<>>), Is("HasAnySuffixSurface", <<>>),
                    Not(Or(<<Is("HasDerivation", <<>>), Phonetic("ExpectsVowel"),
                             Phonetic("LastLetterVowel")>>))>>))}
-----------------------------------------------------------------------------
(* Numbers and their words. *)
MCSpelling ==
  [lemma \in [value : {0, 1, 2, 3, 4, 10, 30, 100, 1000}, ordinal : BOOLEAN] |->
     CASE lemma.value = 2 -> IF lemma.ordinal THEN Chars("ikinci") ELSE Chars("iki")
       [] lemma.value = 3 /\ ~lemma.ordinal -> <<"u:", "c,">>
       [] lemma.value = 4 /\ ~lemma.ordinal -> <<"d", "o:", "r", "t">>
       [] lemma.value = 10 /\ lemma.ordinal -> Chars("onuncu")
       [] lemma.value = 30 /\ ~lemma.ordinal -> Chars("otuz")
       [] lemma.value = 100 /\ ~lemma.ordinal -> <<"y", "u:", "z">>
       [] OTHER -> <<"?">>]

Short == [active |-> 8, nodes |-> 9, results |-> 4]
Roomy == [active |-> 8, nodes |-> 40, results |-> 4]
Tight == {[active |-> 4, nodes |-> 20, results |-> 4], Short,
          [active |-> 8, nodes |-> 20, results |-> 1]}
Tokens ==
  {Chars("ev"), Chars("evlerde"), Chars("Ev'de"), Chars("evi"), Chars("evinde"), Chars("kitap"),
   Chars("kitab"), Chars("kitaba"), Chars("kitaplar"), Chars("kitapta"),
   Chars("evle") \o <<"s,">> \o Chars("ti"), Chars("evcik"), Chars("adada"), Chars("adaylar"),
   Chars("adaya"), Chars("Ela'ya"), Chars("Ela") \o <<"quote">> \o Chars("ya"),
   Chars("ab.com'da"), Chars("ab.com"), Chars("T.C.'ye"), Chars("IV'te"), Chars("IV'e"),
   Chars("IIII"), Chars("X.'da"), Chars("3'te"), Chars("4'") \o <<"u:">>, Chars("14:30'da"),
   Chars("2nci"), Chars("2'de"), Chars("10.'da"), Chars("00"), Chars("1.4'te"), Chars("zz"),
   Chars("zzler"), Chars("zz'te"), Chars("suevler"), Chars("'ev"), Chars("..."),
   <<>>, <<"I">> \o Chars("k'a")}
Generate(dictionary, morphemes, limits) ==
  [kind |-> "generate", dictionary |-> dictionary, morphemes |-> morphemes, limits |-> limits]
MCCalls ==
  {[kind |-> "analyze", token |-> token, limits |-> Roomy] : token \in Tokens}
    \cup {[kind |-> "analyze", token |-> token, limits |-> limits]
            : token \in {Chars("evlerde"), Chars("donen"), Chars("kitapta"), Chars("evcik"), Chars("adaya"),
                         Chars("4'") \o <<"u:">>}, limits \in Tight}
    \cup {Generate(dictionary, morphemes, Roomy)
            : dictionary \in {"ev", "kitap", "aday", "dort", "suev", "zz"},
              morphemes \in {<<"Noun", "A3pl", "Loc">>, <<"A3sg", "Dat">>, <<"Noun", "P3sg">>,
                             <<"P3sg", "Loc">>, <<"Dim", "Noun", "A3sg">>, <<"Dim">>,
                             <<"Dim", "A3pl">>, <<"Become", "Past">>, <<>>, <<"Num", "Loc">>}}
    \cup {Generate("ev", <<"A3pl">>, limits) : limits \in Tight}
    \cup {Generate("donen", <<"Dat">>, Short), Generate("ev", <<"Abl">>, Roomy),
          Generate("ab", <<>>, Roomy), Generate("ev", <<>>, [Roomy EXCEPT !.results = 0])}
=============================================================================
