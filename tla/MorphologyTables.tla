--------------------------- MODULE MorphologyTables ---------------------------
(***************************************************************************)
(* The binary tables of a morphology bundle: what the compiler of binary.rs *)
(* makes of the records of the bundle, what its validator asks of them, and *)
(* the indexes the runtime looks them up with.  A record is named by its    *)
(* key where the binary has an index; only the two orders that a binary     *)
(* search relies on, of the surfaces and of the stems, are positions (zero  *)
(* based, ranges half open, as in the code).                               *)
(***************************************************************************)
EXTENDS Conditions
LOCAL INSTANCE Naturals
LOCAL INSTANCE Sequences
LOCAL INSTANCE FiniteSets
LOCAL INSTANCE SequencesExt
LOCAL INSTANCE TLC

CONSTANTS
  Alphabet,     \* the characters in the order of their bytes
  DictionaryIds,\* the identifiers in the order of the bundle
  Morphemes,    \* morpheme identifiers
  States,       \* [key, name, morpheme, terminal, derivative] in the order of the keys
  Stems,        \* [surface, order, dictionary, state, bits] as in the bundle
  Edges,        \* [owner, to, morpheme, order, template, condition, count] as in the bundle
  NoCondition   \* the condition of an edge without one

Rank(char) == CHOOSE i \in DOMAIN Alphabet : Alphabet[i] = char
Before(left, right) ==
  \/ IsStrictPrefix(left, right)
  \/ \E i \in DOMAIN left \cap DOMAIN right :
       /\ SubSeq(left, 1, i - 1) = SubSeq(right, 1, i - 1)
       /\ Rank(left[i]) < Rank(right[i])

StateNamed == [key \in {States[i].key : i \in DOMAIN States} |->
                 States[CHOOSE i \in DOMAIN States : States[i].key = key]]
-----------------------------------------------------------------------------
(* What MorphBundle::validate asks of the records that meet. *)
ReferencesKnown ==
  /\ \A i \in DOMAIN States : States[i].morpheme \in Morphemes
  /\ \A i \in DOMAIN Stems : /\ Stems[i].dictionary \in DOMAIN Dictionary
                             /\ Stems[i].state \in DOMAIN StateNamed
  /\ \A id \in DOMAIN Dictionary : Dictionary[id].reference \in DOMAIN Dictionary \cup {Null}

EdgesConsistent ==
  \A i \in DOMAIN Edges :
    LET edge == Edges[i]
    IN  /\ {edge.owner, edge.to} \subseteq DOMAIN StateNamed
        /\ StateNamed[edge.to].morpheme = edge.morpheme
        /\ edge.morpheme \in Morphemes
        /\ edge.count = IF edge.condition = NoCondition THEN 0 ELSE ZemberekCount(edge.condition)
        /\ edge.condition # NoCondition => WellFormed(edge.condition)

BundleValid == ReferencesKnown /\ EdgesConsistent
-----------------------------------------------------------------------------
(* The table of interned strings, of which only the surfaces are searched. *)
Strings ==
  SortSeq(FoldLeft(LAMBDA seen, stem : IF stem.surface \in ToSet(seen) THEN seen
                                       ELSE Append(seen, stem.surface), <<>>, Stems), Before)

(* The first position whose element is not below, by halving. *)
RECURSIVE Bisect(_, _, _)
Bisect(below, low, high) ==
  IF low >= high THEN low
  ELSE IF below[(low + high) \div 2 + 1] THEN Bisect(below, (low + high) \div 2 + 1, high)
  ELSE Bisect(below, low, (low + high) \div 2)

Absent == Len(Strings)  \* no identifier
FindIn(strings, surface) ==
  LET at == Bisect([i \in DOMAIN strings |-> Before(strings[i], surface)], 0, Len(strings))
  IN  IF at < Len(strings) /\ strings[at + 1] = surface THEN at ELSE Len(strings)
Find(surface) == FindIn(Strings, surface)

(* Mutant of CompileStems: the stems stay in the order of the bundle.      *)
StemsAsDeclared == Stems

(* Stem records: by surface, and by the order of the bundle within one.    *)
CompileStems ==
  SortSeq(Stems, LAMBDA left, right :
    IF left.surface = right.surface THEN left.order < right.order
    ELSE Before(left.surface, right.surface))
StemRecord(stem) ==
  [surface |-> Find(stem.surface), text |-> stem.surface, dictionary |-> stem.dictionary,
   state |-> stem.state, bits |-> stem.bits]
StemTable == [i \in DOMAIN Stems |-> StemRecord(CompileStems[i])]

(* The edges of a state are a run of the edge table. *)
EdgesOf(key) ==
  SortSeq(SelectSeq(Edges, LAMBDA edge : edge.owner = key),
          LAMBDA left, right : left.order < right.order)
CompileEdge(edge) ==
  [to |-> edge.to, morpheme |-> edge.morpheme, template |-> edge.template, count |-> edge.count,
   program |-> IF edge.condition = NoCondition THEN <<>> ELSE Compile(edge.condition)]
CompileEdges(edges) == [i \in DOMAIN edges |-> CompileEdge(edges[i])]
EdgeTable == FlattenSeq([s \in DOMAIN States |-> CompileEdges(EdgesOf(States[s].key))])
Run(start, length) == [start |-> start, end |-> start + length]
EdgeRange ==
  [key \in DOMAIN StateNamed |->
    LET at == CHOOSE i \in DOMAIN States : States[i].key = key
    IN  Run(Total([i \in 1 .. (at - 1) |-> Len(EdgesOf(States[i].key))]), Len(EdgesOf(key)))]
-----------------------------------------------------------------------------
(* What BinaryBundleView::validate asks of the tables. *)
StemsValid(stems) ==
  /\ \A i \in 1 .. (Len(stems) - 1) : stems[i].surface <= stems[i + 1].surface
  /\ \A i, j \in DOMAIN stems : stems[i] = stems[j] => i = j

StatesValid(range, edges) ==
  /\ \A i \in 1 .. (Len(States) - 1) : range[States[i + 1].key].start = range[States[i].key].end
  /\ range[Head(States).key].start = 0
  /\ range[Last(States).key].end = Len(edges)

EdgesValid(edges) ==
  \A i \in DOMAIN edges : Validated(edges[i].program) = [ok |-> TRUE, count |-> edges[i].count]

BinaryValid == StemsValid(StemTable) /\ StatesValid(EdgeRange, EdgeTable) /\ EdgesValid(EdgeTable)
-----------------------------------------------------------------------------
(* The stems of one surface, by two binary searches. *)
StemRange(surfaces, surface) ==
  LET start == Bisect([i \in DOMAIN surfaces |-> surfaces[i] < surface], 0, Len(surfaces))
  IN  [start |-> start,
       end |-> Bisect([i \in DOMAIN surfaces |-> surfaces[i] <= surface], start, Len(surfaces))]
Surfaces(stems) == [i \in DOMAIN stems |-> stems[i].surface]
MatchesOf(surface) ==
  IF surface = Absent THEN [start |-> 0, end |-> 0] ELSE StemRange(Surfaces(StemTable), surface)
StemMatches(text) == MatchesOf(Find(text))

(* The prefix index: each run of equal surfaces ends in a node of its own, *)
(* named by the prefix that leads to it.                                   *)
RunStarts(stems) == {i \in DOMAIN stems : i > 1 => stems[i - 1].surface # stems[i].surface}
LastOfRun(stems, start) ==
  CHOOSE end \in start .. Len(stems) :
    /\ \A i \in start .. end : stems[i].surface = stems[start].surface
    /\ end < Len(stems) => stems[end + 1].surface # stems[start].surface
IndexOf(stems, starts) ==
  [ranges |-> [text \in {stems[i].text : i \in starts} |->
                 LET start == CHOOSE i \in starts : stems[i].text = text
                 IN  [start |-> start - 1, end |-> LastOfRun(stems, start)]],
   ok |-> \A i, j \in starts : stems[i].text = stems[j].text => i = j]
IndexStems(stems) == IndexOf(stems, RunStarts(stems))
PrefixIndex == IndexStems(StemTable)

(* The ranges met on the way down, one per prefix that is a stem. *)
RangesIn(ranges, text) ==
  LET stems == SelectSeq([n \in 1 .. Len(text) |-> n],
                         LAMBDA n : SubSeq(text, 1, n) \in DOMAIN ranges)
  IN  [k \in DOMAIN stems |->
         [end |-> stems[k], range |-> ranges[SubSeq(text, 1, stems[k])]]]
PrefixRanges(text) == RangesIn(PrefixIndex.ranges, text)

(* The positions of the stems of a dictionary item, by a counting sort. *)
StemIndices(stems) ==
  FlattenSeq([d \in DOMAIN DictionaryIds |->
    SelectSeq([i \in DOMAIN stems |-> i],
              LAMBDA i : stems[i].dictionary = DictionaryIds[d])])
Offset(stems, d) ==
  Cardinality({i \in DOMAIN stems : \E e \in 1 .. d : stems[i].dictionary = DictionaryIds[e]})
CandidatesIn(stems, d) ==
  SubSeq(StemIndices(stems), Offset(stems, d - 1) + 1, Offset(stems, d))
CandidateStems(id) ==
  CandidatesIn(StemTable, CHOOSE e \in DOMAIN DictionaryIds : DictionaryIds[e] = id)

(* The first noun of a state whose sounds are those of a name the dictionary lacks. *)
NounStateCandidate(bits, name) ==
  SelectInSeq(StemTable, LAMBDA stem :
    /\ stem.bits = bits
    /\ StateNamed[stem.state].name = name
    /\ Dictionary[stem.dictionary].pos = "Noun"
    /\ "Dummy" \notin Dictionary[stem.dictionary].attributes)
=============================================================================
