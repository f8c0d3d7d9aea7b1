----------------------------- MODULE ScoreCache -----------------------------
(***************************************************************************)
(* What a worker retains between sentences to score analyses: codes for    *)
(* what the perceptron sees of an analysis (a shared seed, and a worker's  *)
(* own additions to it), the analysis sets that hold codes, the scores of  *)
(* trigrams of codes in rows with an overflow table, and features prepared *)
(* per code, in a bank all workers share and in a bank of its own.         *)
(*                                                                         *)
(* Every table is an exact map here.  A score is represented by the        *)
(* contents it was computed from, so that a score computed from anything   *)
(* but the contents asked for is a wrong one.                              *)
(***************************************************************************)
EXTENDS Integers, FiniteSets

CONSTANTS
  Workers,
  Contents,               \* what the perceptron sees: lemma and IG sequence
  Begin, End,             \* the contents of the sentence boundary markers
  Seed,                   \* content -> its code in the compiled table
  SharedSlots,            \* slots of the shared bank, 0 when there is none
  EndSignature,           \* TRIGRAM_END_SIGNATURE (2^21 - 2)
  PreparedLimit,          \* the highest code with prepared features (2,000,000)
  MaxLive,                \* bound: contents in a sentence (max_sentence_tokens)
  MaxCarried,             \* bound: hypotheses that carry a row at a time
  AnalysisCapacity,       \* analysis sets a worker retains
  RowCapacity,            \* row_capacity
  InlineTransitions,      \* TRIGRAM_INLINE_TRANSITIONS (8)
  OverflowCapacity        \* max_entries of the overflow table

BeginSignature == EndSignature + 1

NoRow == -1

Bases == 0 .. Cardinality(DOMAIN Seed) - 1

ASSUME ScoreCacheConstants ==
  /\ IsFiniteSet(Contents)
  /\ Begin \notin Contents /\ End \notin Contents /\ Begin # End
  /\ DOMAIN Seed \subseteq Contents
  /\ Seed \in [DOMAIN Seed -> Bases]
  /\ \A c, d \in DOMAIN Seed : Seed[c] = Seed[d] => c = d
  /\ SharedSlots \in {0, Cardinality(DOMAIN Seed)}
  /\ EndSignature \in Nat /\ PreparedLimit \in Nat
  /\ PreparedLimit < EndSignature
  /\ MaxLive \in Nat /\ MaxCarried \in Nat /\ AnalysisCapacity \in Nat /\ RowCapacity \in Nat
  /\ InlineTransitions \in Nat /\ OverflowCapacity \in Nat

VARIABLES
  delta,                  \* scoring_interner: content -> code, per worker
  entries,                \* analysis sets retained: content -> code
  live,                   \* analysis sets of the sentence at hand
  handles,                \* the <<pair, row>> its hypotheses carry
  rowOf,                  \* pair of codes -> row
  inline,                 \* <<row, third code>> -> transition
  overflowed,             \* rows that once had no inline room
  overflow,               \* <<three codes>> -> transition
  prepared,               \* local index -> content its features are of
  shared                  \* the shared bank: code -> content

vars == <<delta, entries, live, handles, rowOf, inline, overflowed, overflow, prepared, shared>>

Empty == [key \in {} |-> 0]

Put(table, key, value) ==
  [k \in DOMAIN table \union {key} |-> IF k = key THEN value ELSE table[k]]

Size(table) == Cardinality(DOMAIN table)

Init ==
  /\ delta = [w \in Workers |-> Empty]
  /\ entries = [w \in Workers |-> Empty]
  /\ live = [w \in Workers |-> Empty]
  /\ handles = [w \in Workers |-> {}]
  /\ rowOf = [w \in Workers |-> Empty]
  /\ inline = [w \in Workers |-> Empty]
  /\ overflowed = [w \in Workers |-> {}]
  /\ overflow = [w \in Workers |-> Empty]
  /\ prepared = [w \in Workers |-> Empty]
  /\ shared = Empty

-----------------------------------------------------------------------------
(* Codes.                                                                  *)

(* Mutant of NewCode: the worker's codes start over from zero.             *)
NewCodeFromZero(table) == Size(table)

(* A worker numbers what the seed does not know after the seed.            *)
NewCode(table) == Size(Seed) + Size(table)

(* code_with_base: seed, then delta, then a new entry of the delta.        *)
Interned(table, content) ==
  IF content \in DOMAIN Seed \union DOMAIN table THEN table
  ELSE Put(table, content, NewCode(table))

CodeIn(table, content) ==
  IF content \in DOMAIN Seed THEN Seed[content] ELSE table[content]

(* FlatAnalysisCache::analyze, or a hit in the compiled table.  A set that *)
(* finds no room is used once and its content stays interned.              *)
Analyze(w, content) ==
  /\ content \notin DOMAIN live[w]
  /\ Size(live[w]) < MaxLive
  /\ IF content \in DOMAIN entries[w]
     THEN /\ live' = [live EXCEPT ![w] = Put(@, content, entries[w][content])]
          /\ UNCHANGED <<delta, entries>>
     ELSE LET table == Interned(delta[w], content)
              code == CodeIn(table, content)
          IN  /\ delta' = [delta EXCEPT ![w] = table]
              /\ live' = [live EXCEPT ![w] = Put(@, content, code)]
              /\ entries' = IF Size(entries[w]) < AnalysisCapacity
                            THEN [entries EXCEPT ![w] = Put(@, content, code)]
                            ELSE entries
  /\ UNCHANGED <<handles, rowOf, inline, overflowed, overflow, prepared, shared>>

-----------------------------------------------------------------------------
(* Prepared features.                                                      *)

SignatureOf(w, content) ==
  IF content = Begin THEN BeginSignature
  ELSE IF content = End THEN EndSignature
  ELSE live[w][content]

(* ensure_prepared_word: a slot is filled once, shared below SharedSlots,  *)
(* local above; codes beyond the limit (the markers') have no slot.        *)
SharedAfter(bank, code, content) ==
  IF code <= PreparedLimit /\ code < SharedSlots /\ code \notin DOMAIN bank
  THEN Put(bank, code, content) ELSE bank

LocalAfter(bank, code, content) ==
  IF code <= PreparedLimit /\ code >= SharedSlots /\ code - SharedSlots \notin DOMAIN bank
  THEN Put(bank, code - SharedSlots, content) ELSE bank

(* prepared_word: whose features the slot of a code holds.                 *)
PreparedWord(sharedBank, localBank, code) ==
  IF code < SharedSlots THEN sharedBank[code] ELSE localBank[code - SharedSlots]

(* score_uncached: the banks serve all three words or none of them.        *)
Computed(sharedBank, localBank, codes, words) ==
  IF \A i \in 1 .. 3 : codes[i] <= PreparedLimit
  THEN [i \in 1 .. 3 |-> PreparedWord(sharedBank, localBank, codes[i])]
  ELSE words

-----------------------------------------------------------------------------
(* Rows.                                                                   *)

(* pack_cached_trigram_score_key: a code that does not fit is not cached;  *)
(* packing three codes of 21 bits is injective, so the key is the triple.  *)
Cacheable(codes) == \A i \in 1 .. 3 : codes[i] <= BeginSignature

(* Mutant of CacheSignature: the end marker's own number still fits.       *)
CacheSignatureOffByOne(content, code) ==
  IF content \in {Begin, End} \/ code <= EndSignature THEN code ELSE BeginSignature + 1

(* AmbiguityScoringCode::new: codes from the end marker's on do not fit.   *)
CacheSignature(content, code) ==
  IF content \in {Begin, End} \/ code < EndSignature THEN code ELSE BeginSignature + 1

(* ensure_row: rows are never evicted; without room there is no row.       *)
EnsureRow(rows, pair) ==
  IF pair \in DOMAIN rows \/ Size(rows) = RowCapacity THEN rows
  ELSE Put(rows, pair, Size(rows))

RowAt(rows, pair) == IF pair \in DOMAIN rows THEN rows[pair] ELSE NoRow

(* TrigramScoreCache::get.                                                 *)
Found(w, row, key) ==
  \/ <<row, key[3]>> \in DOMAIN inline[w]
  \/ row \in overflowed[w] /\ key \in DOMAIN overflow[w]

Lookup(w, row, key) ==
  IF <<row, key[3]>> \in DOMAIN inline[w]
  THEN inline[w][<<row, key[3]>>] ELSE overflow[w][key]

InlineOf(table, row) == {k \in DOMAIN table : k[1] = row}

FitsInline(w, row, third) ==
  \/ <<row, third>> \in DOMAIN inline[w]
  \/ Cardinality(InlineOf(inline[w], row)) < InlineTransitions

StoreOverflow(w, row, key, transition) ==
  /\ overflowed' = [overflowed EXCEPT ![w] = @ \union {row}]
  /\ overflow' = IF Size(overflow[w]) < OverflowCapacity
                 THEN [overflow EXCEPT ![w] = Put(@, key, transition)]
                 ELSE overflow

(* TrigramScoreCache::insert.                                              *)
Store(w, row, key, transition) ==
  IF FitsInline(w, row, key[3])
  THEN /\ inline' = [inline EXCEPT ![w] = Put(@, <<row, key[3]>>, transition)]
       /\ UNCHANGED <<overflowed, overflow>>
  ELSE /\ StoreOverflow(w, row, key, transition)
       /\ UNCHANGED inline

First(key) == <<key[1], key[2]>>

(* Mutant of Second: the next hypothesis keeps the row of this one.        *)
SecondIsFirst(key) == <<key[1], key[2]>>

Second(key) == <<key[2], key[3]>>

(* A decoder has many hypotheses; the bound lets any MaxCarried of them    *)
(* stand for the others.                                                   *)
Carried(w, new) ==
  LET all == handles[w] \union new
      followed == IF Cardinality(all) <= MaxCarried THEN {all}
                  ELSE {kept \in SUBSET all : Cardinality(kept) = MaxCarried}
  IN  \E kept \in followed : handles' = [handles EXCEPT ![w] = kept]

Carry(w, need, key, row) ==
  Carried(w, IF need /\ row # NoRow THEN {<<<<key[2], key[3]>>, row>>} ELSE {})

CodesOf(w, words) == <<SignatureOf(w, words[1]), SignatureOf(w, words[2]), SignatureOf(w, words[3])>>

KeyOf(w, words) ==
  LET codes == CodesOf(w, words)
  IN  <<CacheSignature(words[1], codes[1]), CacheSignature(words[2], codes[2]),
        CacheSignature(words[3], codes[3])>>

Ensure(w, codes, words) ==
  /\ shared' = SharedAfter(SharedAfter(SharedAfter(shared,
                 codes[1], words[1]), codes[2], words[2]), codes[3], words[3])
  /\ prepared' = [prepared EXCEPT ![w] = LocalAfter(LocalAfter(LocalAfter(@,
                 codes[1], words[1]), codes[2], words[2]), codes[3], words[3])]

(* A retained transition without a next row answers only a caller that     *)
(* needs no next row.                                                      *)
Serves(w, row, key, need) ==
  row # NoRow /\ Found(w, row, key) /\ (need => Lookup(w, row, key).next # NoRow)

(* The features are looked up, or the words' own taken, after the slots    *)
(* were filled; a row that could not be had is not stored to.              *)
ScoreCached(w, words, key, row, rows, need) ==
  IF Serves(w, row, key, need)
  THEN /\ rowOf' = [rowOf EXCEPT ![w] = rows]
       /\ Carry(w, need, key, Lookup(w, row, key).next)
       /\ UNCHANGED <<inline, overflowed, overflow, prepared, shared>>
  ELSE LET codes == CodesOf(w, words)
           more == IF need THEN EnsureRow(rows, Second(key)) ELSE rows
           next == IF need THEN RowAt(more, Second(key)) ELSE NoRow
       IN  /\ Ensure(w, codes, words)
           /\ rowOf' = [rowOf EXCEPT ![w] = more]
           /\ Carry(w, need, key, next)
           /\ IF row = NoRow
              THEN UNCHANGED <<inline, overflowed, overflow>>
              ELSE Store(w, row, key,
                         [score |-> Computed(shared', prepared'[w], codes, words),
                          next |-> next])

(* score_compact_transition, from a row the hypothesis carries or none.    *)
Score(w, words, key, handle, need) ==
  LET rows == IF handle = NoRow THEN EnsureRow(rowOf[w], First(key)) ELSE rowOf[w]
      row == IF handle = NoRow THEN RowAt(rows, First(key)) ELSE handle
  IN  /\ IF Cacheable(key)
         THEN ScoreCached(w, words, key, row, rows, need)
         ELSE /\ Ensure(w, CodesOf(w, words), words)
              /\ UNCHANGED <<handles, rowOf, inline, overflowed, overflow>>
      /\ UNCHANGED <<delta, entries, live>>

-----------------------------------------------------------------------------
(* Sentences and batches.                                                  *)

(* The words a decoder scores: the begin marker stands only on the left,   *)
(* the end marker only on the right.                                       *)
Windows ==
  {words \in [1 .. 3 -> Contents \union {Begin, End}] :
     /\ words[1] # End /\ words[2] # End /\ words[3] # Begin
     /\ words[2] = Begin => words[1] = Begin /\ words[3] # End}

Requests(w) ==
  {words \in Windows : \A i \in 1 .. 3 : words[i] \in DOMAIN live[w] \union {Begin, End}}

Rows(w, key) == {NoRow} \union {h[2] : h \in {g \in handles[w] : g[1] = First(key)}}

(* The causal decoder carries no rows and needs none; the others do both.  *)
Transition(w) ==
  \E words \in Requests(w) :
    LET key == KeyOf(w, words)
    IN  \E handle \in Rows(w, key), need \in BOOLEAN :
          /\ handle # NoRow => need
          /\ Score(w, words, key, handle, need)

(* initial_score_row.                                                      *)
StartDecode(w) ==
  /\ DOMAIN live[w] # {}
  /\ LET pair == <<BeginSignature, BeginSignature>>
         rows == EnsureRow(rowOf[w], pair)
     IN  /\ rowOf' = [rowOf EXCEPT ![w] = rows]
         /\ Carried(w, IF pair \in DOMAIN rows THEN {<<pair, rows[pair]>>} ELSE {})
  /\ UNCHANGED <<delta, entries, live, inline, overflowed, overflow, prepared, shared>>

EndSentence(w) ==
  /\ live' = [live EXCEPT ![w] = Empty]
  /\ handles' = [handles EXCEPT ![w] = {}]
  /\ UNCHANGED <<delta, entries, rowOf, inline, overflowed, overflow, prepared, shared>>

(* Mutant of PreparedAfterClear: the features outlive the codes.           *)
PreparedAfterClearKept(bank) == bank

PreparedAfterClear(bank) == Empty

(* FlatAnalysisCache::clear, between batches.  The shared bank is not the  *)
(* worker's to clear.                                                      *)
Clear(w) ==
  /\ live[w] = Empty
  /\ delta' = [delta EXCEPT ![w] = Empty]
  /\ entries' = [entries EXCEPT ![w] = Empty]
  /\ handles' = [handles EXCEPT ![w] = {}]
  /\ rowOf' = [rowOf EXCEPT ![w] = Empty]
  /\ inline' = [inline EXCEPT ![w] = Empty]
  /\ overflowed' = [overflowed EXCEPT ![w] = {}]
  /\ overflow' = [overflow EXCEPT ![w] = Empty]
  /\ prepared' = [prepared EXCEPT ![w] = PreparedAfterClear(@)]
  /\ UNCHANGED <<live, shared>>

Next ==
  \E w \in Workers :
    \/ \E content \in Contents : Analyze(w, content)
    \/ StartDecode(w)
    \/ Transition(w)
    \/ EndSentence(w)
    \/ Clear(w)

Spec == Init /\ [][Next]_vars

-----------------------------------------------------------------------------
(* Properties.                                                             *)

Known(w) == DOMAIN Seed \union DOMAIN delta[w]

Words == Contents \union {Begin, End}

Triples == [1 .. 3 -> Words]

Codes == 0 .. Cardinality(Contents) + BeginSignature

RowNumbers == 0 .. RowCapacity - 1

Transitions == [score : Triples, next : {NoRow} \union RowNumbers]

(* Content and code identify each other within a worker, whichever of the  *)
(* two layers a code comes from, and what sentences and analysis sets hold *)
(* is the code the interner would give now.                                *)
CodesIdentifyContent ==
  \A w \in Workers :
    /\ \A c, d \in Known(w) : CodeIn(delta[w], c) = CodeIn(delta[w], d) => c = d
    /\ \A c \in DOMAIN live[w] : c \in Known(w) /\ live[w][c] = CodeIn(delta[w], c)
    /\ \A c \in DOMAIN entries[w] : c \in Known(w) /\ entries[w][c] = CodeIn(delta[w], c)

(* A score that is served from a row, inline or from the overflow table,   *)
(* was computed from exactly the words it is asked for, although rows are  *)
(* reached by stored row numbers, completed late, and codes are reused     *)
(* after a clear.                                                          *)
ScoresAreExact ==
  \A w \in Workers : \A words \in Requests(w) :
    LET key == KeyOf(w, words)
    IN  \A row \in Rows(w, key) \union {RowAt(rowOf[w], First(key))} :
          row # NoRow /\ Cacheable(key) /\ Found(w, row, key) => Lookup(w, row, key).score = words

(* The features in a slot are those of the content whose code leads to the *)
(* slot, for every worker that shares the bank.                            *)
BanksAreExact ==
  /\ \A code \in DOMAIN shared : shared[code] \in DOMAIN Seed /\ Seed[shared[code]] = code
  /\ \A w \in Workers : \A slot \in DOMAIN prepared[w] :
       /\ prepared[w][slot] \in Known(w)
       /\ CodeIn(delta[w], prepared[w][slot]) = slot + SharedSlots

(* A row number that a hypothesis or a transition carries is the row of    *)
(* the pair it stands for.                                                 *)
HandlesAreExact ==
  \A w \in Workers : \A h \in handles[w] : h[1] \in DOMAIN rowOf[w] /\ rowOf[w][h[1]] = h[2]
=============================================================================
