------------------------ MODULE RetainedCachesProofs ------------------------
(***************************************************************************)
(* What is kept between calls, and who may touch it.                       *)
(*                                                                         *)
(* First the caches of a worker: what a worker retains never changes a     *)
(* score, and the tables of ScoreCache stay exact for every seed, every    *)
(* capacity and any number of workers.  The tables are stated as           *)
(* predicates on their values, so that a lemma on an operator of the       *)
(* module carries over to each worker's tables.  A key is computed here    *)
(* from the worker's codes (Key), not from the sentence (KeyOf), because   *)
(* rows outlive sentences.                                                 *)
(*                                                                         *)
(* Then the runtimes a Python object retains behind its two mutexes        *)
(* (PythonSurfaceTokenizer), for any number of threads, calls and thread   *)
(* counts.                                                                 *)
(***************************************************************************)
EXTENDS ScoreCache, PythonSurfaceTokenizer, FiniteSetTheorems, TLAPS

SeedSize == Cardinality(DOMAIN Seed)

IsTable(t) == t = [k \in DOMAIN t |-> t[k]] /\ IsFiniteSet(DOMAIN t)

(* A worker's own codes follow the seed's without a gap or a repetition.   *)
DeltaOK(t) ==
  /\ IsTable(t)
  /\ DOMAIN t \subseteq Contents \ DOMAIN Seed
  /\ \A c \in DOMAIN t : t[c] \in SeedSize .. SeedSize + Size(t) - 1
  /\ \A c, d \in DOMAIN t : t[c] = t[d] => c = d

Coded(t) == DOMAIN Seed \union DOMAIN t

CurrentOK(table, t) ==
  /\ IsTable(table)
  /\ \A c \in DOMAIN table : c \in Coded(t) /\ table[c] = CodeIn(t, c)

SharedOK(bank) ==
  /\ IsTable(bank)
  /\ \A code \in DOMAIN bank : bank[code] \in DOMAIN Seed /\ Seed[bank[code]] = code

LocalOK(bank, t) ==
  /\ IsTable(bank)
  /\ \A slot \in DOMAIN bank :
       slot \in Nat /\ bank[slot] \in Coded(t) /\ CodeIn(t, bank[slot]) = slot + SharedSlots

(* Rows are numbered without a gap or a repetition.                        *)
RowsOK(rows) ==
  /\ IsTable(rows)
  /\ \A p \in DOMAIN rows : rows[p] \in 0 .. Size(rows) - 1
  /\ \A p, q \in DOMAIN rows : rows[p] = rows[q] => p = q

Extends(more, rows) ==
  \A p \in DOMAIN rows : p \in DOMAIN more /\ more[p] = rows[p]

(* The key of three words under a worker's codes.                          *)
Code(t, x) ==
  IF x = Begin THEN BeginSignature ELSE IF x = End THEN EndSignature ELSE CodeIn(t, x)

Sig(t, x) == CacheSignature(x, Code(t, x))

Key(t, s) == <<Sig(t, s[1]), Sig(t, s[2]), Sig(t, s[3])>>

Wordlike(t) == Coded(t) \union {Begin, End}

-----------------------------------------------------------------------------
(* Tables.                                                                 *)

(* The sizes of the compiled table and of the shared bank are naturals.    *)
LEMMA Sizes ==
  /\ IsFiniteSet(DOMAIN Seed) /\ SeedSize \in Nat /\ SharedSlots \in Nat
  /\ \A c \in DOMAIN Seed : Seed[c] \in 0 .. SeedSize - 1
<1>1. IsFiniteSet(DOMAIN Seed)
  BY ScoreCacheConstants, FS_Subset
<1>2. SeedSize \in Nat
  BY <1>1, FS_CardinalityType DEF SeedSize
<1>3. QED
  BY <1>1, <1>2, ScoreCacheConstants DEF SeedSize, Bases

(* The table that has one entry more than another, or another value in it. *)
IsPut(new, t, key, value) ==
  /\ IsTable(new)
  /\ DOMAIN new = DOMAIN t \union {key}
  /\ new[key] = value
  /\ \A k \in DOMAIN t : k # key => new[k] = t[k]
  /\ Size(t) \in Nat
  /\ key \notin DOMAIN t => Size(new) = Size(t) + 1

(* Put adds or replaces one entry, and enlarges the table by one exactly   *)
(* when the key is new.                                                    *)
LEMMA PutTable ==
  ASSUME NEW t, IsTable(t), NEW key, NEW value
  PROVE  IsPut(Put(t, key, value), t, key, value)
<1>1. /\ DOMAIN Put(t, key, value) = DOMAIN t \union {key}
      /\ Put(t, key, value)[key] = value
      /\ \A k \in DOMAIN t : k # key => Put(t, key, value)[k] = t[k]
      /\ Put(t, key, value) = [k \in DOMAIN Put(t, key, value) |-> Put(t, key, value)[k]]
  BY DEF Put
<1>2. IsFiniteSet(DOMAIN t \union {key})
  BY FS_AddElement DEF IsTable
<1>3. key \notin DOMAIN t => Cardinality(DOMAIN t \union {key}) = Cardinality(DOMAIN t) + 1
  BY FS_AddElement DEF IsTable
<1>4. Size(t) \in Nat
  BY FS_CardinalityType DEF IsTable, Size
<1>5. QED
  BY <1>1, <1>2, <1>3, <1>4 DEF IsTable, Size, IsPut

(* The empty table is every kind of table.                                 *)
LEMMA EmptyTables ==
  /\ IsTable(Empty) /\ DOMAIN Empty = {} /\ DeltaOK(Empty) /\ RowsOK(Empty) /\ SharedOK(Empty)
  /\ \A t : CurrentOK(Empty, t) /\ LocalOK(Empty, t)
<1>1. DOMAIN Empty = {} /\ Empty = [k \in DOMAIN Empty |-> Empty[k]]
  BY DEF Empty
<1>2. IsTable(Empty)
  BY <1>1, FS_EmptySet DEF IsTable
<1>3. QED
  BY <1>1, <1>2 DEF DeltaOK, RowsOK, SharedOK, CurrentOK, LocalOK

-----------------------------------------------------------------------------
(* Codes.                                                                  *)

(* Codes are naturals, and no two contents a worker knows share one.       *)
LEMMA CodesInjective ==
  ASSUME NEW t, DeltaOK(t)
  PROVE  /\ \A c \in Coded(t) : CodeIn(t, c) \in Nat
         /\ \A c \in Coded(t) : CodeIn(t, c) < SeedSize <=> c \in DOMAIN Seed
         /\ \A c, d \in Coded(t) : CodeIn(t, c) = CodeIn(t, d) => c = d
<1>1. \A c \in DOMAIN Seed : CodeIn(t, c) = Seed[c] /\ CodeIn(t, c) \in 0 .. SeedSize - 1
  BY Sizes DEF CodeIn
<1>2. \A c \in DOMAIN t : c \notin DOMAIN Seed /\ CodeIn(t, c) = t[c]
  BY DEF DeltaOK, CodeIn
<1>3. Size(t) \in Nat
  BY FS_CardinalityType DEF DeltaOK, IsTable, Size
<1>4. \A c \in DOMAIN t : CodeIn(t, c) \in Nat /\ CodeIn(t, c) >= SeedSize
  BY <1>2, <1>3, Sizes DEF DeltaOK
<1>5. \A c \in Coded(t) : CodeIn(t, c) \in Nat
  BY <1>1, <1>4, Sizes DEF Coded
<1>6. \A c \in Coded(t) : CodeIn(t, c) < SeedSize <=> c \in DOMAIN Seed
  BY <1>1, <1>2, <1>4, Sizes DEF Coded
<1>7. ASSUME NEW c \in Coded(t), NEW d \in Coded(t), CodeIn(t, c) = CodeIn(t, d)
      PROVE  c = d
  <2>1. CASE c \in DOMAIN Seed
    BY <2>1, <1>1, <1>6, <1>7, ScoreCacheConstants
  <2>2. CASE c \notin DOMAIN Seed
    <3>1. c \in DOMAIN t /\ d \in DOMAIN t
      BY <2>2, <1>6, <1>7 DEF Coded
    <3>2. t[c] = t[d]
      BY <3>1, <1>2, <1>7
    <3>3. QED
      BY <3>1, <3>2 DEF DeltaOK
  <2>3. QED
    BY <2>1, <2>2
<1>8. QED
  BY <1>5, <1>6, <1>7

(* Interning gives the content a code, and keeps every code given so far.  *)
LEMMA InternedKeeps ==
  ASSUME NEW t, DeltaOK(t), NEW content \in Contents
  PROVE  /\ DeltaOK(Interned(t, content))
         /\ content \in Coded(Interned(t, content))
         /\ \A c \in Coded(t) :
              c \in Coded(Interned(t, content)) /\ CodeIn(Interned(t, content), c) = CodeIn(t, c)
<1>1. CASE content \in DOMAIN Seed \union DOMAIN t
  BY <1>1 DEF Interned, Coded
<1>2. CASE content \notin DOMAIN Seed \union DOMAIN t
  <2> DEFINE new == Put(t, content, NewCode(t))
  <2>1. Interned(t, content) = new
    BY <1>2 DEF Interned
  <2>2. IsTable(t)
    BY DEF DeltaOK
  <2>3. /\ IsTable(new) /\ DOMAIN new = DOMAIN t \union {content}
        /\ new[content] = SeedSize + Size(t)
        /\ \A k \in DOMAIN t : new[k] = t[k]
        /\ Size(t) \in Nat /\ Size(new) = Size(t) + 1
    <3>1. NewCode(t) = SeedSize + Size(t)
      BY DEF NewCode, SeedSize, Size
    <3>2. content \notin DOMAIN t
      BY <1>2
    <3> HIDE DEF new
    <3>3. IsPut(new, t, content, NewCode(t))
      BY <2>2, PutTable DEF new
    <3>4. QED
      BY <3>1, <3>2, <3>3 DEF IsPut
  <2> HIDE DEF new
  <2>4. \A c \in DOMAIN t : t[c] \in Nat /\ t[c] < SeedSize + Size(t) /\ t[c] >= SeedSize
    BY <2>3, Sizes DEF DeltaOK
  <2>5. DeltaOK(new)
    <3>1. DOMAIN new \subseteq Contents \ DOMAIN Seed
      BY <1>2, <2>3 DEF DeltaOK
    <3>2. \A c \in DOMAIN new : new[c] \in SeedSize .. SeedSize + Size(new) - 1
      BY <2>3, <2>4, Sizes
    <3>3. \A c, d \in DOMAIN new : new[c] = new[d] => c = d
      BY <2>3, <2>4, Sizes DEF DeltaOK
    <3>4. QED
      BY <2>3, <3>1, <3>2, <3>3 DEF DeltaOK
  <2>6. \A c \in Coded(t) : c \in Coded(new) /\ CodeIn(new, c) = CodeIn(t, c)
    BY <2>3, <1>2 DEF Coded, CodeIn
  <2>7. QED
    BY <2>1, <2>3, <2>5, <2>6 DEF Coded
<1>3. QED
  BY <1>1, <1>2

(* No two words of a worker, markers included, share a code that fits.     *)
LEMMA SigInjective ==
  ASSUME NEW t, DeltaOK(t), NEW x \in Wordlike(t), NEW y \in Wordlike(t),
         Sig(t, x) = Sig(t, y), Sig(t, x) <= BeginSignature
  PROVE  x = y
<1>1. /\ EndSignature \in Nat /\ BeginSignature = EndSignature + 1
      /\ Begin \notin Contents /\ End \notin Contents /\ Begin # End
      /\ DOMAIN Seed \subseteq Contents
  BY ScoreCacheConstants DEF BeginSignature
<1>2. Coded(t) \subseteq Contents
  BY <1>1 DEF Coded, DeltaOK
<1>3. ASSUME NEW c \in Coded(t)
      PROVE  /\ CodeIn(t, c) \in Nat
             /\ Sig(t, c) = IF CodeIn(t, c) < EndSignature THEN CodeIn(t, c) ELSE BeginSignature + 1
  <2>1. CodeIn(t, c) \in Nat
    BY CodesInjective
  <2>2. c # Begin /\ c # End
    BY <1>1, <1>2
  <2>3. QED
    BY <2>1, <2>2 DEF Sig, Code, CacheSignature
<1>4. Sig(t, Begin) = EndSignature + 1 /\ Sig(t, End) = EndSignature
  BY <1>1 DEF Sig, Code, CacheSignature
<1>5. CASE x \in Coded(t) /\ y \in Coded(t)
  <2>1. CodeIn(t, x) = CodeIn(t, y)
    BY <1>1, <1>3, <1>5
  <2>2. QED
    BY <2>1, <1>5, CodesInjective
<1>6. CASE x \in Coded(t) /\ y \in {Begin, End}
  BY <1>1, <1>3, <1>4, <1>6
<1>7. CASE x \in {Begin, End} /\ y \in Coded(t)
  BY <1>1, <1>3, <1>4, <1>7
<1>8. CASE x \in {Begin, End} /\ y \in {Begin, End}
  BY <1>1, <1>4, <1>8
<1>9. QED
  BY <1>5, <1>6, <1>7, <1>8 DEF Wordlike

(* Words with the same key are the same words, when the key fits.          *)
LEMMA KeyInjective ==
  ASSUME NEW t, DeltaOK(t),
         NEW s \in [1 .. 3 -> Wordlike(t)], NEW words \in [1 .. 3 -> Wordlike(t)],
         Key(t, s) = Key(t, words), Cacheable(Key(t, s))
  PROVE  s = words
<1>1. /\ s[1] \in Wordlike(t) /\ s[2] \in Wordlike(t) /\ s[3] \in Wordlike(t)
      /\ words[1] \in Wordlike(t) /\ words[2] \in Wordlike(t) /\ words[3] \in Wordlike(t)
  OBVIOUS
<1>2. /\ Sig(t, s[1]) = Sig(t, words[1])
      /\ Sig(t, s[2]) = Sig(t, words[2])
      /\ Sig(t, s[3]) = Sig(t, words[3])
  BY DEF Key
<1>3. /\ Sig(t, s[1]) <= BeginSignature
      /\ Sig(t, s[2]) <= BeginSignature
      /\ Sig(t, s[3]) <= BeginSignature
  BY DEF Key, Cacheable
<1>4. s[1] = words[1] /\ s[2] = words[2] /\ s[3] = words[3]
  BY <1>1, <1>2, <1>3, SigInjective
<1>5. \A i \in 1 .. 3 : i = 1 \/ i = 2 \/ i = 3
  OBVIOUS
<1>6. QED
  BY <1>4, <1>5

-----------------------------------------------------------------------------
(* Rows and banks.                                                         *)

(* A row is had or not, and no other pair's row changes.                   *)
LEMMA EnsureRowKeeps ==
  ASSUME NEW rows, RowsOK(rows), NEW pair
  PROVE  /\ RowsOK(EnsureRow(rows, pair))
         /\ Extends(EnsureRow(rows, pair), rows)
<1>1. CASE pair \in DOMAIN rows \/ Size(rows) = RowCapacity
  BY <1>1 DEF EnsureRow, Extends
<1>2. CASE ~(pair \in DOMAIN rows \/ Size(rows) = RowCapacity)
  <2> DEFINE new == Put(rows, pair, Size(rows))
  <2>1. EnsureRow(rows, pair) = new
    BY <1>2 DEF EnsureRow
  <2> HIDE DEF new
  <2>2. IsPut(new, rows, pair, Size(rows))
    BY PutTable DEF new, RowsOK
  <2>3. \A p \in DOMAIN rows : new[p] = rows[p] /\ rows[p] \in 0 .. Size(rows) - 1
    BY <1>2, <2>2 DEF IsPut, RowsOK
  <2>4. new[pair] = Size(rows) /\ Size(rows) \in Nat /\ Size(new) = Size(rows) + 1
    BY <1>2, <2>2 DEF IsPut
  <2>5. \A p \in DOMAIN new : p \in DOMAIN rows \/ p = pair
    BY <2>2 DEF IsPut
  <2>6. \A p \in DOMAIN new : new[p] \in 0 .. Size(new) - 1
    BY <2>3, <2>4, <2>5
  <2>7. ASSUME NEW p \in DOMAIN new, NEW q \in DOMAIN new, new[p] = new[q] PROVE p = q
    <3>1. CASE p \in DOMAIN rows /\ q \in DOMAIN rows
      BY <3>1, <2>3, <2>7 DEF RowsOK
    <3>2. CASE p \in DOMAIN rows /\ q = pair
      BY <3>2, <2>3, <2>4, <2>7
    <3>3. CASE p = pair /\ q \in DOMAIN rows
      BY <3>3, <2>3, <2>4, <2>7
    <3>4. QED
      BY <3>1, <3>2, <3>3, <2>5
  <2>8. IsTable(new) /\ \A p \in DOMAIN rows : p \in DOMAIN new
    BY <2>2 DEF IsPut
  <2>9. QED
    BY <2>1, <2>3, <2>6, <2>7, <2>8 DEF RowsOK, Extends
<1>3. QED
  BY <1>1, <1>2

(* A slot of the shared bank is filled with the content whose code leads   *)
(* to it, whichever worker fills it.                                       *)
LEMMA SharedAfterKeeps ==
  ASSUME NEW bank, SharedOK(bank), NEW t, DeltaOK(t), NEW x \in Wordlike(t)
  PROVE  /\ SharedOK(SharedAfter(bank, Code(t, x), x))
         /\ Extends(SharedAfter(bank, Code(t, x), x), bank)
         /\ Code(t, x) <= PreparedLimit /\ Code(t, x) < SharedSlots
              => Code(t, x) \in DOMAIN SharedAfter(bank, Code(t, x), x)
<1> DEFINE code == Code(t, x)
<1>1. CASE ~(code <= PreparedLimit /\ code < SharedSlots /\ code \notin DOMAIN bank)
  BY <1>1 DEF SharedAfter, Extends
<1>2. CASE code <= PreparedLimit /\ code < SharedSlots /\ code \notin DOMAIN bank
  <2> DEFINE new == Put(bank, code, x)
  <2>1. SharedAfter(bank, code, x) = new
    BY <1>2 DEF SharedAfter
  <2>2. x \in Coded(t) /\ code = CodeIn(t, x)
    BY <1>2, ScoreCacheConstants DEF Wordlike, Code, BeginSignature
  <2>3. x \in DOMAIN Seed /\ Seed[x] = code
    <3>1. SharedSlots = SeedSize
      BY <1>2, <2>2, CodesInjective, ScoreCacheConstants DEF SeedSize
    <3>2. QED
      BY <1>2, <2>2, <3>1, CodesInjective DEF CodeIn
  <2> HIDE DEF new, code
  <2>4. IsPut(new, bank, code, x)
    BY PutTable DEF new, SharedOK
  <2>5. SharedOK(new)
    BY <1>2, <2>3, <2>4 DEF IsPut, SharedOK
  <2>6. Extends(new, bank) /\ code \in DOMAIN new
    BY <1>2, <2>4 DEF IsPut, Extends
  <2>7. QED
    BY <2>1, <2>5, <2>6 DEF code
<1>3. QED
  BY <1>1, <1>2

(* A worker's own slot is filled with the content whose code leads to it.  *)
LEMMA LocalAfterKeeps ==
  ASSUME NEW t, DeltaOK(t), NEW bank, LocalOK(bank, t), NEW x \in Wordlike(t)
  PROVE  /\ LocalOK(LocalAfter(bank, Code(t, x), x), t)
         /\ Extends(LocalAfter(bank, Code(t, x), x), bank)
         /\ Code(t, x) <= PreparedLimit /\ Code(t, x) >= SharedSlots
              => Code(t, x) - SharedSlots \in DOMAIN LocalAfter(bank, Code(t, x), x)
<1> DEFINE code == Code(t, x)
<1>1. CASE ~(code <= PreparedLimit /\ code >= SharedSlots /\ code - SharedSlots \notin DOMAIN bank)
  BY <1>1 DEF LocalAfter, Extends
<1>2. CASE code <= PreparedLimit /\ code >= SharedSlots /\ code - SharedSlots \notin DOMAIN bank
  <2> DEFINE slot == code - SharedSlots
             new == Put(bank, slot, x)
  <2>1. LocalAfter(bank, code, x) = new
    BY <1>2 DEF LocalAfter
  <2>2. x \in Coded(t) /\ code = CodeIn(t, x)
    BY <1>2, ScoreCacheConstants DEF Wordlike, Code, BeginSignature
  <2>3. code \in Nat
    BY <2>2, CodesInjective
  <2> HIDE DEF new, code
  <2>4. slot \in Nat /\ slot + SharedSlots = code
    BY <1>2, <2>3, Sizes
  <2> HIDE DEF slot
  <2>5. IsPut(new, bank, slot, x)
    BY PutTable DEF new, LocalOK
  <2>6. slot \notin DOMAIN bank
    BY <1>2 DEF slot
  <2>7. LocalOK(new, t)
    BY <2>2, <2>4, <2>5, <2>6 DEF IsPut, LocalOK
  <2>8. Extends(new, bank) /\ slot \in DOMAIN new
    BY <2>5, <2>6 DEF IsPut, Extends
  <2>9. QED
    BY <2>1, <2>7, <2>8 DEF code, slot
<1>3. QED
  BY <1>1, <1>2

-----------------------------------------------------------------------------
(* Transitions.                                                            *)

(* A retained transition is of the words its key is the key of, and leads  *)
(* to the row of the pair that follows.                                    *)
Denotes(t, rows, key, transition) ==
  /\ transition.score \in [1 .. 3 -> Wordlike(t)]
  /\ key = Key(t, transition.score)
  /\ Cacheable(key)
  /\ transition.next # NoRow =>
       Second(key) \in DOMAIN rows /\ rows[Second(key)] = transition.next

InlineEntryOK(t, rows, k, transition) ==
  LET key == Key(t, transition.score)
  IN  /\ Denotes(t, rows, key, transition)
      /\ First(key) \in DOMAIN rows
      /\ k = <<rows[First(key)], key[3]>>

InlineOK(t, rows, table) ==
  /\ IsTable(table)
  /\ \A k \in DOMAIN table : InlineEntryOK(t, rows, k, table[k])

OverflowOK(t, rows, table) ==
  /\ IsTable(table)
  /\ \A key \in DOMAIN table : Denotes(t, rows, key, table[key])

HandlesOK(hs, rows) ==
  \A h \in hs : h[1] \in DOMAIN rows /\ rows[h[1]] = h[2]

CodesKept(t, more) ==
  \A c \in Coded(t) : c \in Coded(more) /\ CodeIn(more, c) = CodeIn(t, c)

(* New codes leave the keys of known words alone.                          *)
LEMMA KeyKept ==
  ASSUME NEW t, NEW more, CodesKept(t, more), NEW s \in [1 .. 3 -> Wordlike(t)]
  PROVE  s \in [1 .. 3 -> Wordlike(more)] /\ Key(more, s) = Key(t, s)
<1>1. \A x \in Wordlike(t) : x \in Wordlike(more) /\ Sig(more, x) = Sig(t, x)
  BY DEF Wordlike, CodesKept, Sig, Code
<1>2. s[1] \in Wordlike(t) /\ s[2] \in Wordlike(t) /\ s[3] \in Wordlike(t)
  OBVIOUS
<1>3. Key(more, s) = Key(t, s)
  BY <1>1, <1>2 DEF Key
<1>4. QED
  BY <1>1, <1>3

(* New codes and new rows leave what a transition denotes alone.           *)
LEMMA DenotesKept ==
  ASSUME NEW t, NEW more, CodesKept(t, more),
         NEW rows, NEW moreRows, Extends(moreRows, rows),
         NEW key, NEW transition, Denotes(t, rows, key, transition)
  PROVE  Denotes(more, moreRows, key, transition)
<1>1. /\ transition.score \in [1 .. 3 -> Wordlike(more)]
      /\ Key(more, transition.score) = Key(t, transition.score)
  BY KeyKept DEF Denotes
<1>2. QED
  BY <1>1 DEF Denotes, Extends

(* New codes and new rows leave the tables of transitions exact.           *)
LEMMA TransitionsKept ==
  ASSUME NEW t, NEW more, CodesKept(t, more),
         NEW rows, NEW moreRows, Extends(moreRows, rows),
         NEW table, NEW spill, InlineOK(t, rows, table), OverflowOK(t, rows, spill)
  PROVE  InlineOK(more, moreRows, table) /\ OverflowOK(more, moreRows, spill)
<1>1. ASSUME NEW k \in DOMAIN table
      PROVE  InlineEntryOK(more, moreRows, k, table[k])
  <2> DEFINE key == Key(t, table[k].score)
  <2>1. Denotes(t, rows, key, table[k]) /\ First(key) \in DOMAIN rows
        /\ k = <<rows[First(key)], key[3]>>
    BY DEF InlineOK, InlineEntryOK
  <2>2. Denotes(more, moreRows, key, table[k])
    BY <2>1, DenotesKept
  <2>3. Key(more, table[k].score) = key
    BY <2>2 DEF Denotes
  <2>4. First(key) \in DOMAIN moreRows /\ moreRows[First(key)] = rows[First(key)]
    BY <2>1 DEF Extends
  <2> HIDE DEF key
  <2>5. QED
    BY <2>1, <2>2, <2>3, <2>4 DEF InlineEntryOK
<1>2. \A key \in DOMAIN spill : Denotes(more, moreRows, key, spill[key])
  BY DenotesKept DEF OverflowOK
<1>3. QED
  BY <1>1, <1>2 DEF InlineOK, OverflowOK

(* What a row answers, inline or from the overflow table, is of the words  *)
(* asked for when the row is that of their first pair.                     *)
LEMMA AnswerExact ==
  ASSUME NEW t, DeltaOK(t), NEW rows, RowsOK(rows),
         NEW words \in [1 .. 3 -> Wordlike(t)], Cacheable(Key(t, words)),
         First(Key(t, words)) \in DOMAIN rows,
         NEW table, InlineOK(t, rows, table),
         NEW spill, OverflowOK(t, rows, spill)
  PROVE  LET key == Key(t, words)
             k == <<rows[First(key)], key[3]>>
         IN  /\ k \in DOMAIN table =>
                  Denotes(t, rows, key, table[k]) /\ table[k].score = words
             /\ key \in DOMAIN spill =>
                  Denotes(t, rows, key, spill[key]) /\ spill[key].score = words
<1> DEFINE key == Key(t, words)
           k == <<rows[First(key)], key[3]>>
<1>1. ASSUME k \in DOMAIN table
      PROVE  Denotes(t, rows, key, table[k])
  <2> DEFINE found == Key(t, table[k].score)
  <2>1. Denotes(t, rows, found, table[k]) /\ First(found) \in DOMAIN rows
        /\ k = <<rows[First(found)], found[3]>>
    BY <1>1 DEF InlineOK, InlineEntryOK
  <2>2. rows[First(found)] = rows[First(key)] /\ found[3] = key[3]
    BY <2>1
  <2>3. First(found) = First(key)
    BY <2>1, <2>2 DEF RowsOK
  <2>4. found = key
    BY <2>2, <2>3 DEF First, Key
  <2>5. QED
    BY <2>1, <2>4
<1>2. ASSUME key \in DOMAIN spill
      PROVE  Denotes(t, rows, key, spill[key])
  BY <1>2 DEF OverflowOK
<1>3. ASSUME NEW transition, Denotes(t, rows, key, transition)
      PROVE  transition.score = words
  BY <1>3, KeyInjective DEF Denotes
<1> HIDE DEF key, k
<1>4. QED
  BY <1>1, <1>2, <1>3 DEF key, k

(* Storing a transition of a key at the row of its first pair.             *)
LEMMA StoreExact ==
  ASSUME NEW t, NEW rows, NEW key, NEW transition, Denotes(t, rows, key, transition),
         First(key) \in DOMAIN rows,
         NEW table, InlineOK(t, rows, table), NEW spill, OverflowOK(t, rows, spill)
  PROVE  /\ InlineOK(t, rows, Put(table, <<rows[First(key)], key[3]>>, transition))
         /\ OverflowOK(t, rows, Put(spill, key, transition))
<1> DEFINE k == <<rows[First(key)], key[3]>>
           new == Put(table, k, transition)
           more == Put(spill, key, transition)
<1>1. InlineEntryOK(t, rows, k, transition)
  BY DEF Denotes, InlineEntryOK
<1> HIDE DEF k, new, more
<1>2. IsPut(new, table, k, transition)
  BY PutTable DEF new, InlineOK
<1>3. IsPut(more, spill, key, transition)
  BY PutTable DEF more, OverflowOK
<1>4. InlineOK(t, rows, new)
  BY <1>1, <1>2 DEF InlineOK, IsPut
<1>5. OverflowOK(t, rows, more)
  BY <1>3 DEF OverflowOK, IsPut
<1>6. QED
  BY <1>4, <1>5 DEF k, new, more

-----------------------------------------------------------------------------
(* The inductive invariant.                                                *)

FunctionsOK ==
  /\ delta = [w \in Workers |-> delta[w]]
  /\ entries = [w \in Workers |-> entries[w]]
  /\ live = [w \in Workers |-> live[w]]
  /\ handles = [w \in Workers |-> handles[w]]
  /\ rowOf = [w \in Workers |-> rowOf[w]]
  /\ inline = [w \in Workers |-> inline[w]]
  /\ overflowed = [w \in Workers |-> overflowed[w]]
  /\ overflow = [w \in Workers |-> overflow[w]]
  /\ prepared = [w \in Workers |-> prepared[w]]

WorkerOK(w) ==
  /\ DeltaOK(delta[w])
  /\ CurrentOK(live[w], delta[w])
  /\ CurrentOK(entries[w], delta[w])
  /\ LocalOK(prepared[w], delta[w])
  /\ RowsOK(rowOf[w])
  /\ InlineOK(delta[w], rowOf[w], inline[w])
  /\ OverflowOK(delta[w], rowOf[w], overflow[w])
  /\ HandlesOK(handles[w], rowOf[w])

IInv ==
  /\ FunctionsOK
  /\ SharedOK(shared)
  /\ \A w \in Workers : WorkerOK(w)

(* What a worker's tables hold depends on its own tables only.             *)
LEMMA OthersKeep ==
  ASSUME NEW w \in Workers, WorkerOK(w),
         delta'[w] = delta[w], live'[w] = live[w], entries'[w] = entries[w],
         prepared'[w] = prepared[w], rowOf'[w] = rowOf[w], inline'[w] = inline[w],
         overflow'[w] = overflow[w], handles'[w] = handles[w]
  PROVE  WorkerOK(w)'
BY DEF WorkerOK

(* The empty tables of a new or cleared worker.                            *)
LEMMA EmptyTransitions ==
  \A t, rows : InlineOK(t, rows, Empty) /\ OverflowOK(t, rows, Empty) /\ HandlesOK({}, rows)
BY EmptyTables DEF InlineOK, OverflowOK, HandlesOK

(* New workers have empty tables, and so does the shared bank.             *)
LEMMA InitIInv ==
  ASSUME Init PROVE IInv
<1>1. FunctionsOK
  BY DEF Init, FunctionsOK
<1>2. SharedOK(shared)
  BY EmptyTables DEF Init
<1>3. ASSUME NEW w \in Workers PROVE WorkerOK(w)
  <2>1. /\ delta[w] = Empty /\ entries[w] = Empty /\ live[w] = Empty /\ handles[w] = {}
        /\ rowOf[w] = Empty /\ inline[w] = Empty /\ overflow[w] = Empty /\ prepared[w] = Empty
    BY DEF Init
  <2>2. QED
    BY <2>1, EmptyTables, EmptyTransitions DEF WorkerOK
<1>4. QED
  BY <1>1, <1>2, <1>3 DEF IInv

(* A sentence asks for words the worker knows, under the keys and codes    *)
(* they always have for this worker.                                       *)
LEMMA RequestsKnown ==
  ASSUME NEW w \in Workers, WorkerOK(w), NEW words \in Requests(w)
  PROVE  /\ words \in [1 .. 3 -> Wordlike(delta[w])]
         /\ CodesOf(w, words) = <<Code(delta[w], words[1]), Code(delta[w], words[2]),
                                  Code(delta[w], words[3])>>
         /\ KeyOf(w, words) = Key(delta[w], words)
<1>1. words \in [1 .. 3 -> Contents \union {Begin, End}]
      /\ \A i \in 1 .. 3 : words[i] \in DOMAIN live[w] \union {Begin, End}
  BY DEF Requests, Windows
<1>2. \A x \in DOMAIN live[w] \union {Begin, End} :
        x \in Wordlike(delta[w]) /\ SignatureOf(w, x) = Code(delta[w], x)
  BY DEF WorkerOK, CurrentOK, Wordlike, SignatureOf, Code
<1>3. words \in [1 .. 3 -> Wordlike(delta[w])]
  BY <1>1, <1>2
<1>4. /\ SignatureOf(w, words[1]) = Code(delta[w], words[1])
      /\ SignatureOf(w, words[2]) = Code(delta[w], words[2])
      /\ SignatureOf(w, words[3]) = Code(delta[w], words[3])
  BY <1>1, <1>2
<1>5. QED
  BY <1>3, <1>4 DEF CodesOf, KeyOf, Key, Sig

(* Filling the slots of three words keeps the banks exact, and the score   *)
(* computed from them is that of the words.                                *)
LEMMA EnsureExact ==
  ASSUME IInv, NEW w \in Workers, NEW words \in Requests(w), Ensure(w, CodesOf(w, words), words)
  PROVE  /\ SharedOK(shared')
         /\ prepared' = [v \in Workers |-> prepared'[v]]
         /\ LocalOK(prepared'[w], delta[w])
         /\ \A v \in Workers \ {w} : prepared'[v] = prepared[v]
         /\ Computed(shared', prepared'[w], CodesOf(w, words), words) = words
<1> DEFINE t == delta[w]
           code(i) == Code(t, words[i])
           codes == CodesOf(w, words)
           S1 == SharedAfter(shared, code(1), words[1])
           S2 == SharedAfter(S1, code(2), words[2])
           S3 == SharedAfter(S2, code(3), words[3])
           L1 == LocalAfter(prepared[w], code(1), words[1])
           L2 == LocalAfter(L1, code(2), words[2])
           L3 == LocalAfter(L2, code(3), words[3])
<1>1. /\ WorkerOK(w) /\ DeltaOK(t) /\ SharedOK(shared) /\ LocalOK(prepared[w], t)
      /\ prepared = [v \in Workers |-> prepared[v]]
  BY DEF IInv, WorkerOK, FunctionsOK
<1>2. words \in [1 .. 3 -> Wordlike(t)] /\ codes = <<code(1), code(2), code(3)>>
  BY <1>1, RequestsKnown
<1>3. words[1] \in Wordlike(t) /\ words[2] \in Wordlike(t) /\ words[3] \in Wordlike(t)
  BY <1>2
<1>4. shared' = S3 /\ prepared' = [prepared EXCEPT ![w] = L3]
  BY <1>2 DEF Ensure
<1>5. prepared'[w] = L3 /\ prepared' = [v \in Workers |-> prepared'[v]]
      /\ \A v \in Workers \ {w} : prepared'[v] = prepared[v]
  BY <1>1, <1>4
<1> HIDE DEF codes, t, code, S1, S2, S3, L1, L2, L3
<1>6. SharedOK(S1) /\ (code(1) <= PreparedLimit /\ code(1) < SharedSlots => code(1) \in DOMAIN S1)
  BY <1>1, <1>3, SharedAfterKeeps DEF S1, code
<1>7. /\ SharedOK(S2) /\ Extends(S2, S1)
      /\ code(2) <= PreparedLimit /\ code(2) < SharedSlots => code(2) \in DOMAIN S2
  BY <1>1, <1>3, <1>6, SharedAfterKeeps DEF S2, code
<1>8. /\ SharedOK(S3) /\ Extends(S3, S2)
      /\ code(3) <= PreparedLimit /\ code(3) < SharedSlots => code(3) \in DOMAIN S3
  BY <1>1, <1>3, <1>7, SharedAfterKeeps DEF S3, code
<1>9. /\ LocalOK(L1, t)
      /\ code(1) <= PreparedLimit /\ code(1) >= SharedSlots => code(1) - SharedSlots \in DOMAIN L1
  BY <1>1, <1>3, LocalAfterKeeps DEF L1, code
<1>10. /\ LocalOK(L2, t) /\ Extends(L2, L1)
       /\ code(2) <= PreparedLimit /\ code(2) >= SharedSlots => code(2) - SharedSlots \in DOMAIN L2
  BY <1>1, <1>3, <1>9, LocalAfterKeeps DEF L2, code
<1>11. /\ LocalOK(L3, t) /\ Extends(L3, L2)
       /\ code(3) <= PreparedLimit /\ code(3) >= SharedSlots => code(3) - SharedSlots \in DOMAIN L3
  BY <1>1, <1>3, <1>10, LocalAfterKeeps DEF L3, code
<1>12. \A i \in 1 .. 3 :
         /\ code(i) <= PreparedLimit /\ code(i) < SharedSlots => code(i) \in DOMAIN S3
         /\ code(i) <= PreparedLimit /\ code(i) >= SharedSlots => code(i) - SharedSlots \in DOMAIN L3
  <2>1. \A i \in 1 .. 3 : i = 1 \/ i = 2 \/ i = 3
    OBVIOUS
  <2>2. QED
    BY <2>1, <1>6, <1>7, <1>8, <1>9, <1>10, <1>11 DEF Extends
<1>13. ASSUME NEW i \in 1 .. 3, code(i) <= PreparedLimit
       PROVE  PreparedWord(S3, L3, code(i)) = words[i]
  <2>1. words[i] \in Coded(t) /\ code(i) = CodeIn(t, words[i])
    BY <1>2, <1>13, ScoreCacheConstants DEF Wordlike, Code, BeginSignature, code
  <2>2. code(i) \in Nat
    BY <1>1, <2>1, CodesInjective
  <2>3. CASE code(i) < SharedSlots
    <3>1. S3[code(i)] \in DOMAIN Seed /\ Seed[S3[code(i)]] = code(i)
      BY <1>8, <1>12, <1>13, <2>3 DEF SharedOK
    <3>2. S3[code(i)] \in Coded(t) /\ CodeIn(t, S3[code(i)]) = CodeIn(t, words[i])
      BY <2>1, <3>1 DEF Coded, CodeIn
    <3>3. S3[code(i)] = words[i]
      BY <1>1, <2>1, <3>2, CodesInjective
    <3>4. QED
      BY <2>3, <3>3 DEF PreparedWord
  <2>4. CASE ~(code(i) < SharedSlots)
    <3> DEFINE slot == code(i) - SharedSlots
    <3>1. slot \in DOMAIN L3 /\ slot + SharedSlots = code(i)
      BY <1>12, <1>13, <2>2, <2>4, Sizes
    <3>2. L3[slot] \in Coded(t) /\ CodeIn(t, L3[slot]) = CodeIn(t, words[i])
      BY <1>11, <2>1, <3>1 DEF LocalOK
    <3>3. L3[slot] = words[i]
      BY <1>1, <2>1, <3>2, CodesInjective
    <3>4. QED
      BY <2>4, <3>3 DEF PreparedWord
  <2>5. QED
    BY <2>3, <2>4
<1>14. Computed(S3, L3, codes, words) = words
  <2>1. \A i \in 1 .. 3 : codes[i] = code(i)
    BY <1>2
  <2>2. CASE \A i \in 1 .. 3 : codes[i] <= PreparedLimit
    <3>1. \A i \in 1 .. 3 : PreparedWord(S3, L3, codes[i]) = words[i]
      BY <1>13, <2>1, <2>2
    <3>2. words = [i \in 1 .. 3 |-> words[i]]
      BY <1>2
    <3>3. QED
      BY <2>2, <3>1, <3>2 DEF Computed
  <2>3. CASE ~(\A i \in 1 .. 3 : codes[i] <= PreparedLimit)
    BY <2>3 DEF Computed
  <2>4. QED
    BY <2>2, <2>3
<1>15. QED
  BY <1>4, <1>5, <1>8, <1>11, <1>14 DEF codes, t

-----------------------------------------------------------------------------
(* Steps.                                                                  *)

(* Interning a content keeps what is retained under the earlier codes.     *)
LEMMA AnalyzeKeeps ==
  ASSUME IInv, NEW w \in Workers, NEW content \in Contents, Analyze(w, content)
  PROVE  IInv'
<1>1. /\ WorkerOK(w) /\ FunctionsOK /\ SharedOK(shared)
      /\ IsTable(live[w]) /\ IsTable(entries[w])
  BY DEF IInv, WorkerOK, CurrentOK
<1>2. UNCHANGED <<handles, rowOf, inline, overflowed, overflow, prepared, shared>>
  BY DEF Analyze
<1>3. CASE content \in DOMAIN entries[w]
  <2> DEFINE sentence == Put(live[w], content, entries[w][content])
  <2>1. live' = [live EXCEPT ![w] = sentence] /\ delta' = delta /\ entries' = entries
    BY <1>3 DEF Analyze
  <2> HIDE DEF sentence
  <2>2. FunctionsOK'
    BY <1>1, <1>2, <2>1 DEF FunctionsOK
  <2>3. IsPut(sentence, live[w], content, entries[w][content])
    BY <1>1, PutTable DEF sentence
  <2>4. CurrentOK(sentence, delta[w])
    BY <1>1, <1>3, <2>3 DEF WorkerOK, CurrentOK, IsPut
  <2>5. live'[w] = sentence /\ \A v \in Workers \ {w} : live'[v] = live[v]
    BY <1>1, <2>1 DEF FunctionsOK
  <2>6. WorkerOK(w)'
    BY <1>1, <1>2, <2>1, <2>4, <2>5 DEF WorkerOK
  <2>7. ASSUME NEW v \in Workers, v # w PROVE WorkerOK(v)'
    BY <1>2, <2>1, <2>5, <2>7, OthersKeep DEF IInv
  <2>8. QED
    BY <1>1, <1>2, <2>2, <2>6, <2>7 DEF IInv
<1>4. CASE content \notin DOMAIN entries[w]
  <2> DEFINE table == Interned(delta[w], content)
             code == CodeIn(table, content)
             sentence == Put(live[w], content, code)
             sets == IF Size(entries[w]) < AnalysisCapacity
                     THEN Put(entries[w], content, code) ELSE entries[w]
  <2>1. /\ delta' = [delta EXCEPT ![w] = table]
        /\ live' = [live EXCEPT ![w] = sentence]
        /\ entries' = [entries EXCEPT ![w] = sets]
    BY <1>1, <1>4 DEF Analyze, FunctionsOK
  <2> HIDE DEF table, code, sentence, sets
  <2>2. FunctionsOK'
    BY <1>1, <1>2, <2>1 DEF FunctionsOK
  <2>3. /\ delta'[w] = table /\ live'[w] = sentence /\ entries'[w] = sets
        /\ \A v \in Workers \ {w} :
             delta'[v] = delta[v] /\ live'[v] = live[v] /\ entries'[v] = entries[v]
    BY <1>1, <2>1 DEF FunctionsOK
  <2>4. DeltaOK(table) /\ content \in Coded(table) /\ CodesKept(delta[w], table)
    BY <1>1, InternedKeeps DEF table, WorkerOK, CodesKept
  <2>5. IsPut(sentence, live[w], content, code)
    BY <1>1, PutTable DEF sentence
  <2>6. CurrentOK(sentence, table)
    BY <1>1, <2>4, <2>5 DEF WorkerOK, CurrentOK, IsPut, CodesKept, code
  <2>7. IsPut(Put(entries[w], content, code), entries[w], content, code)
    BY <1>1, PutTable
  <2>8. CurrentOK(entries[w], table)
    BY <1>1, <2>4 DEF WorkerOK, CurrentOK, CodesKept
  <2>9. CurrentOK(Put(entries[w], content, code), table)
    BY <2>4, <2>7, <2>8 DEF CurrentOK, IsPut, code
  <2>10. CurrentOK(sets, table)
    BY <2>8, <2>9 DEF sets
  <2>11. LocalOK(prepared[w], table)
    BY <1>1, <2>4 DEF WorkerOK, LocalOK, CodesKept
  <2>12. Extends(rowOf[w], rowOf[w])
    BY DEF Extends
  <2>13. InlineOK(table, rowOf[w], inline[w]) /\ OverflowOK(table, rowOf[w], overflow[w])
    BY <1>1, <2>4, <2>12, TransitionsKept DEF WorkerOK
  <2>14. WorkerOK(w)'
    BY <1>1, <1>2, <2>3, <2>4, <2>6, <2>10, <2>11, <2>13 DEF WorkerOK
  <2>15. ASSUME NEW v \in Workers, v # w PROVE WorkerOK(v)'
    BY <1>2, <2>3, <2>15, OthersKeep DEF IInv
  <2>16. QED
    BY <1>1, <1>2, <2>2, <2>14, <2>15 DEF IInv
<1>5. QED
  BY <1>3, <1>4

(* Hypotheses that come carry the row of their pair.                       *)
LEMMA CarriedKeeps ==
  ASSUME FunctionsOK, NEW w \in Workers, NEW new, Carried(w, new),
         NEW rows, NEW more, Extends(more, rows),
         HandlesOK(handles[w], rows), HandlesOK(new, more)
  PROVE  /\ HandlesOK(handles'[w], more)
         /\ handles' = [v \in Workers |-> handles'[v]]
         /\ \A v \in Workers \ {w} : handles'[v] = handles[v]
<1>1. PICK kept \in SUBSET (handles[w] \union new) : handles' = [handles EXCEPT ![w] = kept]
  BY DEF Carried
<1>2. /\ handles'[w] = kept /\ handles' = [v \in Workers |-> handles'[v]]
      /\ \A v \in Workers \ {w} : handles'[v] = handles[v]
  BY <1>1 DEF FunctionsOK
<1>3. HandlesOK(kept, more)
  BY <1>1 DEF HandlesOK, Extends
<1>4. QED
  BY <1>2, <1>3

(* The decoder starts in the row of two begin markers.                     *)
LEMMA StartDecodeKeeps ==
  ASSUME IInv, NEW w \in Workers, StartDecode(w)
  PROVE  IInv'
<1> DEFINE pair == <<BeginSignature, BeginSignature>>
           rows == EnsureRow(rowOf[w], pair)
           new == IF pair \in DOMAIN rows THEN {<<pair, rows[pair]>>} ELSE {}
<1>1. WorkerOK(w) /\ FunctionsOK /\ SharedOK(shared)
  BY DEF IInv
<1>2. /\ rowOf' = [rowOf EXCEPT ![w] = rows] /\ Carried(w, new)
      /\ UNCHANGED <<delta, entries, live, inline, overflowed, overflow, prepared, shared>>
  BY DEF StartDecode
<1>3. HandlesOK(new, rows)
  BY DEF HandlesOK
<1> HIDE DEF pair, rows, new
<1>4. RowsOK(rows) /\ Extends(rows, rowOf[w])
  BY <1>1, EnsureRowKeeps DEF WorkerOK, rows
<1>5. /\ HandlesOK(handles'[w], rows)
      /\ handles' = [v \in Workers |-> handles'[v]]
      /\ \A v \in Workers \ {w} : handles'[v] = handles[v]
  BY <1>1, <1>2, <1>3, <1>4, CarriedKeeps DEF WorkerOK
<1>6. rowOf'[w] = rows /\ \A v \in Workers \ {w} : rowOf'[v] = rowOf[v]
  BY <1>1, <1>2 DEF FunctionsOK
<1>7. FunctionsOK'
  BY <1>1, <1>2, <1>5 DEF FunctionsOK
<1>8. InlineOK(delta[w], rows, inline[w]) /\ OverflowOK(delta[w], rows, overflow[w])
  <2>1. CodesKept(delta[w], delta[w])
    BY DEF CodesKept
  <2>2. QED
    BY <1>1, <1>4, <2>1, TransitionsKept DEF WorkerOK
<1>9. WorkerOK(w)'
  BY <1>1, <1>2, <1>4, <1>5, <1>6, <1>8 DEF WorkerOK
<1>10. ASSUME NEW v \in Workers, v # w PROVE WorkerOK(v)'
  BY <1>2, <1>5, <1>6, <1>10, OthersKeep DEF IInv
<1>11. QED
  BY <1>1, <1>2, <1>7, <1>9, <1>10 DEF IInv

(* The end of a sentence leaves no hypothesis.                             *)
LEMMA EndSentenceKeeps ==
  ASSUME IInv, NEW w \in Workers, EndSentence(w)
  PROVE  IInv'
<1>1. WorkerOK(w) /\ FunctionsOK /\ SharedOK(shared)
  BY DEF IInv
<1>2. /\ live' = [live EXCEPT ![w] = Empty] /\ handles' = [handles EXCEPT ![w] = {}]
      /\ UNCHANGED <<delta, entries, rowOf, inline, overflowed, overflow, prepared, shared>>
  BY DEF EndSentence
<1>3. FunctionsOK'
  BY <1>1, <1>2 DEF FunctionsOK
<1>4. /\ live'[w] = Empty /\ handles'[w] = {}
      /\ \A v \in Workers \ {w} : live'[v] = live[v] /\ handles'[v] = handles[v]
  BY <1>1, <1>2 DEF FunctionsOK
<1>5. CurrentOK(Empty, delta[w]) /\ HandlesOK({}, rowOf[w])
  BY EmptyTables, EmptyTransitions
<1>6. WorkerOK(w)'
  BY <1>1, <1>2, <1>4, <1>5 DEF WorkerOK
<1>7. ASSUME NEW v \in Workers, v # w PROVE WorkerOK(v)'
  BY <1>2, <1>4, <1>7, OthersKeep DEF IInv
<1>8. QED
  BY <1>1, <1>2, <1>3, <1>6, <1>7 DEF IInv

(* Clearing forgets the codes together with everything said in them.       *)
LEMMA ClearKeeps ==
  ASSUME IInv, NEW w \in Workers, Clear(w)
  PROVE  IInv'
<1>1. WorkerOK(w) /\ FunctionsOK /\ SharedOK(shared)
  BY DEF IInv
<1>2. /\ live[w] = Empty /\ UNCHANGED <<live, shared>>
      /\ delta' = [delta EXCEPT ![w] = Empty]
      /\ entries' = [entries EXCEPT ![w] = Empty]
      /\ handles' = [handles EXCEPT ![w] = {}]
      /\ rowOf' = [rowOf EXCEPT ![w] = Empty]
      /\ inline' = [inline EXCEPT ![w] = Empty]
      /\ overflowed' = [overflowed EXCEPT ![w] = {}]
      /\ overflow' = [overflow EXCEPT ![w] = Empty]
      /\ prepared' = [prepared EXCEPT ![w] = Empty]
  BY DEF Clear, PreparedAfterClear
<1>3. FunctionsOK'
  BY <1>1, <1>2 DEF FunctionsOK
<1>4. /\ live'[w] = Empty /\ delta'[w] = Empty /\ entries'[w] = Empty /\ handles'[w] = {}
      /\ rowOf'[w] = Empty /\ inline'[w] = Empty /\ overflow'[w] = Empty /\ prepared'[w] = Empty
  BY <1>1, <1>2 DEF FunctionsOK
<1>5. \A v \in Workers \ {w} :
        /\ live'[v] = live[v] /\ delta'[v] = delta[v] /\ entries'[v] = entries[v]
        /\ handles'[v] = handles[v] /\ rowOf'[v] = rowOf[v] /\ inline'[v] = inline[v]
        /\ overflow'[v] = overflow[v] /\ prepared'[v] = prepared[v]
  BY <1>1, <1>2 DEF FunctionsOK
<1>6. WorkerOK(w)'
  BY <1>4, EmptyTables, EmptyTransitions DEF WorkerOK
<1>7. ASSUME NEW v \in Workers, v # w PROVE WorkerOK(v)'
  BY <1>5, <1>7, OthersKeep DEF IInv
<1>8. QED
  BY <1>1, <1>2, <1>3, <1>6, <1>7 DEF IInv

(* A step of one worker that leaves codes and sentence alone.              *)
LEMMA TablesKeep ==
  ASSUME IInv, NEW w \in Workers, UNCHANGED <<delta, entries, live>>, FunctionsOK',
         SharedOK(shared'), LocalOK(prepared'[w], delta[w]), RowsOK(rowOf'[w]),
         InlineOK(delta[w], rowOf'[w], inline'[w]), OverflowOK(delta[w], rowOf'[w], overflow'[w]),
         HandlesOK(handles'[w], rowOf'[w]),
         \A v \in Workers \ {w} :
           /\ prepared'[v] = prepared[v] /\ rowOf'[v] = rowOf[v] /\ inline'[v] = inline[v]
           /\ overflow'[v] = overflow[v] /\ handles'[v] = handles[v]
  PROVE  IInv'
<1>1. WorkerOK(w)'
  BY DEF IInv, WorkerOK
<1>2. ASSUME NEW v \in Workers, v # w PROVE WorkerOK(v)'
  BY <1>2, OthersKeep DEF IInv
<1>3. QED
  BY <1>1, <1>2 DEF IInv

(* The row a transition is looked up in is that of its first pair.         *)
LEMMA RowExact ==
  ASSUME IInv, NEW w \in Workers, NEW words \in Requests(w),
         NEW handle \in Rows(w, Key(delta[w], words))
  PROVE  LET key == Key(delta[w], words)
             rows == IF handle = NoRow THEN EnsureRow(rowOf[w], First(key)) ELSE rowOf[w]
             row == IF handle = NoRow THEN RowAt(rows, First(key)) ELSE handle
         IN  /\ RowsOK(rows)
             /\ Extends(rows, rowOf[w])
             /\ row # NoRow => First(key) \in DOMAIN rows /\ rows[First(key)] = row
<1> DEFINE key == Key(delta[w], words)
<1>1. RowsOK(rowOf[w]) /\ HandlesOK(handles[w], rowOf[w])
  BY DEF IInv, WorkerOK
<1>2. handle \in Rows(w, key)
  OBVIOUS
<1> HIDE DEF key
<1>3. CASE handle = NoRow
  <2> DEFINE more == EnsureRow(rowOf[w], First(key))
  <2>1. RowsOK(more) /\ Extends(more, rowOf[w])
    BY <1>1, EnsureRowKeeps
  <2> HIDE DEF more
  <2>2. RowAt(more, First(key)) # NoRow =>
          First(key) \in DOMAIN more /\ more[First(key)] = RowAt(more, First(key))
    BY DEF RowAt
  <2>3. QED
    BY <1>3, <2>1, <2>2 DEF key, more
<1>4. CASE handle # NoRow
  <2>1. PICK h \in handles[w] : h[1] = First(key) /\ h[2] = handle
    BY <1>2, <1>4 DEF Rows
  <2>2. First(key) \in DOMAIN rowOf[w] /\ rowOf[w][First(key)] = handle
    BY <1>1, <2>1 DEF HandlesOK
  <2>3. Extends(rowOf[w], rowOf[w])
    BY DEF Extends
  <2>4. QED
    BY <1>1, <1>4, <2>2, <2>3 DEF key
<1>5. QED
  BY <1>3, <1>4

(* A transition that is served leads to the row of its second pair.        *)
LEMMA ServedKeeps ==
  ASSUME IInv, NEW w \in Workers, NEW words \in Requests(w), NEW need \in BOOLEAN,
         UNCHANGED <<delta, entries, live>>,
         Cacheable(Key(delta[w], words)),
         NEW rows, RowsOK(rows), Extends(rows, rowOf[w]),
         NEW row, row # NoRow => First(Key(delta[w], words)) \in DOMAIN rows
                                 /\ rows[First(Key(delta[w], words))] = row,
         Serves(w, row, Key(delta[w], words), need),
         ScoreCached(w, words, Key(delta[w], words), row, rows, need)
  PROVE  IInv'
<1> DEFINE key == Key(delta[w], words)
           answer == Lookup(w, row, key)
           new == IF need /\ answer.next # NoRow THEN {<<<<key[2], key[3]>>, answer.next>>} ELSE {}
<1>1. WorkerOK(w) /\ FunctionsOK /\ SharedOK(shared)
  BY DEF IInv
<1>2. /\ rowOf' = [rowOf EXCEPT ![w] = rows] /\ Carried(w, new)
      /\ UNCHANGED <<inline, overflowed, overflow, prepared, shared>>
  BY DEF ScoreCached, Carry
<1>3. InlineOK(delta[w], rows, inline[w]) /\ OverflowOK(delta[w], rows, overflow[w])
  <2>1. CodesKept(delta[w], delta[w])
    BY DEF CodesKept
  <2>2. QED
    BY <1>1, <2>1, TransitionsKept DEF WorkerOK
<1>4. Denotes(delta[w], rows, key, answer)
  <2>1. words \in [1 .. 3 -> Wordlike(delta[w])] /\ DeltaOK(delta[w])
    BY <1>1, RequestsKnown DEF WorkerOK
  <2>2. row # NoRow /\ First(key) \in DOMAIN rows /\ rows[First(key)] = row /\ Found(w, row, key)
    BY DEF Serves
  <2> HIDE DEF key
  <2>3. /\ <<row, key[3]>> \in DOMAIN inline[w] =>
             Denotes(delta[w], rows, key, inline[w][<<row, key[3]>>])
        /\ key \in DOMAIN overflow[w] => Denotes(delta[w], rows, key, overflow[w][key])
    BY <1>3, <2>1, <2>2, AnswerExact DEF key
  <2>4. QED
    BY <2>2, <2>3 DEF Found, Lookup
<1>5. HandlesOK(new, rows)
  <2> HIDE DEF key, answer
  <2>1. answer.next # NoRow => Second(key) \in DOMAIN rows /\ rows[Second(key)] = answer.next
    BY <1>4 DEF Denotes
  <2>2. QED
    BY <2>1 DEF HandlesOK, Second
<1> HIDE DEF key, answer, new
<1>6. /\ HandlesOK(handles'[w], rows)
      /\ handles' = [v \in Workers |-> handles'[v]]
      /\ \A v \in Workers \ {w} : handles'[v] = handles[v]
  BY <1>1, <1>2, <1>5, CarriedKeeps DEF WorkerOK
<1>7. rowOf'[w] = rows /\ \A v \in Workers \ {w} : rowOf'[v] = rowOf[v]
  BY <1>1, <1>2 DEF FunctionsOK
<1>8. FunctionsOK'
  BY <1>1, <1>2, <1>6 DEF FunctionsOK
<1>9. QED
  BY <1>1, <1>2, <1>3, <1>6, <1>7, <1>8, TablesKeep DEF WorkerOK

(* A transition that is computed is stored under its own key, with the row *)
(* of its second pair.                                                     *)
LEMMA ComputedKeeps ==
  ASSUME IInv, NEW w \in Workers, NEW words \in Requests(w), NEW need \in BOOLEAN,
         UNCHANGED <<delta, entries, live>>,
         Cacheable(Key(delta[w], words)),
         NEW rows, RowsOK(rows), Extends(rows, rowOf[w]),
         NEW row, row # NoRow => First(Key(delta[w], words)) \in DOMAIN rows
                                 /\ rows[First(Key(delta[w], words))] = row,
         ~Serves(w, row, Key(delta[w], words), need),
         ScoreCached(w, words, Key(delta[w], words), row, rows, need)
  PROVE  IInv'
<1> DEFINE key == Key(delta[w], words)
           more == IF need THEN EnsureRow(rows, Second(key)) ELSE rows
           next == IF need THEN RowAt(more, Second(key)) ELSE NoRow
           transition == [score |-> Computed(shared', prepared'[w], CodesOf(w, words), words),
                          next |-> next]
           new == IF need /\ next # NoRow THEN {<<<<key[2], key[3]>>, next>>} ELSE {}
<1>1. WorkerOK(w) /\ FunctionsOK /\ SharedOK(shared)
  BY DEF IInv
<1>2. /\ Ensure(w, CodesOf(w, words), words)
      /\ rowOf' = [rowOf EXCEPT ![w] = more] /\ Carried(w, new)
      /\ IF row = NoRow THEN UNCHANGED <<inline, overflowed, overflow>>
         ELSE Store(w, row, key, transition)
  BY DEF ScoreCached, Carry
<1>3. words \in [1 .. 3 -> Wordlike(delta[w])]
  BY <1>1, RequestsKnown
<1> HIDE DEF key
<1>4. RowsOK(more) /\ Extends(more, rows)
  <2>1. Extends(rows, rows)
    BY DEF Extends
  <2>2. QED
    BY <2>1, EnsureRowKeeps
<1>5. next # NoRow => Second(key) \in DOMAIN more /\ more[Second(key)] = next
  BY DEF RowAt
<1> HIDE DEF more, next
<1>6. Extends(more, rowOf[w])
  BY <1>4 DEF Extends
<1>7. /\ SharedOK(shared') /\ LocalOK(prepared'[w], delta[w])
      /\ prepared' = [v \in Workers |-> prepared'[v]]
      /\ \A v \in Workers \ {w} : prepared'[v] = prepared[v]
      /\ transition.score = words /\ transition.next = next
  BY <1>2, EnsureExact
<1> HIDE DEF transition
<1>8. HandlesOK(new, more)
  BY <1>5 DEF HandlesOK, Second
<1> HIDE DEF new
<1>9. /\ HandlesOK(handles'[w], more)
      /\ handles' = [v \in Workers |-> handles'[v]]
      /\ \A v \in Workers \ {w} : handles'[v] = handles[v]
  BY <1>1, <1>2, <1>6, <1>8, CarriedKeeps DEF WorkerOK
<1>10. rowOf'[w] = more /\ rowOf' = [v \in Workers |-> rowOf'[v]]
       /\ \A v \in Workers \ {w} : rowOf'[v] = rowOf[v]
  BY <1>1, <1>2 DEF FunctionsOK
<1>11. InlineOK(delta[w], more, inline[w]) /\ OverflowOK(delta[w], more, overflow[w])
  <2>1. CodesKept(delta[w], delta[w])
    BY DEF CodesKept
  <2>2. QED
    BY <1>1, <1>6, <2>1, TransitionsKept DEF WorkerOK
<1>12. /\ InlineOK(delta[w], more, inline'[w]) /\ OverflowOK(delta[w], more, overflow'[w])
       /\ inline' = [v \in Workers |-> inline'[v]] /\ overflow' = [v \in Workers |-> overflow'[v]]
       /\ overflowed' = [v \in Workers |-> overflowed'[v]]
       /\ \A v \in Workers \ {w} : inline'[v] = inline[v] /\ overflow'[v] = overflow[v]
  <2>1. CASE row = NoRow
    BY <1>1, <1>2, <1>11, <2>1 DEF FunctionsOK
  <2>2. CASE row # NoRow
    <3>1. Denotes(delta[w], more, key, transition)
      BY <1>3, <1>5, <1>7 DEF Denotes, key
    <3>2. First(key) \in DOMAIN more /\ more[First(key)] = row
      BY <1>4, <2>2 DEF Extends, key
    <3>3. /\ InlineOK(delta[w], more, Put(inline[w], <<row, key[3]>>, transition))
          /\ OverflowOK(delta[w], more, Put(overflow[w], key, transition))
      BY <1>11, <3>1, <3>2, StoreExact
    <3>4. CASE FitsInline(w, row, key[3])
      <4>1. /\ inline' = [inline EXCEPT ![w] = Put(inline[w], <<row, key[3]>>, transition)]
            /\ UNCHANGED <<overflowed, overflow>>
        BY <1>1, <1>2, <2>2, <3>4 DEF Store, FunctionsOK
      <4>2. QED
        BY <1>1, <1>11, <3>3, <4>1 DEF FunctionsOK
    <3>5. CASE ~FitsInline(w, row, key[3])
      <4> DEFINE spill == IF Size(overflow[w]) < OverflowCapacity
                          THEN Put(overflow[w], key, transition) ELSE overflow[w]
      <4>1. /\ inline' = inline
            /\ overflowed' = [overflowed EXCEPT ![w] = overflowed[w] \union {row}]
            /\ overflow' = [overflow EXCEPT ![w] = spill]
        BY <1>1, <1>2, <2>2, <3>5 DEF Store, StoreOverflow, FunctionsOK
      <4>2. OverflowOK(delta[w], more, spill)
        BY <1>11, <3>3
      <4> HIDE DEF spill
      <4>3. QED
        BY <1>1, <1>11, <4>1, <4>2 DEF FunctionsOK
    <3>6. QED
      BY <3>4, <3>5
  <2>3. QED
    BY <2>1, <2>2
<1>13. FunctionsOK'
  BY <1>1, <1>7, <1>9, <1>10, <1>12 DEF FunctionsOK
<1>14. QED
  BY <1>4, <1>7, <1>9, <1>10, <1>12, <1>13, TablesKeep

(* A transition, served or computed, retained or not.                      *)
LEMMA TransitionKeeps ==
  ASSUME IInv, NEW w \in Workers, Transition(w)
  PROVE  IInv'
<1>0. PICK words \in Requests(w) :
        \E handle \in Rows(w, KeyOf(w, words)) : \E need \in BOOLEAN :
          Score(w, words, KeyOf(w, words), handle, need)
  BY DEF Transition
<1>1. PICK handle \in Rows(w, KeyOf(w, words)) : \E need \in BOOLEAN :
        Score(w, words, KeyOf(w, words), handle, need)
  BY <1>0
<1>2. PICK need \in BOOLEAN : Score(w, words, KeyOf(w, words), handle, need)
  BY <1>1
<1>3. WorkerOK(w) /\ FunctionsOK /\ SharedOK(shared)
  BY DEF IInv
<1> DEFINE key == Key(delta[w], words)
           rows == IF handle = NoRow THEN EnsureRow(rowOf[w], First(key)) ELSE rowOf[w]
           row == IF handle = NoRow THEN RowAt(rows, First(key)) ELSE handle
<1>4. KeyOf(w, words) = key
  BY <1>3, RequestsKnown
<1>5. /\ UNCHANGED <<delta, entries, live>>
      /\ IF Cacheable(key) THEN ScoreCached(w, words, key, row, rows, need)
         ELSE /\ Ensure(w, CodesOf(w, words), words)
              /\ UNCHANGED <<handles, rowOf, inline, overflowed, overflow>>
  BY <1>2, <1>4 DEF Score
<1>6. /\ RowsOK(rows) /\ Extends(rows, rowOf[w])
      /\ row # NoRow => First(key) \in DOMAIN rows /\ rows[First(key)] = row
  BY <1>1, <1>4, RowExact
<1> HIDE DEF rows, row
<1>7. CASE Cacheable(key) /\ Serves(w, row, key, need)
  BY <1>5, <1>6, <1>7, ServedKeeps
<1>8. CASE Cacheable(key) /\ ~Serves(w, row, key, need)
  BY <1>5, <1>6, <1>8, ComputedKeeps
<1>9. CASE ~Cacheable(key)
  <2>1. /\ Ensure(w, CodesOf(w, words), words)
        /\ UNCHANGED <<handles, rowOf, inline, overflowed, overflow>>
    BY <1>5, <1>9
  <2>2. /\ SharedOK(shared') /\ LocalOK(prepared'[w], delta[w])
        /\ prepared' = [v \in Workers |-> prepared'[v]]
        /\ \A v \in Workers \ {w} : prepared'[v] = prepared[v]
    BY <2>1, EnsureExact
  <2>3. FunctionsOK'
    BY <1>3, <1>5, <2>1, <2>2 DEF FunctionsOK
  <2>4. QED
    BY <1>3, <1>5, <2>1, <2>2, <2>3, TablesKeep DEF WorkerOK
<1>10. QED
  BY <1>7, <1>8, <1>9

(* Every step keeps the invariant.                                         *)
LEMMA NextKeeps ==
  ASSUME IInv, [Next]_vars
  PROVE  IInv'
<1>1. CASE UNCHANGED vars
  BY <1>1 DEF vars, IInv, FunctionsOK, WorkerOK
<1>2. ASSUME NEW w \in Workers, NEW content \in Contents, Analyze(w, content) PROVE IInv'
  BY <1>2, AnalyzeKeeps
<1>3. ASSUME NEW w \in Workers, StartDecode(w) PROVE IInv'
  BY <1>3, StartDecodeKeeps
<1>4. ASSUME NEW w \in Workers, Transition(w) PROVE IInv'
  BY <1>4, TransitionKeeps
<1>5. ASSUME NEW w \in Workers, EndSentence(w) PROVE IInv'
  BY <1>5, EndSentenceKeeps
<1>6. ASSUME NEW w \in Workers, Clear(w) PROVE IInv'
  BY <1>6, ClearKeeps
<1>7. QED
  BY <1>1, <1>2, <1>3, <1>4, <1>5, <1>6 DEF Next

(* The invariant holds in every state.                                     *)
LEMMA SpecIInv == Spec => []IInv
BY InitIInv, NextKeeps, PTL DEF Spec

-----------------------------------------------------------------------------
(* Theorems.                                                               *)

(* Whatever a worker has interned, forgotten and retained, content and     *)
(* code identify each other, and no retained set holds a stale code.       *)
THEOREM CodesAlwaysIdentifyContent == Spec => []CodesIdentifyContent
<1>1. IInv => CodesIdentifyContent
  BY CodesInjective DEF IInv, WorkerOK, CurrentOK, Coded, Known, CodesIdentifyContent
<1>2. QED
  BY <1>1, SpecIInv, PTL

(* No worker ever finds the features of another content in a slot, shared  *)
(* or its own, whatever other workers do and however often it is cleared.  *)
THEOREM BanksAlwaysExact == Spec => []BanksAreExact
<1>1. IInv => BanksAreExact
  BY DEF IInv, WorkerOK, SharedOK, LocalOK, Coded, Known, BanksAreExact
<1>2. QED
  BY <1>1, SpecIInv, PTL

(* A row number a hypothesis carries is always that of its pair.           *)
THEOREM HandlesAlwaysExact == Spec => []HandlesAreExact
<1>1. IInv => HandlesAreExact
  BY DEF IInv, WorkerOK, HandlesOK, HandlesAreExact
<1>2. QED
  BY <1>1, SpecIInv, PTL

(* No score is ever served for words other than those it was computed      *)
(* from: retention does not change what the perceptron decides.            *)
THEOREM ScoresAlwaysExact == Spec => []ScoresAreExact
<1>1. ASSUME IInv, NEW w \in Workers, NEW words \in Requests(w),
             NEW row \in Rows(w, KeyOf(w, words)) \union {RowAt(rowOf[w], First(KeyOf(w, words)))},
             row # NoRow, Cacheable(KeyOf(w, words)), Found(w, row, KeyOf(w, words))
      PROVE  Lookup(w, row, KeyOf(w, words)).score = words
  <2> DEFINE key == Key(delta[w], words)
  <2>1. WorkerOK(w)
    BY <1>1 DEF IInv
  <2>2. /\ words \in [1 .. 3 -> Wordlike(delta[w])]
        /\ KeyOf(w, words) = key
    BY <2>1, RequestsKnown
  <2> HIDE DEF key
  <2>3. First(key) \in DOMAIN rowOf[w] /\ rowOf[w][First(key)] = row
    <3>1. CASE row \in Rows(w, key)
      BY <1>1, <2>1, <2>2, <3>1 DEF Rows, WorkerOK, HandlesOK
    <3>2. CASE row = RowAt(rowOf[w], First(key))
      BY <1>1, <3>2 DEF RowAt
    <3>3. QED
      BY <1>1, <2>2, <3>1, <3>2
  <2>4. /\ <<row, key[3]>> \in DOMAIN inline[w] => inline[w][<<row, key[3]>>].score = words
        /\ key \in DOMAIN overflow[w] => overflow[w][key].score = words
    BY <1>1, <2>1, <2>2, <2>3, AnswerExact DEF WorkerOK, key
  <2>5. Found(w, row, key)
    BY <1>1, <2>2
  <2>6. Lookup(w, row, key).score = words
    BY <2>4, <2>5 DEF Found, Lookup
  <2>7. QED
    BY <2>2, <2>6
<1>2. IInv => ScoresAreExact
  BY <1>1 DEF ScoresAreExact
<1>3. QED
  BY <1>2, SpecIInv, PTL
-----------------------------------------------------------------------------
(* Where a thread holds the interpreter lock, and where it must not.       *)
GilShape ==
  \A t \in Threads :
    /\ pc[t] \in {"called", "returning"} => gil = t
    /\ pc[t] \in {"locking", "inside"} /\ op[t] \notin Encodes => gil = t
    /\ pc[t] \in {"locking", "inside", "reattaching"} /\ op[t] \in Encodes => gil # t
    /\ pc[t] = "idle" => gil # t
    /\ pc[t] \in {"called", "reattaching"} => op[t] \in Encodes

(* A thread is inside exactly under the mutex it aimed at.                 *)
LockShape ==
  /\ \A t \in Threads : pc[t] = "inside" => holder[target[t]] = t
  /\ \A lock \in Locks : \A t \in Threads :
       holder[lock] = t => pc[t] = "inside" /\ target[t] = lock

PoisonShape ==
  /\ tainted \subseteq poisoned
  /\ \A t \in Threads : pc[t] = "inside" => target[t] \notin poisoned

(* What is left of the caches a clear set out to empty.                    *)
ClearShape ==
  \A t \in Threads :
    /\ old[t] \subseteq created
    /\ op[t] = "clear" /\ pc[t] \in {"locking", "inside"} /\ target[t] = "sharded" =>
         \A runtime \in old[t] : runtime[1] # "single"
    /\ pc[t] = "returning" /\ op[t] = "clear" /\ result[t] = "ok" => old[t] = {}

TokenizerInv == TypeOK /\ GilShape /\ LockShape /\ PoisonShape /\ ClearShape

(* The inductive invariant holds initially.                                *)
LEMMA TokenizerInitEstablishes == TokenizerInit => TokenizerInv
  BY PythonConstants
  DEF TokenizerInit, TokenizerInv, TypeOK, GilShape, LockShape, PoisonShape,
      ClearShape, Locks,
      Operations, Encodes, Outcomes

(* A new call preserves it.                                                *)
LEMMA CallPreserves ==
  ASSUME TokenizerInv, NEW t \in Threads, NEW operation \in Operations,
  NEW count \in ThreadCounts,
         Call(t, operation, count)
  PROVE  TokenizerInv'
  <1>1. TypeOK'
    BY PythonConstants DEF TokenizerInv, TypeOK, Call, Goto, FirstLock, sharedVars,
       Locks, Operations,
       Encodes, Outcomes, ClearShape
  <1>2. GilShape'
    BY PythonConstants DEF TokenizerInv, TypeOK, GilShape, Call, Goto, sharedVars,
       Operations, Encodes
  <1>3. LockShape'
    BY PythonConstants DEF TokenizerInv, TypeOK, LockShape, Call, Goto, sharedVars,
       Encodes, Operations,
       FirstLock, Locks
  <1>4. PoisonShape'
    BY DEF TokenizerInv, TypeOK, PoisonShape, Call, Goto, sharedVars, Encodes
  <1>5. ClearShape'
    BY DEF TokenizerInv, TypeOK, ClearShape, Call, Goto, sharedVars, Encodes, FirstLock
  <1> QED
    BY <1>1, <1>2, <1>3, <1>4, <1>5 DEF TokenizerInv

(* A step of encoding preserves it.                                        *)
LEMMA EncodePreserves ==
  ASSUME TokenizerInv, NEW t \in Threads, NEW outcome \in Outcomes, Encode(t, outcome)
  PROVE  TokenizerInv'
  <1>1. TypeOK'
    <2>1. <<target[t], threads[t]>> \in Locks \X ThreadCounts /\ target[t] \in Locks
      BY DEF TokenizerInv, TypeOK
    <2>2. /\ created' \subseteq Locks \X ThreadCounts
          /\ warm' \subseteq created'
          /\ poisoned' \subseteq Locks
          /\ tainted' \subseteq Locks
      BY <2>1 DEF TokenizerInv, TypeOK, Encode
    <2>3. /\ holder' \in [Locks -> Threads \union {NoThread}]
          /\ pc' \in [Threads -> {"idle", "called", "locking", "inside", "reattaching",
                                  "returning"}]
          /\ result' \in [Threads -> Outcomes]
      BY <2>1 DEF TokenizerInv, TypeOK, Encode, Goto, Leave, Release
    <2> QED
      BY <2>2, <2>3 DEF TokenizerInv, TypeOK, Encode, threadVars
  <1>2. GilShape'
    BY PythonConstants DEF TokenizerInv, TypeOK, GilShape, Encode, Goto, Leave,
       Release, threadVars
  <1>3. LockShape'
    BY PythonConstants DEF TokenizerInv, TypeOK, LockShape, Encode, Goto, Leave,
       Release, threadVars
  <1>4. PoisonShape'
    BY DEF TokenizerInv, TypeOK, PoisonShape, LockShape, Encode, Goto, Leave, Release,
       threadVars
  <1>5. ClearShape'
    BY DEF TokenizerInv, TypeOK, ClearShape, Encode, Goto, Leave, Release, threadVars,
       Encodes
  <1> QED
    BY <1>1, <1>2, <1>3, <1>4, <1>5 DEF TokenizerInv

(* Clearing the cache preserves it.                                        *)
LEMMA ClearPreserves ==
  ASSUME TokenizerInv, NEW t \in Threads, ClearMap(t)
  PROVE  TokenizerInv'
  <1>1. TypeOK'
    BY PythonConstants DEF TokenizerInv, TypeOK, ClearMap, Goto, Leave, Release,
       threadVars, Locks,
       Outcomes, Of
  <1>2. GilShape'
    BY PythonConstants DEF TokenizerInv, TypeOK, GilShape, ClearMap, Goto, Leave,
       Release, threadVars,
       Encodes
  <1>3. LockShape'
    BY PythonConstants DEF TokenizerInv, TypeOK, LockShape, ClearMap, Goto, Leave,
       Release, threadVars,
       Locks
  <1>4. PoisonShape'
    BY DEF TokenizerInv, TypeOK, PoisonShape, ClearMap, Goto, Leave, Release, threadVars
  <1>5. ClearShape'
    <2>1. \A u \in Threads : old'[u] = old[u] \ Of(target[t])
      BY DEF ClearMap
    <2>2. \A u \in Threads : \A runtime \in old'[u] : runtime[1] # target[t]
      BY <2>1 DEF TokenizerInv, ClearShape, Of
    <2>3. \A u \in Threads : old'[u] \subseteq old[u]
      BY <2>1
    <2>4. \A runtime \in created : runtime[1] \in {"single", "sharded"}
      BY DEF TokenizerInv, TypeOK, Locks
    <2>5. \A u \in Threads \ {t} : pc'[u] = pc[u] /\ op'[u] = op[u] /\ target'[u] = target[u]
                                   /\ result'[u] = result[u]
      BY DEF TokenizerInv, TypeOK, ClearMap, Goto, Leave, threadVars
    <2>6. CASE target[t] = "single"
      <3>1. pc'[t] = "locking" /\ target'[t] = "sharded" /\ created' = created
        BY <2>6 DEF TokenizerInv, TypeOK, ClearMap, Goto
      <3> QED
        BY <2>2, <2>3, <2>5, <2>6, <3>1 DEF TokenizerInv, ClearShape
    <2>7. CASE target[t] = "sharded"
      <3>1. pc'[t] = "returning" /\ created' = created /\ op'[t] = "clear"
        BY <2>7 DEF TokenizerInv, TypeOK, ClearMap, Goto, Leave, threadVars
      <3>2. old'[t] = {}
        BY <2>2, <2>3, <2>4, <2>7 DEF TokenizerInv, ClearShape, ClearMap
      <3> QED
        BY <2>3, <2>5, <2>7, <3>1, <3>2 DEF TokenizerInv, ClearShape
    <2> QED
      BY <2>6, <2>7 DEF TokenizerInv, TypeOK, Locks
  <1> QED
    BY <1>1, <1>2, <1>3, <1>4, <1>5 DEF TokenizerInv

(* The remaining steps of a thread move it and change little else.         *)
LEMMA MovePreserves ==
  ASSUME TokenizerInv, NEW t \in Threads,
         \/ RejectArguments(t) \/ Detach(t) \/ Acquire(t) \/ FindPoisoned(t)
         \/ Reattach(t) \/ ReadStats(t) \/ Return(t)
  PROVE  TokenizerInv'
  <1>1. CASE RejectArguments(t)
    BY <1>1, PythonConstants
    DEF TokenizerInv, TypeOK, GilShape, LockShape, PoisonShape, ClearShape,
        RejectArguments, Leave, Goto,
        sharedVars, threadVars, Outcomes, Encodes
  <1>2. CASE Detach(t)
    BY <1>2, PythonConstants
    DEF TokenizerInv, TypeOK, GilShape, LockShape, PoisonShape, ClearShape,
        Detach, Leave, Goto,
        sharedVars, threadVars, Encodes
  <1>3. CASE Acquire(t)
    BY <1>3, PythonConstants
    DEF TokenizerInv, TypeOK, GilShape, LockShape, PoisonShape, ClearShape,
        Acquire, Leave, Goto,
        sharedVars, threadVars
  <1>4. CASE FindPoisoned(t)
    BY <1>4, PythonConstants
    DEF TokenizerInv, TypeOK, GilShape, LockShape, PoisonShape, ClearShape,
        FindPoisoned, Leave, Goto,
        sharedVars, threadVars, Outcomes, Encodes
  <1>5. CASE Reattach(t)
    BY <1>5, PythonConstants
    DEF TokenizerInv, TypeOK, GilShape, LockShape, PoisonShape, ClearShape,
        Reattach, Leave, Goto,
        sharedVars, threadVars, Encodes
  <1>6. CASE ReadStats(t)
    BY <1>6, PythonConstants
    DEF TokenizerInv, TypeOK, GilShape, LockShape, PoisonShape, ClearShape,
        ReadStats, Leave, Goto, Release,
        sharedVars, threadVars, Outcomes, Encodes, Locks
  <1>7. CASE Return(t)
    BY <1>7, PythonConstants
    DEF TokenizerInv, TypeOK, GilShape, LockShape, PoisonShape, ClearShape,
        Return, Leave, Goto,
        sharedVars, threadVars
  <1> QED
    BY <1>1, <1>2, <1>3, <1>4, <1>5, <1>6, <1>7

(* A stuttering step preserves it.                                         *)
LEMMA TokenizerStutterPreserves == ASSUME TokenizerInv,
UNCHANGED tokenizerVars PROVE TokenizerInv'
  BY DEF TokenizerInv, TypeOK, GilShape, LockShape, PoisonShape, ClearShape,
        tokenizerVars, sharedVars, threadVars

(* It is invariant.                                                        *)
LEMMA TokenizerInvariance == TokenizerSpec => []TokenizerInv
  <1>1. TokenizerInv /\ [TokenizerNext]_tokenizerVars => TokenizerInv'
    BY CallPreserves, EncodePreserves, ClearPreserves, MovePreserves,
       TokenizerStutterPreserves
    DEF TokenizerNext, Step
  <1> QED
    BY TokenizerInitEstablishes, <1>1, PTL DEF TokenizerSpec

(* The type invariant holds however many threads share the tokenizer.      *)
THEOREM TypeCorrect == TokenizerSpec => []TypeOK
  BY TokenizerInvariance, PTL DEF TokenizerInv

(* A retained runtime is only ever used by the one thread that holds its   *)
(* mutex: the code's &mut borrow through the guard is exclusive.           *)
THEOREM ExclusiveUse == TokenizerSpec => []RuntimesAreExclusive
  <1>1. TokenizerInv => RuntimesAreExclusive
    BY DEF TokenizerInv, TypeOK, LockShape, RuntimesAreExclusive
  <1> QED
    BY TokenizerInvariance, <1>1, PTL

(* No holder of a mutex waits for the other mutex or for the interpreter   *)
(* lock: with the detached encodings, there is no cycle of waiting.        *)
THEOREM NoCircularWait == TokenizerSpec => []HoldersNeverWait
  <1>1. TokenizerInv => HoldersNeverWait
    BY PythonConstants DEF TokenizerInv, TypeOK, LockShape, GilShape, HoldersNeverWait
  <1> QED
    BY TokenizerInvariance, <1>1, PTL

(* After a panic under a mutex no thread ever works on its runtimes again. *)
THEOREM TaintedUnused == TokenizerSpec => []TaintedRuntimesStayUnused
  <1>1. TokenizerInv => TaintedRuntimesStayUnused
    BY DEF TokenizerInv, PoisonShape, TaintedRuntimesStayUnused
  <1> QED
    BY TokenizerInvariance, <1>1, PTL

(* A successful clear_runtime_caches dropped all that was cached when it   *)
(* was called, whatever ran between its two critical sections.             *)
THEOREM ClearIsCompleteAlways == TokenizerSpec => []ClearIsComplete
  <1>1. TokenizerInv => ClearIsComplete
    BY DEF TokenizerInv, ClearShape, ClearIsComplete
  <1> QED
    BY TokenizerInvariance, <1>1, PTL
=============================================================================
