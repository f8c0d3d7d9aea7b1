---------------------------- MODULE CodeSegments ----------------------------
(***************************************************************************)
(* How a document in Code mode is cut, from bytes to token IDs: lexical    *)
(* units, chunks of units, the segments inside which pieces may be         *)
(* matched, and the two segment encoders.  A document is a sequence of     *)
(* character classes.  Spans are half open and zero based, as in Rust.     *)
(***************************************************************************)
EXTENDS Naturals, Sequences, SequencesExt, FiniteSetsExt

CONSTANTS
  MaxChars,               \* max_fallback_chars (48 by default)
  MaxChunkUnits,          \* CODE_PROGRAM_MAX_UNITS (256)
  Vocabularies            \* the vocabularies a caller may pass

ASSUME SegmentConstants ==
  /\ MaxChars \in Nat \ {0}
  /\ MaxChunkUnits \in Nat \ {0}

(* The classes the cuts tell apart.  Runs of equal characters are scanned  *)
(* as one unit, except that an underscore always stands alone inside an    *)
(* identifier; Invalid stands for every opaque or control byte.            *)
Newline == 0
Space == 1
Letter == 2
Underscore == 3
Invalid == 4
Char == 0 .. 4

Bytes(doc, span) == SubSeq(doc, span.start + 1, span.end)

Size(span) == span.end - span.start

(* The spans that begin at the given ascending positions.                  *)
SpansFrom(starts, length) ==
  [k \in DOMAIN starts |->
     [start |-> starts[k] - 1,
      end   |-> IF k = Len(starts) THEN length ELSE starts[k + 1] - 1]]

(* The members of a set of positions, in ascending order.                  *)
Ascending(positions, length) ==
  LET upto[i \in 0 .. length] ==
        IF i = 0 THEN <<>>
        ELSE IF i \in positions THEN Append(upto[i - 1], i) ELSE upto[i - 1]
  IN  upto[length]

Split(starts, length) == SpansFrom(Ascending(starts, length), length)

UnitStarts(doc) ==
  {i \in 1 .. Len(doc) : i = 1 \/ doc[i] # doc[i - 1] \/ doc[i] = Underscore}

Units(doc) == Split(UnitStarts(doc), Len(doc))

Closes(doc, unit) == doc[unit.start + 1] \in {Newline, Invalid}

(* Mutant of Ranks: a chunk also ends with white space.                    *)
RanksAtSpaces(doc, units) ==
  LET rank[k \in DOMAIN units] ==
        IF k = 1 \/ doc[units[k - 1].start + 1] \in {Newline, Invalid, Space}
           \/ rank[k - 1] = MaxChunkUnits
        THEN 1 ELSE rank[k - 1] + 1
  IN  rank

(* The place of each unit in its chunk.  A chunk ends with a line break,   *)
(* with an opaque unit, or when it is full.                                *)
Ranks(doc, units) ==
  LET rank[k \in DOMAIN units] ==
        IF k = 1 \/ Closes(doc, units[k - 1]) \/ rank[k - 1] = MaxChunkUnits
        THEN 1 ELSE rank[k - 1] + 1
  IN  rank

Chunks(doc) ==
  LET units == Units(doc)
      rank == Ranks(doc, units)
      groups == Split({k \in DOMAIN units : rank[k] = 1}, Len(units))
  IN  [g \in DOMAIN groups |-> Bytes(units, groups[g])]

(* Mutant of Whole: the start of the chunk was never advanced.             *)
FromDocumentStart(units) == [start |-> 0, end |-> units[Len(units)].end]

Whole(units) == [start |-> units[1].start, end |-> units[Len(units)].end]

LineStarts(doc) == {i \in 1 .. Len(doc) : i = 1 \/ doc[i - 1] = Newline}

(* Mutant of Lines: an unterminated last line is forgotten.                *)
TerminatedLines(doc) ==
  SelectSeq(Split(LineStarts(doc), Len(doc)), LAMBDA line : doc[line.end] = Newline)

(* The lines the replay looks up: each ends right after one line break.    *)
Lines(doc) == Split(LineStarts(doc), Len(doc))

RequiresSplit(unit) == Size(unit) > MaxChars

ChunkSpan(unit) ==
  [k \in 1 .. ((Size(unit) + MaxChars - 1) \div MaxChars) |->
     [start |-> unit.start + (k - 1) * MaxChars,
      end   |-> Min({unit.start + k * MaxChars, unit.end})]]

(* Mutant of Bridges: the space may prefix a unit of any kind.             *)
BridgesAnything(doc, units, k) ==
  /\ k \in 1 .. Len(units) - 1
  /\ Bytes(doc, units[k]) = <<Space>>
  /\ ~RequiresSplit(units[k + 1])

(* One ordinary space may prefix the word that follows it, unless that     *)
(* word is itself still to be split.                                       *)
Bridges(doc, units, k) ==
  /\ k \in 1 .. Len(units) - 1
  /\ Bytes(doc, units[k]) = <<Space>>
  /\ doc[units[k + 1].start + 1] \in {Letter, Underscore}
  /\ ~RequiresSplit(units[k + 1])

Segments(doc, units) ==
  FlattenSeq([k \in DOMAIN units |->
    IF Bridges(doc, units, k)
    THEN <<[start |-> units[k].start, end |-> units[k + 1].end]>>
    ELSE IF Bridges(doc, units, k - 1) THEN <<>>
    ELSE ChunkSpan(units[k])])

(* The flat production encoder segments each chunk by itself and splits    *)
(* long units last; the rich reference splits first and never chunks.      *)
FlatSegments(doc) ==
  LET chunks == Chunks(doc)
  IN  FlattenSeq([c \in DOMAIN chunks |-> Segments(doc, chunks[c])])

RichSegments(doc) ==
  LET units == Units(doc)
  IN  Segments(doc, FlattenSeq([k \in DOMAIN units |-> ChunkSpan(units[k])]))
-----------------------------------------------------------------------------
(* Token IDs: PAD, BOS, EOS, one ID per byte, then the learned entries in  *)
(* rank order.  from_entries rejects an empty entry.                       *)
IsVocabulary(vocabulary) ==
  /\ vocabulary.kind \in {"greedy", "bpe"}
  /\ vocabulary.entries \in Seq(Seq(Char) \ {<<>>})

ASSUME VocabularyConstants ==
  \A vocabulary \in Vocabularies : IsVocabulary(vocabulary)

Bos == [id |-> 1, length |-> 0]
Eos == [id |-> 2, length |-> 0]
ByteBase == 3
EntryBase == ByteBase + 5

ByteToken(char) == [id |-> ByteBase + char, length |-> 1]

EntryToken(vocabulary, rank) ==
  [id |-> EntryBase + rank - 1, length |-> Len(vocabulary.entries[rank])]

(* The learned pieces that match at a position.                            *)
Matches(vocabulary, bytes, p) ==
  {r \in DOMAIN vocabulary.entries :
     IsPrefix(vocabulary.entries[r], SubSeq(bytes, p, Len(bytes)))}

(* The longest learned piece, or one byte where there is none.             *)
TokenAt(vocabulary, bytes, p) ==
  LET matches == Matches(vocabulary, bytes, p)
      longest == CHOOSE r \in matches : \A s \in matches :
                   Len(vocabulary.entries[s]) <= Len(vocabulary.entries[r])
  IN  IF matches = {} THEN ByteToken(bytes[p]) ELSE EntryToken(vocabulary, longest)

(* Mutant of EncodeGreedy: advances by one byte after every match.         *)
EncodeOverlapping(vocabulary, bytes) ==
  [p \in 1 .. Len(bytes) |-> TokenAt(vocabulary, bytes, p)]

(* Token after token, each where the one before it ended.                  *)
EncodeGreedy(vocabulary, bytes) ==
  LET from[p \in 1 .. Len(bytes) + 1] ==
        IF p > Len(bytes) THEN <<>>
        ELSE <<TokenAt(vocabulary, bytes, p)>>
             \o from[p + TokenAt(vocabulary, bytes, p).length]
  IN  from[1]

RanksOf(vocabulary, piece) ==
  {r \in DOMAIN vocabulary.entries : vocabulary.entries[r] = piece}

(* Merges the adjacent pair of lowest rank, leftmost first: the boundary   *)
(* between the two is removed.                                             *)
Merge(vocabulary, bytes, cuts) ==
  LET ranks(k) == RanksOf(vocabulary, SubSeq(bytes, cuts[k - 1] + 1, cuts[k + 1]))
      mergeable == {k \in 2 .. Len(cuts) - 1 : ranks(k) # {}}
      best == Min(UNION {ranks(k) : k \in mergeable})
  IN  IF mergeable = {} THEN cuts
      ELSE RemoveAt(cuts, Min({k \in mergeable : best \in ranks(k)}))

(* Merges until no pair is a learned entry; each merge removes a cut.      *)
BpeCuts(vocabulary, bytes) ==
  LET cutsAfter[n \in 0 .. Len(bytes)] ==
        IF n = 0 THEN [k \in 1 .. Len(bytes) + 1 |-> k - 1]
                 ELSE Merge(vocabulary, bytes, cutsAfter[n - 1])
  IN  cutsAfter[Len(bytes)]

EncodeBpe(vocabulary, bytes) ==
  LET cuts == BpeCuts(vocabulary, bytes)
      token(k) == IF cuts[k + 1] = cuts[k] + 1 THEN ByteToken(bytes[cuts[k + 1]])
                  ELSE EntryToken(vocabulary,
                         Min(RanksOf(vocabulary, SubSeq(bytes, cuts[k] + 1, cuts[k + 1]))))
  IN  [k \in 1 .. Len(cuts) - 1 |-> token(k)]

EncodeSegment(vocabulary, bytes) ==
  IF vocabulary.kind = "greedy" THEN EncodeGreedy(vocabulary, bytes)
                                ELSE EncodeBpe(vocabulary, bytes)

EncodeSegments(vocabulary, doc, segments) ==
  FlattenSeq([k \in DOMAIN segments |-> EncodeSegment(vocabulary, Bytes(doc, segments[k]))])

Framed(tokens, newline) ==
  <<Bos>> \o tokens \o (IF newline THEN <<ByteToken(Newline)>> ELSE <<>>) \o <<Eos>>

(* A byte per byte ID, the learned piece per entry ID, nothing per marker. *)
DecodeIds(vocabulary, tokens) ==
  FlattenSeq([k \in DOMAIN tokens |->
    IF tokens[k].id < ByteBase THEN <<>>
    ELSE IF tokens[k].id < EntryBase THEN <<tokens[k].id - ByteBase>>
    ELSE vocabulary.entries[tokens[k].id - EntryBase + 1]])
=============================================================================
