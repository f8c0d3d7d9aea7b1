-------------------------- MODULE CodeProgramCache --------------------------
(***************************************************************************)
(* One worker's retained cache in Code mode, across the calls of its       *)
(* owner: exact documents and exact chunks are replayed as the token IDs   *)
(* they had when first encoded.  Programs are tied to a context, which     *)
(* names the vocabulary by its ADDRESS; the vocabulary is passed anew on   *)
(* every call, and between calls its owner may put another one there.      *)
(* Both program tables are exact maps here: keys are compared byte by byte *)
(* and probing is bounded by the table.                                    *)
(***************************************************************************)
EXTENDS Naturals, Sequences, SequencesExt, FiniteSets, FiniteSetsExt,
        CodeSegments

CONSTANTS
  Addresses,              \* where a vocabulary may live
  Documents,              \* the documents a caller may submit
  MaxPrograms,            \* SEGMENT_PROGRAM_CACHE_ENTRIES (32,768)
  MaxDocumentPrograms     \* document_cache_entries, 0 in the one-pass policy

NoContext == "none"

ASSUME CacheConstants ==
  /\ NoContext \notin Addresses
  /\ \A doc \in Documents : doc \in Seq(Char)
  /\ MaxPrograms \in Nat
  /\ MaxDocumentPrograms \in Nat

VARIABLES
  memory,                 \* the vocabulary at each address
  context,                \* surface_program_context: an address, or none
  used,                   \* history: the vocabularies encoded with under it
  programs,               \* chunk bytes -> their tokens
  documents,              \* <<raw, newline>> -> the document's tokens
  answer                  \* history: the last document and its tokens

vars == <<memory, context, used, programs, documents, answer>>

Empty == [key \in {} |-> <<>>]

Put(table, key, value) ==
  [k \in DOMAIN table \union {key} |-> IF k = key THEN value ELSE table[k]]

NoAnswer == [raw |-> <<>>, newline |-> FALSE, vocabulary |-> <<>>,
             stale |-> FALSE, tokens |-> <<>>]

Init ==
  /\ memory \in [Addresses -> Vocabularies]
  /\ context = NoContext
  /\ used = {}
  /\ programs = Empty
  /\ documents = Empty
  /\ answer = NoAnswer

(* Mutant of Kept: programs survive a change of context.                   *)
KeptAlways(table, address) == table

(* prepare_surface_program_context: another address drops every program.   *)
Kept(table, address) == IF context = address THEN table ELSE Empty

Prepare(address) ==
  /\ context' = address
  /\ used' = {memory[address]} \union (IF context = address THEN used ELSE {})

Reply(address, raw, newline, tokens) ==
  answer' = [raw |-> raw, newline |-> newline, vocabulary |-> memory[address],
             stale |-> used' # {memory[address]}, tokens |-> tokens]

(* Room is looked for before the document is encoded.                      *)
InsertDocument(table, raw, newline, tokens) ==
  IF Cardinality(DOMAIN table) < MaxDocumentPrograms
  THEN Put(table, <<raw, newline>>, tokens) ELSE table

ReplayDocument(address, raw, newline) ==
  /\ <<raw, newline>> \in DOMAIN Kept(documents, address)
  /\ Prepare(address)
  /\ Reply(address, raw, newline, documents[<<raw, newline>>])
  /\ UNCHANGED <<memory, programs, documents>>

Encode(address, raw, newline, table, tokens) ==
  /\ <<raw, newline>> \notin DOMAIN Kept(documents, address)
  /\ Prepare(address)
  /\ programs' = table
  /\ documents' = InsertDocument(Kept(documents, address), raw, newline,
                                 Framed(tokens, newline))
  /\ Reply(address, raw, newline, Framed(tokens, newline))
  /\ UNCHANGED memory

LinesOf(raw) ==
  LET lines == Lines(raw) IN [k \in DOMAIN lines |-> Bytes(raw, lines[k])]

Replayable(table, raw) ==
  DOMAIN table # {} /\ ToSet(LinesOf(raw)) \subseteq DOMAIN table

(* Every line is an exact cached chunk: the document is never scanned.     *)
ReplayLines(address, raw, newline) ==
  LET table == Kept(programs, address)
      lines == LinesOf(raw)
  IN  /\ Replayable(table, raw)
      /\ Encode(address, raw, newline, table,
                FlattenSeq([k \in DOMAIN lines |-> table[lines[k]]]))

(* One chunk after the other, each replayed or encoded and then retained   *)
(* while there is room.                                                    *)
StreamChunks(vocabulary, table, raw) ==
  LET chunks == Chunks(raw)
      exact(c) == Bytes(raw, Whole(chunks[c]))
      fresh(c) == EncodeSegments(vocabulary, raw, Segments(raw, chunks[c]))
      after[c \in 0 .. Len(chunks)] ==
        IF c = 0 THEN [table |-> table, tokens |-> <<>>]
        ELSE LET before == after[c - 1]
                 known == exact(c) \in DOMAIN before.table
                 tokens == IF known THEN before.table[exact(c)] ELSE fresh(c)
             IN  [table  |-> IF known \/ Cardinality(DOMAIN before.table) >= MaxPrograms
                             THEN before.table ELSE Put(before.table, exact(c), tokens),
                  tokens |-> before.tokens \o tokens]
  IN  after[Len(chunks)]

EncodeChunks(address, raw, newline) ==
  LET table == Kept(programs, address)
      streamed == StreamChunks(memory[address], table, raw)
  IN  /\ ~Replayable(table, raw)
      /\ Encode(address, raw, newline, streamed.table, streamed.tokens)

Clear ==
  /\ context' = NoContext
  /\ used' = {}
  /\ programs' = Empty
  /\ documents' = Empty
  /\ answer' = NoAnswer
  /\ UNCHANGED memory

(* The owner drops or assigns over a vocabulary between two calls.         *)
ReplaceVocabulary(address, vocabulary) ==
  /\ memory' = [memory EXCEPT ![address] = vocabulary]
  /\ UNCHANGED <<context, used, programs, documents, answer>>

Next ==
  \/ \E address \in Addresses, raw \in Documents, newline \in BOOLEAN :
       \/ ReplayDocument(address, raw, newline)
       \/ ReplayLines(address, raw, newline)
       \/ EncodeChunks(address, raw, newline)
  \/ Clear
  \/ \E address \in Addresses, vocabulary \in Vocabularies :
       ReplaceVocabulary(address, vocabulary)

Spec == Init /\ [][Next]_vars
-----------------------------------------------------------------------------
(* What an encoder without retained state would return.                    *)
Stateless(vocabulary, raw, newline) ==
  Framed(EncodeSegments(vocabulary, raw, FlatSegments(raw)), newline)

(* A retained program is what its bytes encode to as a document of their   *)
(* own, under a vocabulary of its context: nothing of the document a chunk *)
(* was cut from leaks into it (CachedCodeStream::flush).                   *)
ProgramsAreContextFree ==
  \A exact \in DOMAIN programs : \E vocabulary \in used :
    programs[exact] = EncodeSegments(vocabulary, exact, FlatSegments(exact))

HasBlankLine(raw) == \E i \in 1 .. Len(raw) - 1 : raw[i] = Newline /\ raw[i + 1] = Newline

(* Whatever was encoded before, a document without consecutive line breaks *)
(* is answered as a stateless encoder answers it, as long as only one      *)
(* vocabulary was encoded with at the address of its context.              *)
ReplayIsExact ==
  answer # NoAnswer /\ ~answer.stale /\ ~HasBlankLine(answer.raw) =>
    answer.tokens = Stateless(answer.vocabulary, answer.raw, answer.newline)

(* Under the same proviso every answer decodes to its document, blank      *)
(* lines included.                                                         *)
ReplayIsLossless ==
  answer # NoAnswer /\ ~answer.stale =>
    DecodeIds(answer.vocabulary, answer.tokens) =
      answer.raw \o (IF answer.newline THEN <<Newline>> ELSE <<>>)

(* "persistent surface runtime matches stateless": for any vocabulary the  *)
(* caller passes and any document.                                         *)
PersistentMatchesStateless ==
  answer # NoAnswer =>
    answer.tokens = Stateless(answer.vocabulary, answer.raw, answer.newline)
=============================================================================
