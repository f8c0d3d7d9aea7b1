--------------------------- MODULE TrainingStreams ---------------------------
(***************************************************************************)
(* The character streams models are trained on: vocab.rs and training.rs.  *)
(* A token is [token, text, width]: a special token, a listed character,   *)
(* or one byte of a character that is not listed; width is the number of   *)
(* bytes of the document it stands for.                                    *)
(***************************************************************************)
LOCAL INSTANCE Naturals
LOCAL INSTANCE Sequences
LOCAL INSTANCE SequencesExt
LOCAL INSTANCE LexicalScanner

CONSTANT Listed   \* the characters of the vocabulary

Special(name) == <<[token |-> name, text |-> "", width |-> 0]>>
LineFeed == <<[token |-> "byte", text |-> "\n", width |-> 1]>>
Width(char) == IF Ascii(char) \/ char = "invalid" THEN 1 ELSE 2

EncodeScalar(char) ==
  IF char \in Listed THEN <<[token |-> "char", text |-> char, width |-> Width(char)]>>
  ELSE [k \in 1 .. Width(char) |-> [token |-> "byte", text |-> char, width |-> 1]]

When(test, tokens) == IF test THEN tokens ELSE <<>>

(* SurfaceEncoder::encode: the characters of a span, with its cuts.        *)
EncodeSurface(raw, span, cuts) ==
  FoldLeft(LAMBDA tokens, i :
             tokens \o When(i - 1 \in cuts, Special("MORPHEME")) \o EncodeScalar(raw[i]),
           <<>>, [k \in 1 .. span.end - span.start |-> span.start + k])

(* validate_flat_units, and the cuts the encoder must meet.                *)
ValidFlatUnits(raw, units) ==
  /\ Covers(raw, units)
  /\ \A k \in DOMAIN units : /\ units[k].start < units[k].end
                             /\ units[k].cuts \subseteq units[k].start + 1 .. units[k].end - 1

(* validate_byte_accounting. *)
AccountedBytes(tokens) == FoldLeft(LAMBDA total, token : total + token.width, 0, tokens)
DocumentBytes(raw, newline) ==
  FoldLeft(LAMBDA total, char : total + Width(char), IF newline THEN 1 ELSE 0, raw)

Rejected == [ok |-> FALSE, tokens |-> <<>>]
Accounted(raw, newline, tokens) ==
  IF AccountedBytes(tokens) = DocumentBytes(raw, newline) THEN [ok |-> TRUE, tokens |-> tokens]
  ELSE Rejected

(* Where the stream enters and leaves code. *)
CodeBoundary(inCode, unit) ==
  CASE unit.mode = "Code" /\ ~inCode -> Special("CODE_START")
    [] unit.mode # "Code" /\ inCode -> Special("CODE_END")
    [] OTHER -> <<>>

(* encode_training_units, for any choice of the boundaries to emit.        *)
EncodeTrainingUnits(raw, units, newline, options) ==
  LET emit(state, unit) ==
        [inCode |-> options.code /\ unit.mode = "Code",
         tokens |-> state.tokens
                    \o When(options.code, CodeBoundary(state.inCode, unit))
                    \o When(options.unit, Special("UNIT"))
                    \o EncodeSurface(raw, unit, IF options.morpheme THEN unit.cuts ELSE {})]
      all == FoldLeft(emit, [inCode |-> FALSE, tokens |-> Special("BOS")], units)
  IN  IF ~ValidFlatUnits(raw, units) THEN Rejected
      ELSE Accounted(raw, newline,
             all.tokens \o When(all.inCode, Special("CODE_END"))
                        \o When(newline, LineFeed) \o Special("EOS"))

(* CharacterVocabulary::encode: the rich document, with every boundary.    *)
EncodeDocument(raw, units) ==
  LET emit(state, unit) ==
        [inCode |-> unit.mode = "Code",
         tokens |-> state.tokens \o CodeBoundary(state.inCode, unit) \o Special("UNIT")
                    \o EncodeSurface(raw, unit, unit.cuts)]
      all == FoldLeft(emit, [inCode |-> FALSE, tokens |-> Special("BOS")], units)
  IN  all.tokens \o When(all.inCode, Special("CODE_END")) \o Special("EOS")

(* encode_character_training_document and encode_byte_training_document:   *)
(* the characters, or the bytes, of a document without its units.          *)
EncodeCharacters(raw, newline) ==
  Accounted(raw, newline,
    Special("BOS") \o EncodeSurface(raw, [start |-> 0, end |-> Len(raw)], {})
                   \o When(newline, LineFeed) \o Special("EOS"))
EncodeBytes(raw, newline) ==
  Accounted(raw, newline,
    Special("BOS")
    \o FlattenSeq([i \in DOMAIN raw |->
         [k \in 1 .. Width(raw[i]) |-> [token |-> "byte", text |-> raw[i], width |-> 1]]])
    \o When(newline, LineFeed) \o Special("EOS"))
=============================================================================
