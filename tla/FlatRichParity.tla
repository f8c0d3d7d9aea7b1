--------------------------- MODULE FlatRichParity ---------------------------
(***************************************************************************)
(* The flat production encoder against the rich reference in Code mode,    *)
(* and both against the bytes, on every document up to MaxLength.  Its     *)
(* names stand beside those of CodeProgramCache in MCCodeMode and in the   *)
(* proofs.                                                                 *)
(***************************************************************************)
EXTENDS Naturals, Sequences, SequencesExt, FiniteSetsExt, CodeSegments

CONSTANT
  MaxLength                   \* bound: length of the documents explored

ASSUME MaxLength \in Nat

VARIABLES
  document,                   \* a document, grown one character at a time
  richSegments,               \* the segments of the reference
  flatSegments                \* the segments of the production encoder

parityVars == <<document, richSegments, flatSegments>>

ParityInit == document = <<>> /\ richSegments = <<>> /\ flatSegments = <<>>

Extend(char) ==
  /\ Len(document) < MaxLength
  /\ document' = Append(document, char)
  /\ richSegments' = RichSegments(document')
  /\ flatSegments' = FlatSegments(document')

ParityNext == \E char \in Char : Extend(char)

ParitySpec == ParityInit /\ [][ParityNext]_parityVars
-----------------------------------------------------------------------------
SegmentStarts(segments) == {s.start : s \in ToSet(segments)}

(* Where the two disagree, the flat encoder lost a bridge and nothing      *)
(* else: one rich segment is cut right after its leading space.            *)
FlatOnlyLosesBridges ==
  /\ SegmentStarts(richSegments) \subseteq SegmentStarts(flatSegments)
  /\ \A cut \in SegmentStarts(flatSegments) \ SegmentStarts(richSegments) :
       /\ document[cut] = Space /\ document[cut + 1] \in {Letter, Underscore}
       /\ cut - 1 \in SegmentStarts(richSegments)

(* A document that fits one chunk line by line and has no unit to split is *)
(* segmented alike: the chunk limit and the late split are the only causes *)
(* of a difference.                                                        *)
ParityWithinLimits ==
  LET units == Units(document)
  IN  /\ \A k \in DOMAIN units : ~RequiresSplit(units[k])
      /\ \A c \in DOMAIN Chunks(document) : Len(Chunks(document)[c]) < MaxChunkUnits
      => flatSegments = richSegments

(* Under every vocabulary the IDs decode to the document and the lengths   *)
(* add up to its size, whichever segmentation they come from: no segment   *)
(* encoder drops, repeats or reorders a byte (encode_segment, decode_ids). *)
RoundTrips ==
  \A vocabulary \in Vocabularies, segments \in {richSegments, flatSegments} :
    LET tokens == EncodeSegments(vocabulary, document, segments)
    IN  /\ DecodeIds(vocabulary, Framed(tokens, FALSE)) = document
        /\ \A k \in DOMAIN tokens :
             tokens[k].length = Len(DecodeIds(vocabulary, <<tokens[k]>>))
=============================================================================
