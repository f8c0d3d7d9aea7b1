---------------------------- MODULE OrderedBatch ----------------------------
(***************************************************************************)
(* What a batch call promises its caller, without threads: it returns, and *)
(* it returns the input-ordered encoding exactly when every document can   *)
(* be encoded; otherwise the error of a document that cannot, or notice of *)
(* a panic when some document panics.                                      *)
(***************************************************************************)
EXTENDS Naturals, Sequences, TrainingBatches

CONSTANTS
  Batches,                    \* the sequences of documents a caller may pass
  Paths                       \* the entry points that share this contract

VARIABLES
  phase,                      \* idle, running or returned
  path,
  inputs,
  outcome

vars == <<phase, path, inputs, outcome>>

NoOutcome == [kind |-> "pending"]

Ok(path_, docs) ==
  [kind |-> "ok", value |-> IF path_ = "rich" THEN OrderedDocuments(docs)
                                              ELSE OrderedEncoding(docs)]

Panics(docs) == \E i \in DOMAIN docs : docs[i].fate = "panic"

Allowed(path_, docs) ==
  IF Failing(docs, DOMAIN docs) = {}
  THEN {Ok(path_, docs)}
  ELSE {[kind |-> "err", doc |-> i] : i \in {j \in DOMAIN docs : docs[j].fate = "err"}}
       \union {r \in {[kind |-> "panicked"], [kind |-> "unwind"]} : Panics(docs)}

Init ==
  /\ phase = "idle"
  /\ path = "surface"
  /\ inputs = <<>>
  /\ outcome = NoOutcome

Call(p, docs) ==
  /\ phase = "idle"
  /\ path' = p
  /\ inputs' = docs
  /\ \/ phase' = "running" /\ outcome' = NoOutcome
     \/ phase' = "returned" /\ outcome' = [kind |-> "mismatch"]
     \/ phase' = "returned" /\ docs = <<>> /\ outcome' = Ok(p, docs)

Complete ==
  /\ phase = "running"
  /\ phase' = "returned"
  /\ outcome' \in Allowed(path, inputs)
  /\ UNCHANGED <<path, inputs>>

Return ==
  /\ phase = "returned"
  /\ phase' = "idle"
  /\ inputs' = <<>>
  /\ outcome' = NoOutcome
  /\ UNCHANGED path

Next ==
  \/ \E p \in Paths, docs \in Batches : Call(p, docs)
  \/ Complete
  \/ Return

Spec == Init /\ [][Next]_vars /\ WF_vars(Complete) /\ WF_vars(Return)
=============================================================================
