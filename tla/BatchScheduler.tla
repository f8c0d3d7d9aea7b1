--------------------------- MODULE BatchScheduler ---------------------------
(***************************************************************************)
(* The dynamic batch scheduler: a shared atomic counter hands contiguous   *)
(* chunks of the batch to scoped worker threads, each owning one retained  *)
(* cache; the main thread joins them in spawn order and reassembles the    *)
(* chunks.  Three entry points share it: encode_surface_batch_* (surface), *)
(* FlatTrainingEncoder::encode_batch (training), tokenize_batch (rich).    *)
(* Chunks are numbered from 1; `next` counts the claims made.              *)
(***************************************************************************)
EXTENDS Naturals, Sequences, SequencesExt, FiniteSetsExt,
        TrainingBatches, ScopedThreads, BatchRanges

CONSTANT Batches              \* the batches a caller may submit

Paths == {"surface", "training", "rich"}

ASSUME BatchesAssumption == Batches \subseteq Seq(Document)

VARIABLES
  phase,                      \* idle, inline, parallel or returned
  path,                       \* entry point of the current call
  inputs,                     \* its documents
  ranges,                     \* their chunks
  next,                       \* the shared claim counter
  holding,                    \* chunk each worker is encoding, 0 for none
  completed,                  \* chunks each worker finished, in its order
  failed,                     \* document whose encoding stopped the worker
  outcome                     \* what the call returned

callVars == <<phase, path, inputs, ranges, outcome>>
workVars == <<next, holding, completed, failed>>
vars == <<callVars, workVars, scopeVars>>

NoOutcome == [kind |-> "pending"]

NoWork ==
  /\ next = 0
  /\ holding = [w \in Worker |-> 0]
  /\ completed = [w \in Worker |-> <<>>]
  /\ failed = [w \in Worker |-> 0]

Init ==
  /\ phase = "idle"
  /\ path = "surface"
  /\ inputs = <<>>
  /\ ranges = <<>>
  /\ outcome = NoOutcome
  /\ NoWork
  /\ NoScope

FailureOutcome(docs, i) ==
  IF docs[i].fate = "err" THEN [kind |-> "err", doc |-> i] ELSE [kind |-> "unwind"]

(* The newline flags are checked against the inputs before anything else;  *)
(* the rich entry point takes none.  A surface runtime of another          *)
(* configuration, or with fewer caches than threads, is refused in the     *)
(* same way: no thread has started and nothing has been encoded.           *)
RejectMismatch(p, docs) ==
  /\ phase = "idle"
  /\ p # "rich"
  /\ phase' = "returned"
  /\ path' = p
  /\ inputs' = docs
  /\ outcome' = [kind |-> "mismatch"]
  /\ UNCHANGED <<ranges, workVars, scopeVars>>

ReturnEmpty(p) ==
  /\ phase = "idle"
  /\ <<>> \in Batches
  /\ phase' = "returned"
  /\ path' = p
  /\ inputs' = <<>>
  /\ outcome' = [kind |-> "ok", value |-> IF p = "rich" THEN <<>> ELSE EmptyBatch]
  /\ UNCHANGED <<ranges, workVars, scopeVars>>

Accept(p, docs) ==
  /\ phase = "idle"
  /\ docs # <<>>
  /\ path' = p
  /\ inputs' = docs
  /\ ranges' = BuildBatchRanges(Sizes(docs), Workers)
  /\ UNCHANGED <<outcome, workVars>>

(* One chunk is encoded by the calling thread, on the first cache.         *)
StartInline(p, docs) ==
  /\ Accept(p, docs)
  /\ Min({Workers, Len(ranges')}) = 1
  /\ phase' = "inline"
  /\ UNCHANGED scopeVars

StartParallel(p, docs) ==
  /\ Accept(p, docs)
  /\ Min({Workers, Len(ranges')}) > 1
  /\ phase' = "parallel"
  /\ OpenScope(Min({Workers, Len(ranges')}))

Whole == [start |-> 0, end |-> Len(inputs)]

EncodeInline ==
  /\ phase = "inline"
  /\ phase' = "returned"
  /\ outcome' =
       IF Failing(inputs, DOMAIN inputs) # {}
       THEN FailureOutcome(inputs, FirstFailure(inputs, DOMAIN inputs))
       ELSE [kind |-> "ok",
             value |-> CASE path = "surface"  -> EncodeFlatSurfaceRange(inputs, Whole)
                         [] path = "training" -> ConcatenateTrainingChunks(
                              <<[key |-> 0, value |-> EncodeDocuments(inputs, Whole)]>>)
                         [] path = "rich"     -> EncodeDocuments(inputs, Whole)]
  /\ UNCHANGED <<path, inputs, ranges, workVars, scopeVars>>

(* Mutant of Claim: the counter is read, not advanced.                     *)
ClaimByLoad(w) ==
  /\ status[w] = "running"
  /\ holding[w] = 0
  /\ IF next + 1 <= Len(ranges)
     THEN holding' = [holding EXCEPT ![w] = next + 1] /\ UNCHANGED scopeVars
     ELSE Finish(w, "ok") /\ UNCHANGED holding
  /\ UNCHANGED <<next, completed, failed, callVars>>

(* fetch_add and the range lookup: past the last chunk the worker is done. *)
Claim(w) ==
  /\ status[w] = "running"
  /\ holding[w] = 0
  /\ next' = next + 1
  /\ IF next + 1 <= Len(ranges)
     THEN holding' = [holding EXCEPT ![w] = next + 1] /\ UNCHANGED scopeVars
     ELSE Finish(w, "ok") /\ UNCHANGED holding
  /\ UNCHANGED <<completed, failed, callVars>>

FailingIn(chunk) == Failing(inputs, DocsOf(ranges[chunk]))

EncodeChunk(w) ==
  /\ status[w] = "running"
  /\ holding[w] # 0
  /\ FailingIn(holding[w]) = {}
  /\ completed' = [completed EXCEPT ![w] = Append(@, holding[w])]
  /\ holding' = [holding EXCEPT ![w] = 0]
  /\ UNCHANGED <<next, failed, callVars, scopeVars>>

(* Mutant of FailChunk: the worker stops, but reports what it has as done. *)
FailQuietly(w) ==
  /\ status[w] = "running"
  /\ holding[w] # 0
  /\ FailingIn(holding[w]) # {}
  /\ failed' = [failed EXCEPT ![w] = Min(FailingIn(holding[w]))]
  /\ Finish(w, "ok")
  /\ UNCHANGED <<next, holding, completed, callVars>>

(* The first failing document of the chunk ends the worker; what it had    *)
(* completed is dropped with its Err result or by unwinding.               *)
FailChunk(w) ==
  /\ status[w] = "running"
  /\ holding[w] # 0
  /\ FailingIn(holding[w]) # {}
  /\ failed' = [failed EXCEPT ![w] = Min(FailingIn(holding[w]))]
  /\ Finish(w, IF inputs[Min(FailingIn(holding[w]))].fate = "err"
               THEN "err" ELSE "panicked")
  /\ UNCHANGED <<next, holding, completed, callVars>>

(* The chunks of the joined workers, in join order, with their values.     *)
CollectedChunks ==
  LET indices == FlattenSeq([w \in 1 .. workerCount |-> completed[w]])
  IN  [k \in DOMAIN indices |->
         [key   |-> indices[k],
          value |-> IF path = "surface"
                    THEN EncodeFlatSurfaceRange(inputs, ranges[indices[k]])
                    ELSE EncodeDocuments(inputs, ranges[indices[k]])]]

Assemble ==
  CASE path = "surface"  -> ConcatenateSurfaceChunks(CollectedChunks)
    [] path = "training" -> ConcatenateTrainingChunks(CollectedChunks)
    [] path = "rich"     -> ConcatenateDocuments(CollectedChunks)

FinishParallel ==
  /\ phase = "parallel"
  /\ scope = "closed"
  /\ phase' = "returned"
  /\ outcome' = CASE verdict = "ok"  -> [kind |-> "ok", value |-> Assemble]
                  [] verdict = "err" -> [kind |-> "err", doc |-> failed[joined]]
                  [] OTHER           -> [kind |-> verdict]
  /\ UNCHANGED <<path, inputs, ranges, workVars, scopeVars>>

MainStep == ScopeStep /\ UNCHANGED <<callVars, workVars>>

Return ==
  /\ phase = "returned"
  /\ phase' = "idle"
  /\ inputs' = <<>>
  /\ ranges' = <<>>
  /\ outcome' = NoOutcome
  /\ next' = 0
  /\ holding' = [w \in Worker |-> 0]
  /\ completed' = [w \in Worker |-> <<>>]
  /\ failed' = [w \in Worker |-> 0]
  /\ ForgetScope
  /\ UNCHANGED path

Work(w) == Claim(w) \/ EncodeChunk(w) \/ FailChunk(w)

Next ==
  \/ \E p \in Paths, docs \in Batches :
       RejectMismatch(p, docs) \/ StartInline(p, docs) \/ StartParallel(p, docs)
  \/ \E p \in Paths : ReturnEmpty(p)
  \/ EncodeInline
  \/ \E w \in Worker : Work(w)
  \/ MainStep
  \/ FinishParallel
  \/ Return

(* Every started thread is run by the operating system, and the calling    *)
(* thread does not stop inside the call; whether another call is ever made *)
(* is up to the caller.                                                    *)
Fairness ==
  /\ \A w \in Worker : WF_vars(Work(w))
  /\ WF_vars(EncodeInline \/ MainStep \/ FinishParallel \/ Return)

Spec == Init /\ [][Next]_vars /\ Fairness
-----------------------------------------------------------------------------
(* Every variable has its type: claimed and completed chunks are numbers,  *)
(* a failure is a document, and the phase is one a call goes through.      *)
TypeOK ==
  /\ phase \in {"idle", "inline", "parallel", "returned"}
  /\ path \in Paths
  /\ inputs \in Seq(Document)
  /\ ranges \in Seq([start : Nat, end : Nat])
  /\ next \in Nat
  /\ holding \in [Worker -> Nat]
  /\ completed \in [Worker -> Seq(Nat)]
  /\ failed \in [Worker -> Nat]
  /\ ScopeTypeOK

Owned(w) == ToSet(completed[w]) \union ({holding[w]} \ {0})

Claimed == {c \in 1 .. next : c <= Len(ranges)}

(* The claimed chunks are partitioned among the workers: no chunk is lost  *)
(* between the counter and a worker, none is taken twice, and none is      *)
(* completed twice (the fetch_add loop).                                   *)
ChunksPartitioned ==
  /\ \A c \in Claimed : \E w \in Worker : c \in Owned(w)
  /\ \A w \in Worker : Owned(w) \subseteq Claimed
  /\ \A v, w \in Worker : v # w => Owned(v) \intersect Owned(w) = {}
  /\ \A w \in Worker : /\ IsInjective(completed[w])
                       /\ holding[w] \notin ToSet(completed[w])

(* A call that has returned left no worker behind: the retained caches and *)
(* the borrowed inputs are its caller's alone again (thread::scope).       *)
NoWorkerOutlivesCall ==
  phase \in {"idle", "inline", "returned"} => \A w \in Worker : status[w] # "running"

(* When every handle joined with Ok, every chunk of the batch has been     *)
(* completed by one of the joined workers and none of them holds a failing *)
(* document: a worker that stopped early cannot go unnoticed.              *)
SuccessIsComplete ==
  verdict = "ok" =>
    \A c \in 1 .. Len(ranges) :
      /\ \E w \in 1 .. workerCount : c \in ToSet(completed[w])
      /\ FailingIn(c) = {}

Contract == INSTANCE OrderedBatch
  WITH phase <- IF phase \in {"inline", "parallel"} THEN "running" ELSE phase

(* The threaded call implements the thread-free contract of OrderedBatch.  *)
ImplementsContract == Contract!Spec
=============================================================================
