------------------------ MODULE BatchSchedulerProofs ------------------------
(***************************************************************************)
(* Proofs, for every number of workers and every set of batches, that the  *)
(* batch scheduler is typed, that the claimed chunks are partitioned among *)
(* the workers, that no worker outlives its call, and that a successful    *)
(* join has every chunk.                                                   *)
(***************************************************************************)
EXTENDS BatchScheduler, BatchLemmas

(* The scope is open only during a parallel call, whose chunks cover the   *)
(* batch; nothing is returned before the call returns.                     *)
CallShape ==
  /\ phase # "parallel" => scope \in {"none", "closed"}
  /\ phase = "parallel" => scope # "none"
  /\ phase \in {"idle", "inline"} => NoWork /\ NoScope
  /\ phase \in {"inline", "parallel"} => inputs # <<>> /\ IsExactCover(ranges, Len(inputs))
  /\ phase # "returned" => outcome = NoOutcome

(* A worker holds nothing before it is spawned and after it has run out of *)
(* chunks, completes only chunks without a failing document, and reports   *)
(* as its failure a document that fails in that way.                       *)
WorkShape ==
  /\ \A w \in Worker : status[w] = "none" => holding[w] = 0 /\ completed[w] = <<>>
  /\ \A w \in Worker : status[w] = "ok" => holding[w] = 0 /\ ~ (next + 1 <= Len(ranges))
  /\ \A w \in Worker : \A c \in ToSet(completed[w]) : FailingIn(c) = {}
  /\ \A w \in Worker :
       /\ status[w] = "err" => failed[w] \in DOMAIN inputs /\ inputs[failed[w]].fate = "err"
       /\ status[w] = "panicked" => failed[w] \in DOMAIN inputs /\ inputs[failed[w]].fate = "panic"

IInv == TypeOK /\ ScopeShape /\ CallShape /\ WorkShape /\ ChunksPartitioned

(* The chunks of any batch that is not empty cover it.                     *)
LEMMA ChunksCover ==
  ASSUME NEW docs \in Seq(Document), docs # <<>>
  PROVE  /\ BuildBatchRanges(Sizes(docs), Workers) \in Seq([start : Nat, end : Nat])
         /\ IsExactCover(BuildBatchRanges(Sizes(docs), Workers), Len(docs))
<1>1. /\ Sizes(docs) = [i \in 1 .. Len(docs) |-> docs[i].size] /\ Len(docs) \in Nat
      /\ \A i \in 1 .. Len(docs) : docs[i] \in Document
  BY DEF Sizes
<1>2. \A i \in 1 .. Len(docs) : docs[i].size \in Nat
  BY <1>1 DEF Document
<1>3. Sizes(docs) \in Seq(Nat) /\ Len(Sizes(docs)) = Len(docs)
  BY <1>1, <1>2
<1>4. Len(docs) # 0
  OBVIOUS
<1>5. Sizes(docs) # <<>>
  BY <1>3, <1>4
<1>6. QED
  BY <1>3, <1>5, BatchRangesCover DEF Span

(* In an initial state nothing has begun.                                  *)
LEMMA InitIInv == Init => IInv
<1> SUFFICES ASSUME Init PROVE IInv
  OBVIOUS
<1>1. ScopeTypeOK /\ ScopeShape
  BY NoScopeShape DEF Init
<1> USE WorkersAssumption DEF Init, NoWork, NoScope
<1>2. TypeOK
  BY <1>1 DEF TypeOK, Paths
<1>3. ToSet(<<>>) = {} /\ IsInjective(<<>>)
  BY DEF ToSet, IsInjective
<1>4. \A w \in Worker : Owned(w) = {}
  BY <1>3 DEF Owned
<1>5. CallShape
  BY DEF CallShape
<1>6. WorkShape
  BY <1>3 DEF WorkShape
<1>7. ChunksPartitioned
  BY <1>3, <1>4 DEF ChunksPartitioned, Claimed
<1>8. QED
  BY <1>1, <1>2, <1>5, <1>6, <1>7 DEF IInv

(* A submitted call leaves the work as it found it: not begun.             *)
LEMMA SubmitShape ==
  ASSUME IInv, phase = "idle", UNCHANGED workVars, NoScope' \/ scope' = "spawning",
         ScopeTypeOK', ScopeShape', \A w \in Worker : status'[w] = "none"
  PROVE  WorkShape' /\ ChunksPartitioned'
<1> USE DEF IInv
<1>1. next = 0 /\ (\A w \in Worker : holding[w] = 0 /\ completed[w] = <<>>)
  BY DEF CallShape, NoWork
<1>2. ToSet(<<>>) = {}
  BY DEF ToSet
<1>3. WorkShape'
  BY <1>1, <1>2 DEF WorkShape, workVars
<1>4. ChunksPartitioned'
  BY <1>1, <1>2 DEF ChunksPartitioned, Claimed, Owned, workVars
<1>5. QED
  BY <1>3, <1>4

(* Steps that leave the scope and the work alone.                          *)
LEMMA SubmitIInv ==
  ASSUME IInv, NEW p \in Paths, NEW docs \in Batches,
         RejectMismatch(p, docs) \/ StartInline(p, docs)
  PROVE  IInv'
<1> USE DEF IInv
<1>1. /\ docs \in Seq(Document) /\ phase = "idle" /\ UNCHANGED <<workVars, scopeVars>>
      /\ inputs' = docs /\ path' = p /\ phase' \in {"returned", "inline"}
  BY BatchesAssumption DEF RejectMismatch, StartInline, Accept
<1>2. NoWork /\ NoScope /\ outcome = NoOutcome
  BY <1>1 DEF CallShape
<1>3. NoWork' /\ NoScope'
  BY <1>1, <1>2 DEF NoWork, NoScope, workVars, scopeVars
<1>4. ScopeTypeOK' /\ ScopeShape'
  BY <1>1 DEF ScopeTypeOK, ScopeShape, scopeVars, TypeOK
<1>5. /\ ranges' \in Seq([start : Nat, end : Nat])
      /\ phase' = "inline" => /\ inputs' # <<>> /\ IsExactCover(ranges', Len(inputs'))
                              /\ outcome' = NoOutcome
  BY <1>1, <1>2, ChunksCover DEF RejectMismatch, StartInline, Accept, TypeOK
<1>6. TypeOK'
  BY <1>1, <1>4, <1>5 DEF TypeOK, workVars
<1>7. CallShape'
  BY <1>1, <1>3, <1>5 DEF CallShape, NoScope
<1>8. WorkShape' /\ ChunksPartitioned'
  BY <1>1, <1>3, <1>4, SubmitShape DEF NoScope
<1>9. QED
  BY <1>4, <1>6, <1>7, <1>8

(* A parallel call opens its scope.                                        *)
LEMMA StartParallelIInv ==
  ASSUME IInv, NEW p \in Paths, NEW docs \in Batches, StartParallel(p, docs)
  PROVE  IInv'
<1> USE DEF IInv
<1>1. /\ docs \in Seq(Document) /\ phase = "idle" /\ UNCHANGED <<workVars, outcome>>
      /\ docs # <<>> /\ inputs' = docs /\ path' = p /\ phase' = "parallel"
      /\ ranges' = BuildBatchRanges(Sizes(docs), Workers)
  BY BatchesAssumption DEF StartParallel, Accept
<1>2. /\ ranges' \in Seq([start : Nat, end : Nat]) /\ IsExactCover(ranges', Len(inputs'))
      /\ outcome' = NoOutcome
  BY <1>1, ChunksCover DEF CallShape
<1>3. Min({Workers, Len(ranges')}) \in 1 .. Workers /\ OpenScope(Min({Workers, Len(ranges')}))
  <2>1. Len(ranges') \in Nat /\ Workers \in Nat
    BY <1>2, WorkersAssumption
  <2>2. OpenScope(Min({Workers, Len(ranges')})) /\ Min({Workers, Len(ranges')}) > 1
    BY DEF StartParallel
  <2>3. Min({Workers, Len(ranges')}) \in Nat /\ Min({Workers, Len(ranges')}) <= Workers
    BY <2>1, MinOfTwo
  <2>4. QED
    BY <2>1, <2>2, <2>3
<1>4. /\ ScopeTypeOK' /\ ScopeShape' /\ scope' = "spawning"
      /\ \A w \in Worker : status'[w] = "none"
  BY <1>3, OpenScopeShape DEF OpenScope, SetScope
<1>5. TypeOK'
  BY <1>1, <1>2, <1>4 DEF TypeOK, workVars
<1>6. CallShape'
  BY <1>1, <1>2, <1>4 DEF CallShape
<1>7. WorkShape' /\ ChunksPartitioned'
  BY <1>1, <1>4, SubmitShape
<1>8. QED
  BY <1>4, <1>5, <1>6, <1>7

(* Steps of the calling thread outside the scope.                          *)
LEMMA CallerIInv ==
  ASSUME IInv, (\E p \in Paths : ReturnEmpty(p)) \/ EncodeInline \/ FinishParallel
  PROVE  IInv'
<1> USE DEF IInv
<1>1. PICK p \in Paths : ReturnEmpty(p) \/ EncodeInline \/ FinishParallel
  BY DEF Paths
<1>2. UNCHANGED <<ranges, workVars, scopeVars>> /\ phase' = "returned" /\ path' \in Paths
      /\ inputs' \in Seq(Document)
  <2>1. <<>> \in Seq(Document)
    OBVIOUS
  <2>2. UNCHANGED <<ranges, workVars, scopeVars>> /\ phase' = "returned"
    BY <1>1 DEF ReturnEmpty, EncodeInline, FinishParallel
  <2>3. (path' = p \/ path' = path) /\ (inputs' = <<>> \/ inputs' = inputs)
    BY <1>1 DEF ReturnEmpty, EncodeInline, FinishParallel
  <2>4. QED
    BY <1>1, <2>1, <2>2, <2>3 DEF TypeOK
<1>3. scope \in {"none", "closed"}
  BY <1>1 DEF CallShape, ReturnEmpty, EncodeInline, FinishParallel
<1>4. phase = "idle" => \A w \in Worker : completed[w] = <<>> /\ status[w] = "none"
  BY DEF CallShape, NoWork, NoScope
<1>5. phase # "idle" => inputs' = inputs
  BY <1>1 DEF ReturnEmpty, EncodeInline, FinishParallel
<1>6. TypeOK'
  BY <1>2 DEF TypeOK, workVars, scopeVars, ScopeTypeOK
<1>7. ScopeShape'
  BY <1>2 DEF ScopeShape, scopeVars
<1>8. CallShape'
  BY <1>2, <1>3 DEF CallShape, scopeVars
<1>9. WorkShape'
  <2>1. ToSet(<<>>) = {}
    BY DEF ToSet
  <2>2. \A w \in Worker : \A c \in ToSet(completed[w]) : FailingIn(c)' = {}
    BY <1>2, <1>4, <1>5, <2>1 DEF WorkShape, FailingIn
  <2>3. QED
    BY <1>2, <1>4, <1>5, <2>2 DEF WorkShape, workVars, scopeVars
<1>10. ChunksPartitioned'
  BY <1>2 DEF ChunksPartitioned, Claimed, Owned, workVars
<1>11. QED
  BY <1>6, <1>7, <1>8, <1>9, <1>10

(* The call is over and everything is forgotten.                           *)
LEMMA ReturnIInv ==
  ASSUME IInv, Return
  PROVE  IInv'
<1> USE DEF IInv
<1>1. ToSet(<<>>) = {} /\ IsInjective(<<>>)
  BY DEF ToSet, IsInjective
<1>2. NoScope' /\ NoWork'
  BY ForgetScopeShape DEF Return, NoWork
<1>3. ScopeTypeOK' /\ ScopeShape'
  BY <1>2, WorkersAssumption DEF NoScope, ScopeTypeOK, ScopeShape, Worker
<1>4. TypeOK'
  BY <1>3, WorkersAssumption DEF TypeOK, Return
<1>5. CallShape'
  BY <1>2 DEF CallShape, Return, NoScope
<1>6. WorkShape'
  BY <1>1, <1>2 DEF WorkShape, NoWork, NoScope
<1>7. ChunksPartitioned'
  BY <1>1, <1>2 DEF ChunksPartitioned, Claimed, Owned, NoWork
<1>8. QED
  BY <1>3, <1>4, <1>5, <1>6, <1>7

(* Steps of the calling thread inside the scope.                           *)
LEMMA MainIInv ==
  ASSUME IInv, MainStep
  PROVE  IInv'
<1> USE DEF IInv
<1>1. UNCHANGED <<callVars, workVars>> /\ ScopeStep
  BY DEF MainStep
<1>2. /\ ScopeTypeOK' /\ ScopeShape'
      /\ scope \notin {"none", "closed"}
      /\ \A w \in Worker : status'[w] # status[w] => status[w] = "none" /\ status'[w] = "running"
  BY <1>1, ScopeStepShape DEF TypeOK
<1>3. phase = "parallel"
  BY <1>2 DEF CallShape
<1>4. TypeOK'
  BY <1>1, <1>2 DEF TypeOK, callVars, workVars
<1>5. CallShape'
  BY <1>1, <1>2, <1>3 DEF CallShape, callVars, ScopeStep, Spawn, Join, CloseScope
<1>6. WorkShape'
  BY <1>1, <1>2 DEF WorkShape, callVars, workVars, FailingIn
<1>7. ChunksPartitioned'
  BY <1>1 DEF ChunksPartitioned, Claimed, Owned, callVars, workVars
<1>8. QED
  BY <1>2, <1>4, <1>5, <1>6, <1>7

(* A worker step happens during a parallel call.                           *)
LEMMA WorkerInParallel ==
  ASSUME IInv, NEW w \in Worker, status[w] = "running"
  PROVE  phase = "parallel" /\ scope # "none"
BY WorkerRuns DEF IInv, TypeOK, CallShape

(* What a worker holds is one of the chunks.                               *)
LEMMA HoldingIsChunk ==
  ASSUME IInv, NEW w \in Worker, holding[w] # 0
  PROVE  holding[w] \in 1 .. Len(ranges)
<1>1. holding[w] \in Nat /\ next \in Nat /\ Len(ranges) \in Nat
  BY DEF IInv, TypeOK
<1>2. holding[w] \in Claimed
  BY DEF IInv, ChunksPartitioned, Owned
<1>3. QED
  BY <1>1, <1>2 DEF Claimed

(* Claiming a chunk, or finding that none is left.                         *)
LEMMA ClaimIInv ==
  ASSUME IInv, NEW w \in Worker, Claim(w)
  PROVE  IInv'
<1> USE DEF IInv
<1>1. /\ status[w] = "running" /\ holding[w] = 0 /\ next' = next + 1
      /\ UNCHANGED <<completed, failed, callVars>>
  BY DEF Claim
<1>2. next \in Nat /\ holding \in [Worker -> Nat] /\ completed \in [Worker -> Seq(Nat)]
  BY DEF TypeOK
<1>3. phase = "parallel" /\ scope # "none"
  BY <1>1, WorkerInParallel
<1>4. CASE next + 1 <= Len(ranges)
  <2>1. holding' = [holding EXCEPT ![w] = next + 1] /\ UNCHANGED scopeVars
    BY <1>4 DEF Claim
  <2>2. TypeOK'
    BY <1>1, <1>2, <2>1 DEF TypeOK, callVars, scopeVars, ScopeTypeOK
  <2>3. ScopeShape' /\ CallShape'
    BY <1>1, <1>3, <2>1 DEF ScopeShape, CallShape, callVars, scopeVars
  <2>4. \A v \in Worker : v # w => holding'[v] = holding[v]
    BY <1>2, <2>1
  <2>5. WorkShape'
    <3>1. \A v \in Worker : status[v] # "ok"
      BY <1>4 DEF WorkShape
    <3>2. QED
      BY <1>1, <1>3, <2>1, <2>4, <3>1 DEF WorkShape, callVars, scopeVars, FailingIn
  <2>6. Owned(w)' = Owned(w) \union {next + 1}
    BY <1>1, <1>2, <2>1 DEF Owned
  <2>7. \A v \in Worker : v # w => Owned(v)' = Owned(v)
    BY <1>1, <2>4 DEF Owned
  <2>8. Claimed' = Claimed \union {next + 1} /\ next + 1 \notin Claimed
    BY <1>1, <1>2, <1>4 DEF Claimed, callVars
  <2>9. \A v \in Worker : next + 1 \notin Owned(v)
    BY <2>8 DEF ChunksPartitioned
  <2>10. ChunksPartitioned'
    <3>1. \A c \in Claimed' : \E v \in Worker : c \in Owned(v)'
      BY <2>6, <2>7, <2>8 DEF ChunksPartitioned
    <3>2. \A v \in Worker : Owned(v)' \subseteq Claimed'
      BY <2>6, <2>7, <2>8 DEF ChunksPartitioned
    <3>3. \A u, v \in Worker : u # v => Owned(u)' \intersect Owned(v)' = {}
      BY <2>6, <2>7, <2>9 DEF ChunksPartitioned
    <3>4. \A v \in Worker : holding'[v] \notin ToSet(completed[v])
      <4>1. ToSet(completed[w]) \subseteq Owned(w)
        BY DEF Owned
      <4>2. holding'[w] = next + 1
        BY <1>2, <2>1
      <4>3. QED
        BY <2>4, <2>9, <4>1, <4>2 DEF ChunksPartitioned
    <3>5. \A v \in Worker : IsInjective(completed'[v]) /\ holding'[v] \notin ToSet(completed'[v])
      BY <1>1, <3>4 DEF ChunksPartitioned
    <3>6. QED
      BY <3>1, <3>2, <3>3, <3>5 DEF ChunksPartitioned
  <2>11. QED
    BY <2>2, <2>3, <2>5, <2>10
<1>5. CASE ~ (next + 1 <= Len(ranges))
  <2>1. Finish(w, "ok") /\ UNCHANGED holding
    BY <1>5 DEF Claim
  <2>2. /\ ScopeTypeOK' /\ ScopeShape' /\ UNCHANGED scope
        /\ \A v \in Worker : status'[v] = IF v = w THEN "ok" ELSE status[v]
    BY <1>1, <2>1, FinishShape DEF Terminated, TypeOK
  <2>3. TypeOK'
    BY <1>1, <1>2, <2>1, <2>2 DEF TypeOK, callVars
  <2>4. CallShape'
    BY <1>1, <1>3, <2>2 DEF CallShape, callVars
  <2>5. ~ (next + 1 + 1 <= Len(ranges))
    BY <1>2, <1>5 DEF TypeOK
  <2>6. WorkShape'
    BY <1>1, <1>3, <2>1, <2>2, <2>5 DEF WorkShape, callVars, FailingIn
  <2>7. Claimed' = Claimed
    BY <1>1, <1>2, <1>5 DEF Claimed, callVars
  <2>8. ChunksPartitioned'
    BY <1>1, <2>1, <2>7 DEF ChunksPartitioned, Owned
  <2>9. QED
    BY <2>2, <2>3, <2>4, <2>6, <2>8
<1>6. QED
  BY <1>4, <1>5

(* Completing the chunk held.                                              *)
LEMMA EncodeChunkIInv ==
  ASSUME IInv, NEW w \in Worker, EncodeChunk(w)
  PROVE  IInv'
<1> USE DEF IInv
<1>1. /\ status[w] = "running" /\ holding[w] # 0 /\ FailingIn(holding[w]) = {}
      /\ completed' = [completed EXCEPT ![w] = Append(@, holding[w])]
      /\ holding' = [holding EXCEPT ![w] = 0]
      /\ UNCHANGED <<next, failed, callVars, scopeVars>>
  BY DEF EncodeChunk
<1>2. next \in Nat /\ holding \in [Worker -> Nat] /\ completed \in [Worker -> Seq(Nat)]
  BY DEF TypeOK
<1>3. phase = "parallel" /\ scope # "none"
  BY <1>1, WorkerInParallel
<1>4. holding[w] \notin ToSet(completed[w]) /\ IsInjective(completed[w])
  BY DEF ChunksPartitioned
<1>5. /\ completed'[w] \in Seq(Nat)
      /\ ToSet(completed'[w]) = ToSet(completed[w]) \union {holding[w]}
      /\ IsInjective(completed'[w])
      /\ holding'[w] = 0
  BY <1>1, <1>2, <1>4, AppendHolds
<1>6. \A v \in Worker : v # w => completed'[v] = completed[v] /\ holding'[v] = holding[v]
  BY <1>1, <1>2
<1>7. TypeOK'
  BY <1>1, <1>2, <1>5 DEF TypeOK, callVars, scopeVars, ScopeTypeOK
<1>8. ScopeShape' /\ CallShape'
  BY <1>1, <1>3 DEF ScopeShape, CallShape, callVars, scopeVars
<1>9. WorkShape'
  BY <1>1, <1>3, <1>5, <1>6 DEF WorkShape, callVars, scopeVars, FailingIn
<1>10. \A v \in Worker : Owned(v)' = Owned(v)
  BY <1>1, <1>5, <1>6 DEF Owned
<1>11. 0 \notin ToSet(completed[w])
  <2>1. ToSet(completed[w]) \subseteq Claimed
    BY DEF ChunksPartitioned, Owned
  <2>2. QED
    BY <1>2, <2>1 DEF Claimed
<1>12. ChunksPartitioned'
  BY <1>1, <1>5, <1>6, <1>10, <1>11 DEF ChunksPartitioned, Claimed, callVars
<1>13. QED
  BY <1>7, <1>8, <1>9, <1>12

(* The first failing document of the chunk held is one of the batch.       *)
LEMMA FailureIsDocument ==
  ASSUME IInv, NEW w \in Worker, status[w] = "running", holding[w] # 0,
         FailingIn(holding[w]) # {}
  PROVE  LET i == Min(FailingIn(holding[w]))
         IN  i \in Nat /\ i \in DOMAIN inputs /\ inputs[i].fate \in {"err", "panic"}
<1> DEFINE c == holding[w]
           n == Len(inputs)
<1> USE DEF IInv
<1>1. phase = "parallel" /\ c \in 1 .. Len(ranges)
  BY WorkerInParallel, HoldingIsChunk
<1>2. ranges \in Seq(Span) /\ n \in Nat /\ IsExactCover(ranges, n)
  BY <1>1 DEF TypeOK, CallShape, Span
<1> HIDE DEF c
<1>3. ranges[c].start \in 0 .. n /\ ranges[c].end \in 0 .. n
  BY <1>1, <1>2, CoverShape
<1>4. DocsOf(ranges[c]) \subseteq 1 .. n
  BY <1>2, <1>3 DEF DocsOf
<1>5. FailingIn(c) \subseteq 1 .. n /\ \A i \in FailingIn(c) : inputs[i].fate # "ok"
  BY <1>4 DEF FailingIn, Failing
<1>6. Min(FailingIn(c)) \in FailingIn(c)
  BY <1>2, <1>5, MinOfNaturals DEF c
<1>7. inputs[Min(FailingIn(c))].fate \in Fates
  <2>1. \A k \in 1 .. n : inputs[k] \in Document
    BY DEF TypeOK
  <2>2. \A k \in 1 .. n : inputs[k].fate \in Fates
    BY <2>1 DEF Document
  <2> HIDE DEF n
  <2>3. QED
    BY <1>5, <1>6, <2>2
<1>8. QED
  BY <1>2, <1>5, <1>6, <1>7 DEF Fates, c, TypeOK

(* Stopping at it.                                                         *)
LEMMA FailChunkIInv ==
  ASSUME IInv, NEW w \in Worker, FailChunk(w)
  PROVE  IInv'
<1> USE DEF IInv
<1> DEFINE i == Min(FailingIn(holding[w]))
           how == IF inputs[i].fate = "err" THEN "err" ELSE "panicked"
<1>1. /\ status[w] = "running" /\ holding[w] # 0 /\ FailingIn(holding[w]) # {}
      /\ failed' = [failed EXCEPT ![w] = i]
      /\ Finish(w, how) /\ UNCHANGED <<next, holding, completed, callVars>>
  BY DEF FailChunk
<1>2. i \in Nat /\ i \in DOMAIN inputs /\ inputs[i].fate \in {"err", "panic"}
  BY <1>1, FailureIsDocument
<1> HIDE DEF i
<1>3. /\ how \in Terminated /\ how \notin {"ok", "none"}
      /\ how = "err" => inputs[i].fate = "err"
      /\ how = "panicked" => inputs[i].fate = "panic"
  BY <1>2 DEF Terminated
<1> HIDE DEF how
<1>4. /\ ScopeTypeOK' /\ ScopeShape' /\ UNCHANGED scope
      /\ \A v \in Worker : status'[v] = IF v = w THEN how ELSE status[v]
  BY <1>1, <1>3, FinishShape DEF TypeOK
<1>5. TypeOK'
  BY <1>1, <1>2, <1>4 DEF TypeOK, callVars
<1>6. phase = "parallel" /\ scope # "none"
  BY <1>1, WorkerInParallel
<1>7. CallShape'
  BY <1>1, <1>4, <1>6 DEF CallShape, callVars
<1>8. \A v \in Worker : failed'[v] = IF v = w THEN i ELSE failed[v]
  BY <1>1 DEF TypeOK
<1>9. WorkShape'
  <2>1. UNCHANGED <<next, ranges, holding, completed, inputs>>
    BY <1>1 DEF callVars
  <2>2. \A v \in Worker : status'[v] \in {"none", "ok"} => status[v] = status'[v]
    BY <1>3, <1>4
  <2>3. \A v \in Worker : status'[v] = "none" => holding'[v] = 0 /\ completed'[v] = <<>>
    BY <2>1, <2>2 DEF WorkShape
  <2>4. \A v \in Worker : status'[v] = "ok" => holding'[v] = 0 /\ ~ (next' + 1 <= Len(ranges'))
    BY <2>1, <2>2 DEF WorkShape
  <2>5. \A v \in Worker : \A c \in ToSet(completed'[v]) : FailingIn(c)' = {}
    BY <2>1 DEF WorkShape, FailingIn
  <2>6. \A v \in Worker :
          /\ status'[v] = "err" => failed'[v] \in DOMAIN inputs' /\ inputs'[failed'[v]].fate = "err"
          /\ status'[v] = "panicked" => failed'[v] \in DOMAIN inputs' /\ inputs'[failed'[v]].fate = "panic"
    BY <1>2, <1>3, <1>4, <1>8, <2>1 DEF WorkShape
  <2>7. QED
    BY <2>3, <2>4, <2>5, <2>6 DEF WorkShape
<1>10. ChunksPartitioned'
  BY <1>1 DEF ChunksPartitioned, Claimed, Owned, callVars
<1>11. QED
  BY <1>4, <1>5, <1>7, <1>9, <1>10

(* Every step preserves the invariant.                                    *)
LEMMA NextIInv == IInv /\ [Next]_vars => IInv'
<1> SUFFICES ASSUME IInv, [Next]_vars PROVE IInv'
  OBVIOUS
<1>1. CASE UNCHANGED vars
  <2> USE <1>1 DEF IInv, vars, callVars, workVars, scopeVars
  <2>1. TypeOK'
    BY DEF TypeOK, ScopeTypeOK
  <2>2. ScopeShape' /\ CallShape'
    BY DEF ScopeShape, CallShape, NoWork, NoScope
  <2>3. WorkShape'
    BY DEF WorkShape, FailingIn
  <2>4. ChunksPartitioned'
    BY DEF ChunksPartitioned, Claimed, Owned
  <2>5. QED
    BY <2>1, <2>2, <2>3, <2>4
<1>2. ASSUME NEW p \in Paths, NEW docs \in Batches,
             RejectMismatch(p, docs) \/ StartInline(p, docs) \/ StartParallel(p, docs)
      PROVE  IInv'
  BY <1>2, SubmitIInv, StartParallelIInv
<1>3. ASSUME NEW w \in Worker, Work(w) PROVE IInv'
  BY <1>3, ClaimIInv, EncodeChunkIInv, FailChunkIInv DEF Work
<1>4. QED
  BY <1>1, <1>2, <1>3, CallerIInv, MainIInv, ReturnIInv DEF Next

(* The invariant holds in every reachable state.                           *)
LEMMA Inductive == Spec => []IInv
  BY InitIInv, NextIInv, PTL DEF Spec

(* Every variable keeps its type.                                          *)
THEOREM TypeCorrect == Spec => []TypeOK
<1>1. IInv => TypeOK
  BY DEF IInv
<1>2. QED
  BY Inductive, <1>1, PTL

(* No claimed chunk is lost, shared or encoded twice, for any number of    *)
(* workers, any batch and any interleaving of the claim loop.              *)
THEOREM ChunksArePartitioned == Spec => []ChunksPartitioned
<1>1. IInv => ChunksPartitioned
  BY DEF IInv
<1>2. QED
  BY Inductive, <1>1, PTL

(* The retained caches are never touched once the call has returned.       *)
THEOREM WorkersEndWithCall == Spec => []NoWorkerOutlivesCall
<1>1. IInv => NoWorkerOutlivesCall
  BY DEF IInv, CallShape, ScopeShape, NoWorkerOutlivesCall
<1>2. QED
  BY Inductive, <1>1, PTL

(* After a join without an error every chunk is complete.                  *)
LEMMA JoinIsComplete == IInv => SuccessIsComplete
<1>1. ASSUME IInv, verdict = "ok", NEW c \in 1 .. Len(ranges)
      PROVE  (\E w \in 1 .. workerCount : c \in ToSet(completed[w])) /\ FailingIn(c) = {}
  <2> USE <1>1 DEF IInv
  <2>1. /\ workerCount > 0 /\ workerCount \in Nat /\ workerCount <= Workers
        /\ \A w \in 1 .. workerCount : status[w] = "ok"
    BY WorkersAssumption DEF ScopeShape, TypeOK, ScopeTypeOK
  <2>2. \A w \in Worker : w > workerCount => status[w] = "none"
    BY <2>1, WorkersAssumption DEF ScopeShape, TypeOK, ScopeTypeOK, Worker
  <2>3. 1 \in Worker /\ status[1] = "ok"
    BY <2>1, WorkersAssumption DEF Worker
  <2>4. next \in Nat /\ Len(ranges) \in Nat /\ ~ (next + 1 <= Len(ranges))
    BY <2>3 DEF WorkShape, TypeOK
  <2>5. c \in Claimed
    BY <2>4 DEF Claimed
  <2>6. PICK w \in Worker : c \in Owned(w)
    BY <2>5 DEF ChunksPartitioned
  <2>7. ToSet(<<>>) = {}
    BY DEF ToSet
  <2>8. status[w] # "none"
    BY <2>6, <2>7 DEF WorkShape, Owned
  <2>9. w \in 1 .. workerCount
    BY <2>1, <2>2, <2>8, WorkersAssumption DEF Worker
  <2>10. c \in ToSet(completed[w])
    BY <2>1, <2>6, <2>9 DEF WorkShape, Owned
  <2>11. FailingIn(c) = {}
    BY <2>10 DEF WorkShape
  <2>12. QED
    BY <2>9, <2>10, <2>11
<1>2. QED
  BY <1>1 DEF SuccessIsComplete

(* A join without an error has every chunk of the batch, all of them from  *)
(* workers that met no failing document.                                   *)
THEOREM SuccessHasEveryChunk == Spec => []SuccessIsComplete
BY Inductive, JoinIsComplete, PTL

(* What was collected is every chunk, once, and sorting puts chunk c at    *)
(* place c.                                                                *)
LEMMA CollectedInOrder ==
  ASSUME IInv, phase = "parallel", verdict = "ok"
  PROVE  /\ DOMAIN CollectedChunks = 1 .. Len(ranges)
         /\ DOMAIN InOrder(CollectedChunks) = 1 .. Len(ranges)
         /\ \A c \in 1 .. Len(ranges) :
              InOrder(CollectedChunks)[c].value
                = IF path = "surface" THEN EncodeFlatSurfaceRange(inputs, ranges[c])
                                      ELSE EncodeDocuments(inputs, ranges[c])
<1> USE DEF IInv
<1> DEFINE n == Len(ranges)
           parts == [w \in 1 .. workerCount |-> completed[w]]
           indices == FlattenSeq(parts)
           Value(c) == IF path = "surface" THEN EncodeFlatSurfaceRange(inputs, ranges[c])
                                           ELSE EncodeDocuments(inputs, ranges[c])
<1>1. /\ workerCount \in Nat /\ 1 .. workerCount \subseteq Worker /\ n \in Nat /\ next \in Nat
      /\ completed \in [Worker -> Seq(Nat)]
  BY WorkersAssumption DEF TypeOK, ScopeTypeOK, Worker
<1>2. parts \in Seq(Seq(Nat)) /\ Len(parts) = workerCount
      /\ \A w \in 1 .. workerCount : parts[w] = completed[w]
  <2>1. \A w \in 1 .. workerCount : completed[w] \in Seq(Nat)
    BY <1>1
  <2>2. QED
    BY <1>1, <2>1
<1>3. \A w \in 1 .. workerCount : IsInjective(parts[w])
  BY <1>1, <1>2 DEF ChunksPartitioned
<1>4. \A v, w \in 1 .. workerCount : v # w => ToSet(parts[v]) \intersect ToSet(parts[w]) = {}
  BY <1>1, <1>2 DEF ChunksPartitioned, Owned
<1>5. UNION {ToSet(parts[w]) : w \in 1 .. workerCount} = 1 .. n
  <2>1. \A w \in 1 .. workerCount : ToSet(parts[w]) \subseteq 1 .. n
    <3>1. Claimed \subseteq 1 .. n
      BY <1>1 DEF Claimed
    <3>2. QED
      BY <1>1, <1>2, <3>1 DEF ChunksPartitioned, Owned
  <2>2. \A c \in 1 .. n : \E w \in 1 .. workerCount : c \in ToSet(parts[w])
    BY <1>2, JoinIsComplete DEF SuccessIsComplete
  <2>3. QED
    BY <2>1, <2>2
<1> HIDE DEF parts, n
<1>6. indices \in Seq(Nat) /\ IsInjective(indices) /\ ToSet(indices) = 1 .. n
  BY <1>2, <1>3, <1>4, <1>5, FlattenHolds
<1>7. CollectedChunks
        = [k \in DOMAIN indices |-> [key |-> indices[k], value |-> Value(indices[k])]]
  BY DEF CollectedChunks, parts
<1> HIDE DEF indices, Value
<1>8. /\ DOMAIN CollectedChunks = DOMAIN indices
      /\ \A k \in DOMAIN indices : /\ CollectedChunks[k].key = indices[k]
                                   /\ CollectedChunks[k].value = Value(indices[k])
  BY <1>7
<1> DEFINE chunks == CollectedChunks
<1> HIDE DEF chunks
<1>9. Keyed(chunks, indices) /\ n \in Nat
  BY <1>1, <1>8 DEF chunks, Keyed, n
<1>10. /\ DOMAIN chunks = 1 .. n
       /\ \E q \in [1 .. n -> 1 .. n] :
            /\ \A c \in 1 .. n : indices[q[c]] = c
            /\ InOrder(chunks) = [c \in 1 .. n |-> chunks[q[c]]]
  BY <1>6, <1>9, InOrderIs
<1>11. PICK q \in [1 .. n -> 1 .. n] :
         /\ \A c \in 1 .. n : indices[q[c]] = c
         /\ InOrder(chunks) = [c \in 1 .. n |-> chunks[q[c]]]
  BY <1>10
<1>12. \A c \in 1 .. n : InOrder(chunks)[c].value = Value(c)
  BY <1>8, <1>10, <1>11 DEF chunks
<1>13. QED
  BY <1>10, <1>11, <1>12 DEF chunks, n, Value

(* The contract's encodings are those of TrainingBatches.                  *)
LEMMA ContractEncodings ==
  ASSUME NEW docs
  PROVE  /\ Contract!OrderedDocuments(docs) = OrderedDocuments(docs)
         /\ Contract!OrderedEncoding(docs) = OrderedEncoding(docs)
         /\ Contract!Failing(docs, DOMAIN docs) = Failing(docs, DOMAIN docs)
<1>1. Contract!OrderedDocuments(docs) = OrderedDocuments(docs)
  BY DEF Contract!OrderedDocuments, OrderedDocuments, Contract!DocumentIds, DocumentIds
<1>2. Contract!Failing(docs, DOMAIN docs) = Failing(docs, DOMAIN docs)
  BY DEF Contract!Failing, Failing
<1>3. QED
  BY <1>1, <1>2
  DEF Contract!OrderedEncoding, OrderedEncoding, Contract!DocumentIds, DocumentIds,
      Contract!FlattenSeq, FlattenSeq, Contract!MapThenSumSet, MapThenSumSet,
      Contract!MapThenFoldSet, MapThenFoldSet

(* The chunks collected become what the contract promises.                 *)
LEMMA AssembleIs ==
  ASSUME IInv, phase = "parallel", verdict = "ok"
  PROVE  [kind |-> "ok", value |-> Assemble] = Contract!Ok(path, inputs)
<1> DEFINE chunks == CollectedChunks
<1>1. /\ inputs \in Seq(Document) /\ ranges \in Seq(Span) /\ path \in Paths
      /\ IsExactCover(ranges, Len(inputs)) /\ Len(inputs) \in 0 .. Len(inputs)
  BY DEF IInv, TypeOK, CallShape, Span
<1>2. /\ DOMAIN chunks = 1 .. Len(ranges) /\ DOMAIN InOrder(chunks) = 1 .. Len(ranges)
      /\ \A c \in 1 .. Len(ranges) :
           InOrder(chunks)[c].value
             = IF path = "surface" THEN EncodeFlatSurfaceRange(inputs, ranges[c])
                                   ELSE EncodeDocuments(inputs, ranges[c])
  BY CollectedInOrder
<1> HIDE DEF chunks
<1>3. CASE path = "surface"
  <2>1. ConcatenateSurfaceChunks(chunks) = BatchUpto(inputs, Len(inputs))
    BY <1>1, <1>2, <1>3, CoverConcatenatesSurface
  <2>2. SubSeq(inputs, 1, Len(inputs)) = inputs
    BY <1>1
  <2>3. OrderedEncoding(inputs) = BatchUpto(inputs, Len(inputs))
    BY <1>1, <2>2, OrderedEncodingIs
  <2>4. QED
    BY <1>3, <2>1, <2>3, ContractEncodings DEF Assemble, chunks, Contract!Ok
<1>4. CASE path = "training"
  <2>1. ConcatenateTrainingChunks(chunks) = OrderedEncoding(inputs)
    BY <1>1, <1>2, <1>4, CoverConcatenatesTraining
  <2>2. QED
    BY <1>4, <2>1, ContractEncodings DEF Assemble, chunks, Contract!Ok
<1>5. CASE path = "rich"
  <2>1. ConcatenateDocuments(chunks) = OrderedDocuments(inputs)
    BY <1>1, <1>2, <1>5, CoverConcatenatesDocuments
  <2>2. QED
    BY <1>5, <2>1, ContractEncodings DEF Assemble, chunks, Contract!Ok
<1>6. QED
  BY <1>1, <1>3, <1>4, <1>5 DEF Paths

(* A call on the calling thread returns what the contract allows.          *)
LEMMA InlineAllowed ==
  ASSUME IInv, EncodeInline
  PROVE  outcome' \in Contract!Allowed(path, inputs)
<1> DEFINE bad == Failing(inputs, DOMAIN inputs)
           first == FirstFailure(inputs, DOMAIN inputs)
<1>1. inputs \in Seq(Document) /\ inputs # <<>> /\ path \in Paths
  BY DEF IInv, TypeOK, CallShape, EncodeInline
<1>2. Contract!Failing(inputs, DOMAIN inputs) = bad
  BY ContractEncodings
<1>3. CASE bad # {}
  <2>1. outcome' = FailureOutcome(inputs, first)
    BY <1>3 DEF EncodeInline
  <2>2. bad \subseteq Nat
    BY <1>1 DEF Failing
  <2>3. first \in bad
    BY <1>3, <2>2, MinOfNaturals DEF FirstFailure
  <2>4. \A i \in DOMAIN inputs : inputs[i].fate \in Fates
    <3>1. \A i \in DOMAIN inputs : inputs[i] \in Document
      BY <1>1
    <3>2. QED
      BY <3>1 DEF Document
  <2>5. first \in DOMAIN inputs /\ inputs[first].fate \in {"err", "panic"}
    BY <2>3, <2>4 DEF Failing, Fates
  <2> HIDE DEF bad, first
  <2>6. QED
    BY <1>2, <1>3, <2>1, <2>5 DEF Contract!Allowed, Contract!Panics, FailureOutcome
<1>4. CASE bad = {}
  <2>1. /\ EncodeFlatSurfaceRange(inputs, Whole) = OrderedEncoding(inputs)
        /\ EncodeDocuments(inputs, Whole) = OrderedDocuments(inputs)
        /\ ConcatenateTrainingChunks(<<[key |-> 0, value |-> EncodeDocuments(inputs, Whole)]>>)
             = OrderedEncoding(inputs)
    BY <1>1, WholeIs DEF Whole
  <2>2. outcome' = Contract!Ok(path, inputs)
    BY <1>1, <1>4, <2>1, ContractEncodings DEF EncodeInline, Contract!Ok, Paths
  <2>3. QED
    BY <1>2, <1>4, <2>2 DEF Contract!Allowed
<1>5. QED
  BY <1>3, <1>4

(* So does a parallel call, whichever worker failed first and whichever    *)
(* failures were never joined.                                             *)
LEMMA ParallelAllowed ==
  ASSUME IInv, FinishParallel
  PROVE  outcome' \in Contract!Allowed(path, inputs)
<1> USE DEF IInv
<1> DEFINE bad == Failing(inputs, DOMAIN inputs)
<1>1. phase = "parallel" /\ scope = "closed" /\ verdict \in {"ok", "err", "panicked", "unwind"}
  BY DEF FinishParallel, ScopeShape, TypeOK, ScopeTypeOK
<1>2. Contract!Failing(inputs, DOMAIN inputs) = bad
  BY ContractEncodings
<1>3. CASE verdict = "ok"
  <2>1. outcome' = Contract!Ok(path, inputs)
    BY <1>1, <1>3, AssembleIs DEF FinishParallel
  <2>2. bad = {}
    <3>1. /\ inputs \in Seq(Document) /\ ranges \in Seq(Span) /\ Len(inputs) \in Nat
          /\ IsExactCover(ranges, Len(inputs))
      BY <1>1 DEF TypeOK, CallShape, Span
    <3>2. \A c \in 1 .. Len(ranges) : FailingIn(c) = {}
      BY <1>3, JoinIsComplete DEF SuccessIsComplete
    <3>3. \A i \in 1 .. Len(inputs) : \E c \in 1 .. Len(ranges) : i \in DocsOf(ranges[c])
      BY <3>1, CoverShape
    <3>4. DOMAIN inputs = 1 .. Len(inputs)
      BY <3>1
    <3>5. QED
      BY <3>2, <3>3, <3>4 DEF FailingIn, Failing
  <2>3. QED
    BY <1>2, <2>1, <2>2 DEF Contract!Allowed
<1>4. CASE verdict = "err"
  <2>1. joined \in Worker /\ status[joined] = "err" /\ outcome' = [kind |-> "err", doc |-> failed[joined]]
    BY <1>1, <1>4 DEF FinishParallel, ScopeShape
  <2>2. failed[joined] \in DOMAIN inputs /\ inputs[failed[joined]].fate = "err"
    BY <2>1 DEF WorkShape
  <2>3. bad # {}
    BY <2>2 DEF Failing
  <2>4. QED
    BY <1>2, <2>1, <2>2, <2>3 DEF Contract!Allowed
<1>5. CASE verdict \in {"panicked", "unwind"}
  <2>1. outcome' = [kind |-> verdict]
    BY <1>1, <1>5 DEF FinishParallel
  <2>2. PICK w \in Worker : status[w] = "panicked"
    BY <1>5 DEF ScopeShape
  <2>3. failed[w] \in DOMAIN inputs /\ inputs[failed[w]].fate = "panic"
    BY <2>2 DEF WorkShape
  <2>4. bad # {}
    BY <2>3 DEF Failing
  <2>5. QED
    BY <1>2, <1>5, <2>1, <2>3, <2>4 DEF Contract!Allowed, Contract!Panics
<1>6. QED
  BY <1>1, <1>3, <1>4, <1>5

(* Every step of the scheduler is a step of the contract, or none.         *)
LEMMA ContractStep ==
  ASSUME IInv, [Next]_vars
  PROVE  [Contract!Next]_(Contract!vars)
<1> USE DEF IInv
<1>1. CASE UNCHANGED vars
  BY <1>1 DEF vars, callVars, Contract!vars
<1>2. ASSUME NEW p \in Paths, NEW docs \in Batches, RejectMismatch(p, docs)
      PROVE  Contract!Call(p, docs)
  BY <1>2 DEF RejectMismatch, Contract!Call
<1>3. ASSUME NEW p \in Paths, NEW docs \in Batches, StartInline(p, docs) \/ StartParallel(p, docs)
      PROVE  Contract!Call(p, docs)
  BY <1>3 DEF StartInline, StartParallel, Accept, Contract!Call, CallShape, NoOutcome,
     Contract!NoOutcome
<1>4. ASSUME NEW p \in Paths, ReturnEmpty(p)
      PROVE  <<>> \in Batches /\ Contract!Call(p, <<>>)
  <2>1. OrderedDocuments(<<>>) = <<>> /\ OrderedEncoding(<<>>) = EmptyBatch
    <3>1. <<>> \in Seq(Document)
      OBVIOUS
    <3>2. 0 \in 0 .. Len(<<>>) /\ SubSeq(<<>>, 1, 0) = <<>>
      OBVIOUS
    <3>3. OrderedEncoding(<<>>) = EmptyBatch
      BY <3>1, <3>2, OrderedEncodingIs, NoDocuments
    <3>4. QED
      BY <3>3 DEF OrderedDocuments
  <2>2. QED
    BY <1>4, <2>1, ContractEncodings DEF ReturnEmpty, Contract!Call, Contract!Ok
<1>5. ASSUME EncodeInline PROVE Contract!Complete
  BY <1>5, InlineAllowed DEF EncodeInline, Contract!Complete
<1>6. ASSUME FinishParallel PROVE Contract!Complete
  BY <1>6, ParallelAllowed DEF FinishParallel, Contract!Complete
<1>7. ASSUME Return PROVE Contract!Return
  BY <1>7 DEF Return, Contract!Return, NoOutcome, Contract!NoOutcome
<1>8. ASSUME MainStep PROVE UNCHANGED Contract!vars
  BY <1>8 DEF MainStep, callVars, Contract!vars
<1>9. ASSUME NEW w \in Worker, Work(w) PROVE UNCHANGED Contract!vars
  BY <1>9 DEF Work, Claim, EncodeChunk, FailChunk, callVars, Contract!vars
<1>10. QED
  BY <1>1, <1>2, <1>3, <1>4, <1>5, <1>6, <1>7, <1>8, <1>9 DEF Next, Contract!Next

(* The threaded scheduler implements the thread-free contract step by      *)
(* step: whatever the interleaving, a call returns the in-order encoding   *)
(* exactly when every document can be encoded, and otherwise the error of  *)
(* a document that fails, or notice of a panic when a document panics.     *)
THEOREM StepsImplementContract ==
  Spec => Contract!Init /\ [][Contract!Next]_(Contract!vars)
<1>1. Init => Contract!Init
  BY DEF Init, Contract!Init, NoOutcome, Contract!NoOutcome
<1>2. IInv /\ [Next]_vars => [Contract!Next]_(Contract!vars)
  BY ContractStep
<1>3. QED
  BY <1>1, <1>2, Inductive, PTL DEF Spec
=============================================================================
