---------------------------- MODULE ScopedThreads ---------------------------
(***************************************************************************)
(* The std::thread::scope idiom every parallel entry point of the          *)
(* tokenizer uses: spawn the workers one after another, join the handles   *)
(* in spawn order into a Result that stops at the first failure, and leave *)
(* the scope only when every worker has terminated.  A worker that         *)
(* panicked and was never joined makes the scope itself panic.             *)
(***************************************************************************)
LOCAL INSTANCE Naturals

CONSTANT Workers              \* most workers one scope may have

ASSUME WorkersAssumption == Workers \in Nat \ {0}

VARIABLES
  workerCount,                \* workers of the current scope
  status,                     \* what each worker thread is doing
  spawned,                    \* workers spawned so far
  joined,                     \* handles joined so far, in spawn order
  scope,                      \* the main thread's position in the scope
  verdict                     \* what the join of the handles produced

scopeVars == <<workerCount, status, spawned, joined, scope, verdict>>

Worker == 1 .. Workers

Terminated == {"ok", "err", "panicked"}

ScopeTypeOK ==
  /\ workerCount \in 0 .. Workers
  /\ status \in [Worker -> {"none", "running"} \union Terminated]
  /\ spawned \in 0 .. workerCount
  /\ joined \in 0 .. spawned
  /\ scope \in {"none", "spawning", "joining", "draining", "closed"}
  /\ verdict \in {"pending", "ok", "err", "panicked", "unwind"}

NoScope ==
  /\ workerCount = 0
  /\ status = [w \in Worker |-> "none"]
  /\ spawned = 0
  /\ joined = 0
  /\ scope = "none"
  /\ verdict = "pending"

SetScope(workers, position) ==
  /\ workerCount' = workers
  /\ status' = [w \in Worker |-> "none"]
  /\ spawned' = 0
  /\ joined' = 0
  /\ scope' = position
  /\ verdict' = "pending"

OpenScope(workers) == SetScope(workers, "spawning")

ForgetScope == SetScope(0, "none")

Spawn ==
  /\ scope = "spawning"
  /\ spawned' = spawned + 1
  /\ status' = [status EXCEPT ![spawned + 1] = "running"]
  /\ scope' = IF spawned + 1 = workerCount THEN "joining" ELSE "spawning"
  /\ UNCHANGED <<workerCount, joined, verdict>>

(* Mutant of Join: waits for success instead of termination.               *)
JoinSuccess ==
  /\ scope = "joining"
  /\ status[joined + 1] = "ok"
  /\ joined' = joined + 1
  /\ IF joined + 1 = workerCount
     THEN scope' = "draining" /\ verdict' = "ok"
     ELSE UNCHANGED <<scope, verdict>>
  /\ UNCHANGED <<workerCount, status, spawned>>

(* join() blocks until the worker has terminated; collect() into a Result  *)
(* drops the remaining handles at the first error.                         *)
Join ==
  /\ scope = "joining"
  /\ status[joined + 1] \in Terminated
  /\ joined' = joined + 1
  /\ IF status[joined + 1] = "ok"
     THEN IF joined + 1 = workerCount
          THEN scope' = "draining" /\ verdict' = "ok"
          ELSE UNCHANGED <<scope, verdict>>
     ELSE scope' = "draining" /\ verdict' = status[joined + 1]
  /\ UNCHANGED <<workerCount, status, spawned>>

CloseScope ==
  /\ scope = "draining"
  /\ \A w \in 1 .. spawned : status[w] \in Terminated
  /\ scope' = "closed"
  /\ verdict' = IF \E w \in (joined + 1) .. workerCount : status[w] = "panicked"
                THEN "unwind" ELSE verdict
  /\ UNCHANGED <<workerCount, status, spawned, joined>>

Finish(w, how) ==
  /\ status' = [status EXCEPT ![w] = how]
  /\ UNCHANGED <<workerCount, spawned, joined, scope, verdict>>

ScopeStep == Spawn \/ Join \/ CloseScope
=============================================================================
