----------------------- MODULE PythonSurfaceTokenizer -----------------------
(***************************************************************************)
(* The Python SurfaceTokenizer shared by several Python threads: a frozen  *)
(* class whose retained runtimes live behind two mutexes.  encode_ids and  *)
(* encode_ids_batch release the interpreter lock before they take a mutex; *)
(* clear_runtime_caches and runtime_cache_stats take both mutexes, one     *)
(* after the other, while they hold it.  A panic under a mutex poisons it. *)
(***************************************************************************)
EXTENDS Naturals, FiniteSets

CONSTANTS
  Threads,                    \* Python threads
  ThreadCounts,               \* values of the `threads` argument
  MaxCalls                    \* bound: calls each thread makes

NoThread == "none"

ASSUME PythonConstants ==
  /\ NoThread \notin Threads
  /\ ThreadCounts \subseteq Nat /\ 1 \in ThreadCounts
  /\ MaxCalls \in Nat

Locks == {"single", "sharded"}          \* runtimes and sharded_runtimes

Encodes == {"encode_ids", "encode_ids_batch"}

Operations == Encodes \union {"clear", "stats"}

Outcomes == {"ok", "err", "panic"}

VARIABLES
  gil,                        \* holder of the interpreter lock
  holder,                     \* holder of each mutex
  poisoned,                   \* the mutexes a panic has poisoned
  created,                    \* <<mutex, threads>> of the runtimes in the maps
  warm,                       \* those whose caches hold something
  pc,                         \* where each thread is
  op,                         \* what it called,
  threads,                    \* with which thread count,
  target,                     \* the mutex it takes next or holds
  result,                     \* and what the call returns
  calls,                      \* calls made so far
  tainted,                    \* history: mutexes under which an encode panicked
  old                         \* history: what was warm when a clear was called

sharedVars == <<holder, poisoned, created, warm, tainted>>
threadVars == <<op, threads, calls>>
tokenizerVars == <<gil, sharedVars, threadVars, pc, target, result, old>>

TokenizerInit ==
  /\ gil = NoThread
  /\ holder = [lock \in Locks |-> NoThread]
  /\ poisoned = {}
  /\ created = {}
  /\ warm = {}
  /\ tainted = {}
  /\ pc = [t \in Threads |-> "idle"]
  /\ op = [t \in Threads |-> "stats"]
  /\ threads = [t \in Threads |-> 1]
  /\ target = [t \in Threads |-> "single"]
  /\ result = [t \in Threads |-> "ok"]
  /\ calls = [t \in Threads |-> 0]
  /\ old = [t \in Threads |-> {}]

Goto(t, where) == pc' = [pc EXCEPT ![t] = where]

Leave(t, outcome, where) == Goto(t, where) /\ result' = [result EXCEPT ![t] = outcome]

FirstLock(operation) ==
  IF operation \in {"encode_ids", "clear"} THEN "single" ELSE "sharded"

Call(t, operation, count) ==
  /\ pc[t] = "idle"
  /\ gil = NoThread
  /\ calls[t] < MaxCalls
  /\ operation = "encode_ids" => count = 1
  /\ gil' = t
  /\ op' = [op EXCEPT ![t] = operation]
  /\ threads' = [threads EXCEPT ![t] = count]
  /\ target' = [target EXCEPT ![t] = FirstLock(operation)]
  /\ calls' = [calls EXCEPT ![t] = @ + 1]
  /\ old' = [old EXCEPT ![t] = IF operation = "clear" THEN warm ELSE {}]
  /\ Goto(t, IF operation \in Encodes THEN "called" ELSE "locking")
  /\ UNCHANGED <<sharedVars, result>>

(* Before the detach: zero threads, or a batch with a document that is not *)
(* bytes (extract_byte_documents).                                         *)
RejectArguments(t) ==
  /\ pc[t] = "called"
  /\ threads[t] = 0 \/ op[t] = "encode_ids_batch"
  /\ Leave(t, "err", "returning")
  /\ UNCHANGED <<gil, sharedVars, threadVars, target, old>>

(* py.detach: the encoding runs without the interpreter lock.              *)
Detach(t) ==
  /\ pc[t] = "called"
  /\ threads[t] # 0
  /\ gil' = NoThread
  /\ Goto(t, "locking")
  /\ UNCHANGED <<sharedVars, threadVars, target, result, old>>

(* Mutants of Acquire: the mutex may be taken already; a poisoned mutex is *)
(* taken all the same.                                                     *)
AcquireHeld(t) ==
  /\ pc[t] = "locking"
  /\ target[t] \notin poisoned
  /\ holder' = [holder EXCEPT ![target[t]] = t]
  /\ Goto(t, "inside")
  /\ UNCHANGED <<gil, poisoned, created, warm, tainted, threadVars, target, result, old>>

AcquirePoisoned(t) ==
  /\ pc[t] = "locking"
  /\ holder[target[t]] = NoThread
  /\ holder' = [holder EXCEPT ![target[t]] = t]
  /\ Goto(t, "inside")
  /\ UNCHANGED <<gil, poisoned, created, warm, tainted, threadVars, target, result, old>>

Acquire(t) ==
  /\ pc[t] = "locking"
  /\ holder[target[t]] = NoThread
  /\ target[t] \notin poisoned
  /\ holder' = [holder EXCEPT ![target[t]] = t]
  /\ Goto(t, "inside")
  /\ UNCHANGED <<gil, poisoned, created, warm, tainted, threadVars, target, result, old>>

(* lock() on a poisoned mutex: the guard inside the error is dropped.      *)
FindPoisoned(t) ==
  /\ pc[t] = "locking"
  /\ holder[target[t]] = NoThread
  /\ target[t] \in poisoned
  /\ Leave(t, "err", IF op[t] \in Encodes THEN "reattaching" ELSE "returning")
  /\ UNCHANGED <<gil, sharedVars, threadVars, target, old>>

Release(t) == holder' = [holder EXCEPT ![target[t]] = NoThread]

(* Mutant of Encode: the guard lives until the closure has reattached.     *)
EncodeKeepingGuard(t, outcome) ==
  /\ pc[t] = "inside"
  /\ op[t] \in Encodes
  /\ created' = created \union {<<target[t], threads[t]>>}
  /\ warm' = warm \union {<<target[t], threads[t]>>}
  /\ Leave(t, outcome, "reattaching")
  /\ UNCHANGED <<gil, holder, poisoned, tainted, threadVars, target, old>>

(* Creates the runtime if its entry is vacant (which fails for zero        *)
(* threads only) and encodes with it; an error leaves by `?`, a panic by   *)
(* unwinding, and both may have filled caches.  Every way out drops the    *)
(* guard before the closure returns.                                       *)
Encode(t, outcome) ==
  /\ pc[t] = "inside"
  /\ op[t] \in Encodes
  /\ Release(t)
  /\ created' = created \union {<<target[t], threads[t]>>}
  /\ warm' = warm \union {<<target[t], threads[t]>>}
  /\ poisoned' = poisoned \union {lock \in {target[t]} : outcome = "panic"}
  /\ tainted' = tainted \union {lock \in {target[t]} : outcome = "panic"}
  /\ Leave(t, outcome, "reattaching")
  /\ UNCHANGED <<gil, threadVars, target, old>>

Reattach(t) ==
  /\ pc[t] = "reattaching"
  /\ gil = NoThread
  /\ gil' = t
  /\ Goto(t, "returning")
  /\ UNCHANGED <<sharedVars, threadVars, target, result, old>>

Of(lock) == {runtime \in created : runtime[1] = lock}

(* Mutant of ClearMap: only the first map is cleared.                      *)
ClearFirstMap(t) ==
  /\ pc[t] = "inside"
  /\ op[t] = "clear"
  /\ Release(t)
  /\ warm' = warm \ Of(target[t])
  /\ old' = [u \in Threads |-> old[u] \ Of(target[t])]
  /\ Leave(t, "ok", "returning")
  /\ UNCHANGED <<gil, poisoned, created, tainted, threadVars, target>>

ClearMap(t) ==
  /\ pc[t] = "inside"
  /\ op[t] = "clear"
  /\ Release(t)
  /\ warm' = warm \ Of(target[t])
  /\ old' = [u \in Threads |-> old[u] \ Of(target[t])]
  /\ IF target[t] = "single"
     THEN /\ target' = [target EXCEPT ![t] = "sharded"]
          /\ Goto(t, "locking")
          /\ UNCHANGED result
     ELSE Leave(t, "ok", "returning") /\ UNCHANGED target
  /\ UNCHANGED <<gil, poisoned, created, tainted, threadVars>>

ReadStats(t) ==
  /\ pc[t] = "inside"
  /\ op[t] = "stats"
  /\ Release(t)
  /\ IF target[t] = "sharded" /\ <<"sharded", threads[t]>> \notin created
     THEN /\ target' = [target EXCEPT ![t] = "single"]
          /\ Goto(t, "locking")
          /\ UNCHANGED result
     ELSE Leave(t, "ok", "returning") /\ UNCHANGED target
  /\ UNCHANGED <<gil, poisoned, created, warm, tainted, threadVars, old>>

Return(t) ==
  /\ pc[t] = "returning"
  /\ gil' = NoThread
  /\ Goto(t, "idle")
  /\ old' = [old EXCEPT ![t] = {}]
  /\ UNCHANGED <<sharedVars, threadVars, target, result>>

Step(t) ==
  \/ RejectArguments(t)
  \/ Detach(t)
  \/ Acquire(t)
  \/ FindPoisoned(t)
  \/ \E outcome \in Outcomes : Encode(t, outcome)
  \/ Reattach(t)
  \/ ClearMap(t)
  \/ ReadStats(t)
  \/ Return(t)

TokenizerNext ==
  \E t \in Threads :
    \/ \E operation \in Operations, count \in ThreadCounts : Call(t, operation, count)
    \/ Step(t)

(* Every thread that can run is run.  Neither lock is fair, so that a      *)
(* thread is sure of its turn only because the others make finitely many   *)
(* calls.                                                                  *)
TokenizerSpec ==
  /\ TokenizerInit
  /\ [][TokenizerNext]_tokenizerVars
  /\ \A t \in Threads : WF_tokenizerVars(Step(t))
-----------------------------------------------------------------------------
TypeOK ==
  /\ gil \in Threads \union {NoThread}
  /\ holder \in [Locks -> Threads \union {NoThread}]
  /\ poisoned \subseteq Locks
  /\ tainted \subseteq Locks
  /\ created \subseteq Locks \X ThreadCounts
  /\ warm \subseteq created
  /\ pc \in [Threads -> {"idle", "called", "locking", "inside", "reattaching", "returning"}]
  /\ op \in [Threads -> Operations]
  /\ threads \in [Threads -> ThreadCounts]
  /\ target \in [Threads -> Locks]
  /\ result \in [Threads -> Outcomes]
  /\ calls \in [Threads -> 0 .. MaxCalls]
  /\ old \in [Threads -> SUBSET (Locks \X ThreadCounts)]

(* A retained runtime is used by one thread at a time, and exactly by the  *)
(* holder of its mutex (the &mut borrow the guard hands out).              *)
RuntimesAreExclusive ==
  \A t \in Threads : pc[t] = "inside" <=> \E lock \in Locks : holder[lock] = t /\ target[t] = lock

(* Nobody who holds a mutex waits for anything: not for the interpreter    *)
(* lock a waiter may hold, not for the other mutex.  That is why waiting   *)
(* for a mutex with the interpreter lock held cannot deadlock.             *)
HoldersNeverWait ==
  \A lock \in Locks :
    holder[lock] # NoThread =>
      /\ pc[holder[lock]] = "inside"
      /\ \A other \in Locks \ {lock} : holder[other] # holder[lock]
      /\ op[holder[lock]] \in Encodes => gil # holder[lock]

(* No thread works on the caches a panic may have left half updated.       *)
TaintedRuntimesStayUnused ==
  \A t \in Threads : pc[t] = "inside" => target[t] \notin tainted

(* A clear that reports success has dropped everything that was cached     *)
(* when it was called, although it empties the maps one after the other    *)
(* and encodings go on in between.                                         *)
ClearIsComplete ==
  \A t \in Threads :
    pc[t] = "returning" /\ op[t] = "clear" /\ result[t] = "ok" => old[t] = {}

(* Every call returns, whatever the others do and however they end.        *)
CallsReturn == \A t \in Threads : (pc[t] # "idle") ~> (pc[t] = "idle")
=============================================================================
