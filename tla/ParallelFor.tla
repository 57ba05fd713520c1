---------------------------- MODULE ParallelFor ----------------------------
(***************************************************************************)
(* fsim::support::parallel_for (include/fsim/support/parallel_for.hpp):    *)
(* the loop that elaboration, artifact publication and kernel planning run *)
(* on the --jobs threads.  Workers take ascending chunks of the index      *)
(* range from a shared counter; a chunk that throws leaves its exception   *)
(* in the chunk's own place, and the caller rethrows the first of them.    *)
(***************************************************************************)
EXTENDS Integers, FiniteSets

CONSTANTS
  MaxCount,         (* bound: items of a call                              *)
  Jobs,             (* ParallelJobsScope::jobs() on the calling thread     *)
  Grain,            (* the grain argument                                  *)
  ChunksPerWorker   (* 8 in the code                                       *)

ASSUME ConstantsAssumption ==
  /\ MaxCount \in Nat
  /\ Jobs \in Nat \ {0}
  /\ Grain \in Nat
  /\ ChunksPerWorker \in Nat \ {0}

VARIABLES
  count,      (* the argument                                              *)
  failing,    (* the indices on which body throws                          *)
  next,       (* the shared chunk counter                                  *)
  failures,   (* per chunk, the index whose exception it holds, or None    *)
  pc,         (* where each worker is; worker 0 is the caller              *)
  chunk,      (* the chunk each worker is on                               *)
  at,         (* the index each worker calls next                          *)
  calls,      (* history: how often body was called on each index          *)
  outcome     (* how the call ended: None, Fine, or the index rethrown     *)

vars == <<count, failing, next, failures, pc, chunk, at, calls, outcome>>
arguments == <<count, failing>>

None == -1
Fine == -2
SpawnFailed == -3   (* std::system_error from a thread's creation          *)

Larger(m, n) == IF m > n THEN m ELSE n
Smaller(m, n) == IF m < n THEN m ELSE n

(* parallel_workers(count, grain) *)
Workers == Larger(1, Smaller(Jobs, count \div Larger(Grain, 1)))
ChunkSize == Larger(1, count \div (Workers * ChunksPerWorker))
Chunks == (count + ChunkSize - 1) \div ChunkSize
Indices == 0 .. MaxCount - 1
Threads == 0 .. Jobs - 1

(* A call begins: serially, or by starting the threads of workers 1, 2 ... *)
Init ==
  /\ count \in 0 .. MaxCount
  /\ failing \in SUBSET (0 .. count - 1)
  /\ next = 0
  /\ failures = [c \in Indices |-> None]
  /\ pc = [w \in Threads |->
             IF w # 0 THEN "not started"
             ELSE IF Workers <= 1 THEN "serial" ELSE "start"]
  /\ chunk = [w \in Threads |-> 0]
  /\ at = [w \in Threads |-> 0]
  /\ calls = [i \in Indices |-> 0]
  /\ outcome = None

Goto(w, step) == pc' = [pc EXCEPT ![w] = step]
CallBody(i) == calls' = [calls EXCEPT ![i] = @ + 1]
Return(result) == outcome' = result /\ Goto(0, "returned")

(* workers <= 1: a plain loop, left by the first exception.                *)
SerialStep ==
  /\ pc[0] = "serial" /\ at[0] < count
  /\ CallBody(at[0])
  /\ at' = [at EXCEPT ![0] = @ + 1]
  /\ IF at[0] \in failing THEN Return(at[0]) ELSE UNCHANGED <<outcome, pc>>
  /\ UNCHANGED <<arguments, next, failures, chunk>>
SerialEnd ==
  /\ pc[0] = "serial" /\ at[0] = count
  /\ Return(Fine)
  /\ UNCHANGED <<arguments, next, failures, chunk, at, calls>>

(* threads.emplace_back: the threads start in order while earlier ones     *)
(* work; a creation that fails joins the ones there are and propagates.    *)
Start(w) ==
  /\ pc[0] = "start" /\ w \in 1 .. Workers - 1
  /\ pc[w] = "not started" /\ \A v \in 1 .. w - 1 : pc[v] # "not started"
  /\ Goto(w, "take")
  /\ UNCHANGED <<arguments, next, failures, chunk, at, calls, outcome>>
StartFails ==
  /\ pc[0] = "start" /\ \E w \in 1 .. Workers - 1 : pc[w] = "not started"
  /\ outcome' = SpawnFailed
  /\ Goto(0, "join")
  /\ UNCHANGED <<arguments, next, failures, chunk, at, calls>>
Started ==
  /\ pc[0] = "start" /\ \A w \in 1 .. Workers - 1 : pc[w] # "not started"
  /\ Goto(0, "take")
  /\ UNCHANGED <<arguments, next, failures, chunk, at, calls, outcome>>

(* A worker has no chunk left: a thread ends, the caller goes on to join.  *)
WorkEnds(w) == Goto(w, IF w = 0 THEN "join" ELSE "ended")

(* Faulty variant of Take: the counter is read and stored separately.      *)
TakeStale(w) ==
  /\ pc[w] = "take"
  /\ \E c \in {next, Larger(0, next - 1)} :
       /\ chunk' = [chunk EXCEPT ![w] = c]
       /\ at' = [at EXCEPT ![w] = c * ChunkSize]
       /\ IF c < Chunks THEN Goto(w, "call") ELSE WorkEnds(w)
  /\ next' = next + 1
  /\ UNCHANGED <<arguments, failures, calls, outcome>>

(* next.fetch_add(1) and the loop's test.                                  *)
Take(w) ==
  /\ pc[w] = "take"
  /\ chunk' = [chunk EXCEPT ![w] = next]
  /\ at' = [at EXCEPT ![w] = next * ChunkSize]
  /\ IF next < Chunks THEN Goto(w, "call") ELSE WorkEnds(w)
  /\ next' = next + 1
  /\ UNCHANGED <<arguments, failures, calls, outcome>>

ChunkEnd(w) == Smaller(count, (chunk[w] + 1) * ChunkSize)

(* body(worker, index); an exception ends the chunk and is kept for it.    *)
Call(w) ==
  /\ pc[w] = "call" /\ at[w] < ChunkEnd(w)
  /\ CallBody(at[w])
  /\ at' = [at EXCEPT ![w] = @ + 1]
  /\ IF at[w] \in failing
     THEN /\ failures' = [failures EXCEPT ![chunk[w]] = at[w]]
          /\ Goto(w, "take")
     ELSE UNCHANGED <<failures, pc>>
  /\ UNCHANGED <<arguments, next, chunk, outcome>>
EndChunk(w) ==
  /\ pc[w] = "call" /\ at[w] = ChunkEnd(w)
  /\ Goto(w, "take")
  /\ UNCHANGED <<arguments, next, failures, chunk, at, calls, outcome>>

(* Faulty variants of Join: the threads are detached; a thread that never  *)
(* started is waited for.                                                  *)
Detach ==
  /\ pc[0] = "join"
  /\ Goto(0, "rethrow")
  /\ UNCHANGED <<arguments, next, failures, chunk, at, calls, outcome>>
JoinAll ==
  /\ pc[0] = "join"
  /\ \A w \in 1 .. Workers - 1 : pc[w] = "ended"
  /\ Goto(0, "rethrow")
  /\ UNCHANGED <<arguments, next, failures, chunk, at, calls, outcome>>

(* The jthreads go out of scope.                                           *)
Join ==
  /\ pc[0] = "join"
  /\ \A w \in Threads \ {0} : pc[w] \in {"not started", "ended"}
  /\ Goto(0, "rethrow")
  /\ UNCHANGED <<arguments, next, failures, chunk, at, calls, outcome>>

(* Faulty variant of Rethrown: the last failing chunk wins.                *)
RethrownLast ==
  LET failed == {c \in 0 .. Chunks - 1 : failures[c] # None}
  IN IF failed = {} THEN Fine
     ELSE failures[CHOOSE c \in failed : \A d \in failed : d <= c]

(* The first exception found by the scan over failures.                    *)
Rethrown ==
  LET failed == {c \in 0 .. Chunks - 1 : failures[c] # None}
  IN IF failed = {} THEN Fine
     ELSE failures[CHOOSE c \in failed : \A d \in failed : c <= d]

Rethrow ==
  /\ pc[0] = "rethrow"
  /\ Return(IF outcome = SpawnFailed THEN SpawnFailed ELSE Rethrown)
  /\ UNCHANGED <<arguments, next, failures, chunk, at, calls>>

Next ==
  \/ SerialStep \/ SerialEnd
  \/ \E w \in Threads : Start(w)
  \/ StartFails \/ Started
  \/ \E w \in Threads : Take(w) \/ Call(w) \/ EndChunk(w)
  \/ Join \/ Rethrow

Spec == Init /\ [][Next]_vars

(* Every started thread keeps running; the caller too.                     *)
FairSpec ==
  /\ Spec
  /\ WF_vars(SerialStep \/ SerialEnd \/ Started \/ Join \/ Rethrow)
  /\ \A w \in Threads : WF_vars(Start(w))
  /\ \A w \in Threads : WF_vars(Take(w) \/ Call(w) \/ EndChunk(w))

-----------------------------------------------------------------------------
(* The shape of the state.                                                 *)
TypeOK ==
  /\ count \in 0 .. MaxCount
  /\ failing \subseteq 0 .. count - 1
  /\ next \in Nat
  /\ failures \in [Indices -> Indices \cup {None}]
  /\ pc \in [Threads -> {"serial", "not started", "start", "take", "call",
                         "join", "ended", "rethrow", "returned"}]
  /\ chunk \in [Threads -> Nat]
  /\ at \in [Threads -> Nat]
  /\ calls \in [Indices -> Nat]
  /\ outcome \in Indices \cup {None, Fine, SpawnFailed}

(* "If calls throw, the exception of the lowest failing index is rethrown, *)
(* as a serial loop would throw it": whatever the schedule, the call ends  *)
(* as the serial loop does, and it has called body on every index the      *)
(* serial loop would have called it on, once.                              *)
EndsAsSerialLoop ==
  pc[0] = "returned" /\ outcome # SpawnFailed =>
    IF failing = {}
    THEN outcome = Fine /\ \A i \in 0 .. count - 1 : calls[i] = 1
    ELSE /\ outcome \in failing
         /\ \A i \in failing : outcome <= i
         /\ \A i \in 0 .. outcome : calls[i] = 1

(* "Each call must write only state of its own index": that contract is of *)
(* use because no index is given to two workers, not even when a thread    *)
(* cannot be started.                                                      *)
NoIndexTwice == \A i \in Indices : calls[i] <= 1

(* body, failures and the counter live on the caller's stack: no thread    *)
(* touches them once parallel_for has returned or thrown.                  *)
NothingRunsAfterReturn ==
  pc[0] = "returned" =>
    \A w \in Threads \ {0} : pc[w] \in {"not started", "ended"}

(* Every call of parallel_for ends.                                        *)
CallReturns == <>(pc[0] = "returned")

=============================================================================
