----------------------------- MODULE KernelPool -----------------------------
(***************************************************************************)
(* The worker threads of the static kernel: class KernelPool               *)
(* (src/runtime/simir_static_kernel_pool.hpp and the first part of         *)
(* simir_static_kernel_parallel.cpp).                                      *)
(*                                                                         *)
(* Lane 0 is the simulation thread, which owns the pool and runs one batch *)
(* at a time; the other lanes are threads.  Every atomic access that other *)
(* lanes can observe is a step of its own.  The relaxed stores with which  *)
(* a batch is prepared become visible in any order before the release      *)
(* store that publishes it.                                                *)
(***************************************************************************)
EXTENDS Integers, FiniteSets

CONSTANTS
  LaneCount,      (* lanes_: the threads, the caller included              *)
  EpochModulus,   (* batch numbers (2^16 in the code)                      *)
  ClaimsPerLane,  (* claims a lane should make in a batch (4 in the code)  *)
  Counts,         (* the item counts run() is called with                  *)
  Modes,          (* the calls owners make: "run", "run_lanes"             *)
  MixesModes,     (* whether one owner makes both                          *)
  MaxBatches      (* bound: batches in the life of the pool                *)

ASSUME ConstantsAssumption ==
  /\ LaneCount \in Nat \ {0}
  /\ EpochModulus \in Nat \ {0, 1}
  /\ ClaimsPerLane \in Nat \ {0}
  /\ Counts \subseteq Nat
  /\ Modes \subseteq {"run", "run_lanes"}
  /\ MixesModes \in BOOLEAN
  /\ MaxBatches \in Nat

VARIABLES
  state,      (* state_: batch number, item count and next item, one word  *)
  completed,  (* completed_: items of a run() batch that have finished     *)
  done,       (* done_[lane].epoch: batch a pinned lane finished last      *)
  chunk,      (* chunk_: items in one claim                                *)
  pinned,     (* pinned_: lane L takes item L only                         *)
  body,       (* body_: the call whose body it points to, 0 before any     *)
  stop,       (* stop_ *)
  pc,         (* where each lane is                                        *)
  seen,       (* work()'s seen and take()'s epoch                          *)
  word,       (* take()'s and work()'s word                                *)
  claim,      (* take()'s item, end, position `at` and body pointer        *)
  batch,      (* the running call's mode, count and stores left to make    *)
  calls,      (* history: calls made                                       *)
  ran         (* history: how often the last call's body ran on each item  *)

shared == <<state, completed, done, chunk, pinned, body, stop>>
local == <<seen, word, claim>>
owner == <<batch, calls>>
vars == <<shared, pc, local, owner, ran>>

Lanes == 0 .. LaneCount - 1
Workers == 1 .. LaneCount - 1
Epochs == 0 .. EpochModulus - 1
Items == Lanes \cup UNION {0 .. n - 1 : n \in Counts}
NoEpoch == -1       (* ~0, the initial value of LaneDone::epoch            *)
Stores == {"pinned", "body", "chunk", "completed"}

Larger(m, n) == IF m > n THEN m ELSE n
Smaller(m, n) == IF m < n THEN m ELSE n
NextEpoch == (state.epoch + 1) % EpochModulus

(* The caller constructs the pool; every worker enters work().             *)
Init ==
  /\ state = [epoch |-> 0, count |-> 0, item |-> 0]
  /\ completed = 0
  /\ done = [l \in Lanes |-> NoEpoch]
  /\ chunk = 1 /\ pinned = FALSE /\ body = 0 /\ stop = FALSE
  /\ pc = [l \in Lanes |-> IF l = 0 THEN "idle" ELSE "load"]
  /\ seen = [l \in Lanes |-> 0]
  /\ word = [l \in Lanes |-> state]
  /\ claim = [l \in Lanes |-> [item |-> 0, end |-> 0, at |-> 0, body |-> 0]]
  /\ batch = [mode |-> "run", count |-> 0, stores |-> {}]
  /\ calls = 0
  /\ ran = [i \in Items |-> 0]

Goto(l, step) == pc' = [pc EXCEPT ![l] = step]
(* take() returns: to run() or run_lanes() on lane 0, to work() elsewhere. *)
TakeReturns(l) == Goto(l, IF l = 0 THEN "await" ELSE "load")

-----------------------------------------------------------------------------
(* The owner's calls.                                                      *)

(* run(count, body) and run_lanes(body) up to their first store.           *)
Call(mode, count, stores) ==
  /\ pc[0] = "idle" /\ calls < MaxBatches
  /\ mode \in Modes /\ (calls = 0 \/ MixesModes \/ mode = batch.mode)
  /\ batch' = [mode |-> mode, count |-> count, stores |-> stores]
  /\ calls' = calls + 1
  /\ ran' = [i \in Items |-> 0]
  /\ Goto(0, "prepare")
  /\ UNCHANGED <<shared, local>>

Run(count) == Call("run", count, Stores)
RunLanes == Call("run_lanes", LaneCount, Stores \ {"chunk"})

(* One of the relaxed stores that precede the batch word.                  *)
Store(s) ==
  /\ pc[0] = "prepare" /\ s \in batch.stores
  /\ batch' = [batch EXCEPT !.stores = @ \ {s}]
  /\ pinned' = IF s = "pinned" THEN batch.mode = "run_lanes" ELSE pinned
  /\ body' = IF s = "body" THEN calls ELSE body
  /\ chunk' = IF s = "chunk"
              THEN Larger(1, batch.count \div (LaneCount * ClaimsPerLane))
              ELSE chunk
  /\ completed' = IF s = "completed" THEN 0 ELSE completed
  /\ UNCHANGED <<state, done, stop, pc, local, calls, ran>>

(* The release store of the batch word.                                    *)
Publish ==
  /\ pc[0] = "prepare" /\ batch.stores = {}
  /\ state' = [epoch |-> NextEpoch, count |-> batch.count, item |-> 0]
  /\ word' = [word EXCEPT ![0] = state']
  /\ seen' = [seen EXCEPT ![0] = state'.epoch]
  /\ Goto(0, "notify")
  /\ UNCHANGED <<completed, done, chunk, pinned, body, stop, claim, owner, ran>>

(* state_.notify_all(), of a batch or of the destructor.                   *)
Notify ==
  /\ pc[0] \in {"notify", "wake"}
  /\ pc' = [l \in Lanes |->
              IF l = 0 THEN (IF pc[0] = "notify" THEN "take" ELSE "join")
              ELSE IF pc[l] = "asleep" THEN "woken" ELSE pc[l]]
  /\ UNCHANGED <<shared, local, owner, ran>>

(* Faulty variant of Finished: some item, or some lane, finished.          *)
FinishedSome ==
  IF batch.mode = "run" THEN completed # 0
  ELSE \E l \in Workers : done[l] = state.epoch

(* What the caller spins on: the counter, or the number every lane stored. *)
Finished ==
  IF batch.mode = "run" THEN completed = batch.count
  ELSE \A l \in Workers : done[l] = state.epoch

(* run() and run_lanes() return.                                           *)
Await ==
  /\ pc[0] = "await" /\ Finished
  /\ Goto(0, "idle")
  /\ UNCHANGED <<shared, local, owner, ran>>

(* ~KernelPool, up to the store of stop_.                                  *)
Destroy ==
  /\ pc[0] = "idle"
  /\ stop' = TRUE
  /\ Goto(0, "stopping")
  /\ UNCHANGED <<state, completed, done, chunk, pinned, body, local, owner, ran>>

(* Faulty variant of PublishStop: the batch number stays.                  *)
PublishStopSameEpoch ==
  /\ pc[0] = "stopping"
  /\ state' = [state EXCEPT !.count = 0, !.item = 0]
  /\ Goto(0, "wake")
  /\ UNCHANGED <<completed, done, chunk, pinned, body, stop, local, owner, ran>>

(* The destructor's batch word and its joins.                              *)
PublishStop ==
  /\ pc[0] = "stopping"
  /\ state' = [epoch |-> NextEpoch, count |-> 0, item |-> 0]
  /\ Goto(0, "wake")
  /\ UNCHANGED <<completed, done, chunk, pinned, body, stop, local, owner, ran>>
Join ==
  /\ pc[0] = "join" /\ \A l \in Workers : pc[l] = "exited"
  /\ Goto(0, "destroyed")
  /\ UNCHANGED <<shared, local, owner, ran>>

-----------------------------------------------------------------------------
(* work(lane): wait for a batch number other than the last one seen.       *)

(* The word is loaded and names a new batch.                               *)
SeeBatch(l) ==
  /\ pc[l] = "load" /\ state.epoch # seen[l]
  /\ word' = [word EXCEPT ![l] = state]
  /\ seen' = [seen EXCEPT ![l] = state.epoch]
  /\ Goto(l, "check stop")
  /\ UNCHANGED <<shared, claim, owner, ran>>

(* The word is loaded, names the batch last seen, and the spins are used   *)
(* up: wait(word) follows.  A spin only loads again.                       *)
SeeNothing(l) ==
  /\ pc[l] = "load" /\ state.epoch = seen[l]
  /\ word' = [word EXCEPT ![l] = state]
  /\ Goto(l, "wait")
  /\ UNCHANGED <<shared, seen, claim, owner, ran>>

(* std::atomic::wait compares the whole word and blocks, or returns.       *)
Wait(l) ==
  /\ pc[l] \in {"wait", "woken"}
  /\ Goto(l, IF state = word[l] THEN "asleep" ELSE "load")
  /\ UNCHANGED <<shared, local, owner, ran>>

CheckStop(l) ==
  /\ pc[l] = "check stop"
  /\ Goto(l, IF stop THEN "exited" ELSE "take")
  /\ UNCHANGED <<shared, local, owner, ran>>

-----------------------------------------------------------------------------
(* take(lane, word)                                                        *)

(* The load of pinned_.                                                    *)
TakeBegin(l) ==
  /\ pc[l] = "take"
  /\ Goto(l, IF pinned THEN "check batch" ELSE "items")
  /\ UNCHANGED <<shared, local, owner, ran>>

(* A pinned lane leaves a batch that is not the one it saw.                *)
CheckBatch(l) ==
  /\ pc[l] = "check batch"
  /\ IF state.epoch # seen[l] THEN TakeReturns(l) ELSE Goto(l, "pinned body")
  /\ UNCHANGED <<shared, local, owner, ran>>

(* History: a body ran on an item.                                         *)
Executed(b, i) == ran' = [ran EXCEPT ![i] = IF b = calls THEN @ + 1 ELSE @]

(* The call (body_)(lane, lane).                                           *)
RunPinned(l) ==
  /\ pc[l] = "pinned body"
  /\ claim' = [claim EXCEPT ![l].body = body]
  /\ Executed(body, l)
  /\ Goto(l, "pinned end")
  /\ UNCHANGED <<shared, seen, word, owner>>
StoreDone(l) ==
  /\ pc[l] = "pinned end"
  /\ done' = [done EXCEPT ![l] = seen[l]]
  /\ TakeReturns(l)
  /\ UNCHANGED <<state, completed, chunk, pinned, body, stop, local, owner, ran>>

(* Faulty variant of NextClaim: only a newer batch ends the loop.          *)
NextClaimUntilNewer(l) ==
  /\ pc[l] = "items"
  /\ IF word[l].epoch # seen[l]
     THEN TakeReturns(l) /\ UNCHANGED claim
     ELSE /\ claim' = [claim EXCEPT
                ![l].item = word[l].item, ![l].at = word[l].item,
                ![l].end = Smaller(word[l].count, word[l].item + chunk)]
          /\ Goto(l, "claim")
  /\ UNCHANGED <<shared, seen, word, owner, ran>>

(* The loop leaves a used-up or newer batch, or loads chunk_.              *)
NextClaim(l) ==
  /\ pc[l] = "items"
  /\ IF word[l].epoch # seen[l] \/ word[l].item >= word[l].count
     THEN TakeReturns(l) /\ UNCHANGED claim
     ELSE /\ claim' = [claim EXCEPT
                ![l].item = word[l].item, ![l].at = word[l].item,
                ![l].end = Smaller(word[l].count, word[l].item + chunk)]
          /\ Goto(l, "claim")
  /\ UNCHANGED <<shared, seen, word, owner, ran>>

(* compare_exchange_weak succeeds; or fails, also without a reason.        *)
Claim(l) ==
  /\ pc[l] = "claim" /\ state = word[l]
  /\ state' = [word[l] EXCEPT !.item = claim[l].end]
  /\ Goto(l, "load body")
  /\ UNCHANGED <<completed, done, chunk, pinned, body, stop, local, owner, ran>>
ClaimFails(l) ==
  /\ pc[l] = "claim"
  /\ word' = [word EXCEPT ![l] = state]
  /\ Goto(l, "items")
  /\ UNCHANGED <<shared, seen, claim, owner, ran>>

LoadBody(l) ==
  /\ pc[l] = "load body"
  /\ claim' = [claim EXCEPT ![l].body = body]
  /\ Goto(l, "body")
  /\ UNCHANGED <<shared, seen, word, owner, ran>>

(* The call (body)(lane, at) for the next item of the claim.               *)
RunItem(l) ==
  /\ pc[l] = "body" /\ claim[l].at < claim[l].end
  /\ Executed(claim[l].body, claim[l].at)
  /\ claim' = [claim EXCEPT ![l].at = @ + 1]
  /\ UNCHANGED <<shared, pc, seen, word, owner>>

Complete(l) ==
  /\ pc[l] = "body" /\ claim[l].at = claim[l].end
  /\ completed' = completed + (claim[l].end - claim[l].item)
  /\ Goto(l, "reload")
  /\ UNCHANGED <<state, done, chunk, pinned, body, stop, local, owner, ran>>
Reload(l) ==
  /\ pc[l] = "reload"
  /\ word' = [word EXCEPT ![l] = state]
  /\ Goto(l, "items")
  /\ UNCHANGED <<shared, seen, claim, owner, ran>>

-----------------------------------------------------------------------------
OwnerStep ==
  \/ \E s \in Stores : Store(s)
  \/ Publish \/ Notify \/ Await \/ PublishStop \/ Join
LaneStep(l) ==
  \/ TakeBegin(l) \/ CheckBatch(l) \/ RunPinned(l) \/ StoreDone(l)
  \/ NextClaim(l) \/ Claim(l) \/ ClaimFails(l)
  \/ LoadBody(l) \/ RunItem(l) \/ Complete(l) \/ Reload(l)
WorkerStep(l) == SeeBatch(l) \/ SeeNothing(l) \/ Wait(l) \/ CheckStop(l)

Next ==
  \/ \E n \in Counts : Run(n)
  \/ RunLanes
  \/ Destroy
  \/ OwnerStep
  \/ \E l \in Lanes : LaneStep(l)
  \/ \E l \in Workers : WorkerStep(l)

Spec == Init /\ [][Next]_vars

(* Every thread keeps running; a compare-and-swap that could succeed again *)
(* and again does not fail for ever.  The owner need not call.             *)
Fairness ==
  /\ WF_vars(OwnerStep)
  /\ \A l \in Lanes : WF_vars(LaneStep(l)) /\ SF_vars(Claim(l))
  /\ \A l \in Workers : WF_vars(WorkerStep(l))
FairSpec == Spec /\ Fairness

-----------------------------------------------------------------------------
(* "Runs body(lane, item) once for each item in [0, count) ... and returns *)
(* when every item has finished", and the same of run_lanes: no item runs  *)
(* twice, whatever late lanes do, and none is missing once the call is     *)
(* back.                                                                   *)
RunsOnceEach ==
  /\ \A i \in Items : ran[i] <= 1
  /\ pc[0] = "idle" => \A i \in 0 .. batch.count - 1 : ran[i] = 1

(* Every call returns: no worker sleeps through a batch that needs it, and *)
(* every claimed item is counted.                                          *)
EveryCallReturns == pc[0] = "prepare" ~> pc[0] = "idle"

(* The destructor returns: every worker, asleep or late, sees stop_, but   *)
(* for one that missed so many batches that the destructor's number is the *)
(* number it saw last (65535 in a row in the code).                        *)
PoolStops ==
  pc[0] = "stopping" /\ (\A l \in Workers : seen[l] # NextEpoch)
    ~> pc[0] = "destroyed"

=============================================================================
