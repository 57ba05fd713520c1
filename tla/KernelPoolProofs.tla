-------------------------- MODULE KernelPoolProofs --------------------------
(***************************************************************************)
(* Proofs about KernelPool: every item of a batch runs exactly once, for   *)
(* any number of lanes and items and for any batch number width.           *)
(*                                                                         *)
(* The two kinds of batch have an invariant each.  A run() batch is a      *)
(* partition of the items handed out: those some lane still holds, and the *)
(* settled ones, which completed_ counts.  A run_lanes() batch is a        *)
(* rendezvous: no worker is ever more than one batch behind, so that       *)
(* "another number" means "a newer batch" although numbers wrap around.    *)
(***************************************************************************)
EXTENDS KernelPool, FiniteSetTheorems, TLAPS

(* The values of the packed word, and the places a lane can be in.         *)
Word == [epoch : Epochs, count : Nat, item : Nat]
Points == {"idle", "prepare", "notify", "await", "stopping", "wake", "join", "destroyed",
           "load", "wait", "asleep", "woken", "check stop", "exited",
           "take", "check batch", "pinned body", "pinned end",
           "items", "claim", "load body", "body", "reload"}
(* The type of every variable.                                             *)
TypeOK ==
  /\ state \in Word
  /\ completed \in Nat
  /\ done \in [Lanes -> Epochs \cup {NoEpoch}]
  /\ chunk \in Nat \ {0}
  /\ pinned \in BOOLEAN
  /\ body \in Nat
  /\ stop \in BOOLEAN
  /\ pc \in [Lanes -> Points]
  /\ seen \in [Lanes -> Epochs]
  /\ word \in [Lanes -> Word]
  /\ claim \in [Lanes -> [item : Nat, end : Nat, at : Nat, body : Nat]]
  /\ batch \in [mode : {"run", "run_lanes"}, count : Counts \cup {0, LaneCount},
                stores : SUBSET Stores]
  /\ calls \in Nat
  /\ ran \in [Items -> Nat]

(* The batch word of the running call is out and the call has not returned. *)
Published == pc[0] \in {"notify", "await", "take", "check batch", "pinned body", "pinned end",
                        "items", "claim", "load body", "body", "reload"}
(* Lane l holds the items of a claim that completed_ does not count yet.   *)
InFlight(l) == pc[l] \in {"load body", "body"}
Held(l) == claim[l].item .. claim[l].end - 1
(* The items handed out that no lane holds any more.                       *)
Settled == {i \in 0 .. state.item - 1 : \A l \in Lanes : InFlight(l) => i \notin Held(l)}

(* What take() knows of its claim: before the compare-and-swap it fits the *)
(* word that was loaded; after it, the batch is still running and the claim *)
(* is a piece of what was handed out, run up to `at`, with its own body.   *)
ClaimOK(l) ==
  /\ pc[l] = "claim" =>
       /\ claim[l].item = word[l].item /\ claim[l].at = claim[l].item
       /\ claim[l].item < claim[l].end /\ claim[l].end <= word[l].count
  /\ InFlight(l) =>
       /\ Published /\ claim[l].item < claim[l].end /\ claim[l].end <= state.item
       /\ claim[l].item <= claim[l].at /\ claim[l].at <= claim[l].end
  /\ pc[l] = "load body" => claim[l].at = claim[l].item
  /\ pc[l] = "body" => claim[l].body = calls

(* Which items have run: the settled ones, the first part of each claim,   *)
(* nothing beyond the items handed out.                                    *)
RunCounts ==
  /\ \A i \in Settled : ran[i] = 1
  /\ \A l \in Lanes : InFlight(l) =>
       \A i \in Held(l) : ran[i] = IF i < claim[l].at THEN 1 ELSE 0
  /\ \A i \in Items : state.item <= i => ran[i] = 0

(* The invariant of a pool whose owner calls run().                        *)
RunInv ==
  /\ ~pinned
  /\ \A l \in Lanes : pc[l] \notin {"check batch", "pinned body", "pinned end"} /\ ClaimOK(l)
  /\ \A l, m \in Lanes : InFlight(l) /\ InFlight(m) /\ l # m => Held(l) \cap Held(m) = {}
  /\ Published => /\ body = calls /\ state.count = batch.count /\ state.item <= state.count
                  /\ completed = Cardinality(Settled) /\ RunCounts
  /\ ~Published => state.count <= state.item
  /\ pc[0] = "prepare" => /\ "body" \notin batch.stores => body = calls
                          /\ "completed" \notin batch.stores => completed = 0

(* Where a worker is when it has no batch.                                 *)
Resting == {"load", "wait", "asleep", "woken"}
(* A worker of run_lanes(): before, in and after its item of the batch that *)
(* is out; and, between batches, back from the last one, unless the pool is *)
(* being destroyed.                                                        *)
WorkerOK(l) ==
  IF Published
  THEN \/ pc[l] \in Resting /\ seen[l] # state.epoch /\ done[l] # state.epoch /\ ran[l] = 0
       \/ /\ pc[l] \in {"check stop", "take", "check batch", "pinned body"}
          /\ seen[l] = state.epoch /\ done[l] # state.epoch /\ ran[l] = 0
       \/ pc[l] = "pinned end" /\ seen[l] = state.epoch /\ done[l] # state.epoch /\ ran[l] = 1
       \/ pc[l] \in Resting /\ seen[l] = state.epoch /\ done[l] = state.epoch /\ ran[l] = 1
  ELSE /\ pc[l] \in Resting \cup (IF stop THEN {"check stop", "exited"} ELSE {})
       /\ stop \/ (seen[l] = state.epoch /\ done[l] \in {state.epoch, NoEpoch})
(* The invariant of a pool whose owner calls run_lanes().                  *)
LanesInv ==
  /\ \A l \in Workers : WorkerOK(l)
  /\ Published =>
       /\ pinned /\ body = calls /\ ~stop
       /\ pc[0] \in {"notify", "await", "take", "check batch", "pinned body", "pinned end"}
       /\ seen[0] = state.epoch
       /\ ran[0] = IF pc[0] \in {"pinned end", "await"} THEN 1 ELSE 0
       /\ batch.count = LaneCount
       /\ \A i \in Items \ Lanes : ran[i] = 0
  /\ pc[0] = "prepare" => /\ batch.count = LaneCount
                          /\ "pinned" \notin batch.stores => pinned
                          /\ "body" \notin batch.stores => body = calls

(* What holds of the caller in both modes.                                 *)
OwnerOK ==
  /\ pc[0] \notin {"load", "wait", "asleep", "woken", "check stop", "exited"}
  /\ \A l \in Workers : pc[l] \notin {"idle", "prepare", "notify", "await", "stopping", "wake", "join", "destroyed"}
  /\ Published \/ pc[0] \in {"idle", "prepare"} => ~stop
  /\ pc[0] \in {"stopping", "wake", "join", "destroyed"} => stop
  /\ pc[0] = "prepare" => \A i \in Items : ran[i] = 0
  /\ ~Published => \A i \in Items : ran[i] <= 1
  /\ pc[0] = "idle" => \A i \in 0 .. batch.count - 1 : ran[i] = 1
  /\ calls = 0 => ~Published /\ pc[0] # "prepare" /\ batch.mode = "run"

(* The inductive invariant: a pool that has not been called yet may become *)
(* either kind.                                                            *)
PoolInv ==
  /\ TypeOK /\ OwnerOK
  /\ batch.mode = "run" => RunInv
  /\ batch.mode = "run_lanes" \/ calls = 0 => LanesInv

-----------------------------------------------------------------------------
(* A leaf without arithmetic is Zenon's; the others cite SMT.              *)
USE Zenon

(* Lane 0 is the caller, the others are the workers.                       *)
LEMMA LaneFacts == /\ Lanes \subseteq Nat /\ 0 \in Lanes /\ Workers \subseteq Lanes
                   /\ \A l \in Lanes : l # 0 => l \in Workers
                   /\ 0 \notin Workers
  BY ConstantsAssumption, SMT DEF Lanes, Workers

(* Every lane and every item of the batch is an item.                      *)
LEMMA ItemFacts ==
  ASSUME TypeOK
  PROVE  /\ Lanes \subseteq Items
         /\ 0 .. batch.count - 1 \subseteq Items
         /\ batch.count \in Nat
<1>1. batch.count \in Counts \cup {0, LaneCount}
  BY DEF TypeOK
<1>2. batch.count \in Nat
  <2>1. CASE batch.count \in Counts
    BY <2>1, ConstantsAssumption
  <2>2. CASE batch.count \in {0, LaneCount}
    BY <2>2, ConstantsAssumption, SMT
  <2> QED
    BY <1>1, <2>1, <2>2
<1>3. \A n \in Counts : 0 .. n - 1 \subseteq Items
  BY DEF Items
<1>4. 0 .. 0 - 1 = {} /\ 0 .. LaneCount - 1 = Lanes /\ Lanes \subseteq Items
  BY SMT DEF Items, Lanes
<1> QED
  BY <1>1, <1>2, <1>3, <1>4

(* The next batch number is a batch number and differs from the last.      *)
LEMMA EpochFacts ==
  ASSUME TypeOK
  PROVE  NextEpoch \in Epochs /\ NextEpoch # state.epoch
<1>1. state.epoch \in 0 .. EpochModulus - 1 /\ EpochModulus \in Nat /\ EpochModulus > 1
  BY ConstantsAssumption, SMT DEF TypeOK, Word, Epochs
<1>2. CASE state.epoch + 1 < EpochModulus
  <2>1. (state.epoch + 1) % EpochModulus = state.epoch + 1
    BY <1>1, <1>2, SMT
  <2> QED
    BY <1>1, <1>2, <2>1, SMT DEF NextEpoch, Epochs
<1>3. CASE state.epoch + 1 = EpochModulus
  <2>1. (state.epoch + 1) % EpochModulus = 0
    BY <1>1, <1>3, SMT
  <2> QED
    BY <1>1, <1>3, <2>1, SMT DEF NextEpoch, Epochs
<1> QED
  BY <1>1, <1>2, <1>3, SMT

(* The constructor establishes the invariant.                              *)
LEMMA InitKept == Init => PoolInv
<1> SUFFICES ASSUME Init PROVE PoolInv
  OBVIOUS
<1> USE ConstantsAssumption, LaneFacts
<1>1. TypeOK
  <2>1. state \in Word
    BY SMT DEF Init, Word, Epochs
  <2>2. /\ completed \in Nat /\ chunk \in Nat \ {0} /\ body \in Nat /\ calls \in Nat
        /\ ran \in [Items -> Nat]
    BY SMT DEF Init
  <2>3. pinned \in BOOLEAN /\ stop \in BOOLEAN
    BY DEF Init
  <2>4. done \in [Lanes -> Epochs \cup {NoEpoch}] /\ seen \in [Lanes -> Epochs]
    BY SMT DEF Init, Epochs
  <2>5. /\ pc \in [Lanes -> Points] /\ word \in [Lanes -> Word]
        /\ claim \in [Lanes -> [item : Nat, end : Nat, at : Nat, body : Nat]]
    BY <2>1 DEF Init, Points
  <2>6. batch \in [mode : {"run", "run_lanes"}, count : Counts \cup {0, LaneCount},
                   stores : SUBSET Stores]
    BY DEF Init
  <2> QED
    BY <2>1, <2>2, <2>4, <2>5, <2>6, <2>3 DEF TypeOK
<1>2. OwnerOK
  BY <1>1, SMT DEF Init, OwnerOK, Published, Items
<1>3. RunInv
  BY <1>1, SMT DEF Init, RunInv, ClaimOK, InFlight, Published
<1>4. LanesInv
  BY <1>1 DEF Init, LanesInv, WorkerOK, Published, Resting
<1> QED
  BY <1>1, <1>2, <1>3, <1>4 DEF PoolInv
(* A call keeps the types.                                                 *)
LEMMA CallTyped ==
  ASSUME TypeOK, NEW mode \in {"run", "run_lanes"}, NEW count \in Counts \cup {0, LaneCount},
         NEW stores \in SUBSET Stores, Call(mode, count, stores)
  PROVE  TypeOK'
<1>1. pc' \in [Lanes -> Points]
  BY LaneFacts DEF TypeOK, Call, Goto, Points
<1>2. ran' \in [Items -> Nat] /\ calls' \in Nat
  BY SMT DEF TypeOK, Call
<1>3. batch' \in [mode : {"run", "run_lanes"}, count : Counts \cup {0, LaneCount},
                  stores : SUBSET Stores]
  BY DEF Call
<1>4. UNCHANGED <<shared, local>>
  BY DEF Call
<1> QED
  BY <1>1, <1>2, <1>3, <1>4 DEF TypeOK, shared, local

(* So do the other steps of the caller,                                    *)
LEMMA OwnerTyped ==
  ASSUME TypeOK, OwnerStep \/ Destroy
  PROVE  TypeOK'
<1> USE LaneFacts, ConstantsAssumption DEF Goto, shared, local, owner
<1>1. ASSUME NEW s \in Stores, Store(s) PROVE TypeOK'
  <2>1. batch.count \div (LaneCount * ClaimsPerLane) \in Nat
    <3>1. LaneCount * ClaimsPerLane \in Nat \ {0}
      BY SMT
    <3> HIDE ConstantsAssumption
    <3> QED
      BY <3>1, ItemFacts, SMT
  <2>2. chunk' \in Nat \ {0} /\ completed' \in Nat /\ body' \in Nat
    BY <1>1, <2>1, SMT DEF TypeOK, Store, Larger
  <2>3. batch' \in [mode : {"run", "run_lanes"}, count : Counts \cup {0, LaneCount},
                    stores : SUBSET Stores]
    BY <1>1 DEF TypeOK, Store
  <2>4. pinned' \in BOOLEAN
    BY <1>1 DEF TypeOK, Store
  <2>5. UNCHANGED <<state, done, stop, pc, local, calls, ran>>
    BY <1>1 DEF Store
  <2> QED
    BY <2>2, <2>3, <2>4, <2>5 DEF TypeOK
<1>2. CASE Publish
  <2>1. state' \in Word
    BY <1>2, EpochFacts, ItemFacts DEF TypeOK, Publish, Word
  <2> QED
    BY <1>2, <2>1 DEF TypeOK, Publish, Points, Word
<1>3. CASE Notify
  BY <1>3 DEF TypeOK, Notify, Points
<1>4. CASE Await
  BY <1>4 DEF TypeOK, Await, Points
<1>5. CASE Destroy
  BY <1>5 DEF TypeOK, Destroy, Points
<1>6. CASE PublishStop
  <2>1. state' \in Word
    BY <1>6, EpochFacts DEF TypeOK, PublishStop, Word
  <2> QED
    BY <1>6, <2>1 DEF TypeOK, PublishStop, Points
<1>7. CASE Join
  BY <1>7 DEF TypeOK, Join, Points
<1> QED
  BY <1>1, <1>2, <1>3, <1>4, <1>5, <1>6, <1>7 DEF OwnerStep

(* One execution counts once, and only for the running call.               *)
LEMMA ExecutedRan ==
  ASSUME TypeOK, NEW b, NEW i, Executed(b, i)
  PROVE  /\ ran' \in [Items -> Nat]
         /\ \A j \in Items : ran'[j] = IF b = calls /\ j = i THEN ran[j] + 1 ELSE ran[j]
<1>1. \A j \in Items : ran[j] \in Nat
  BY DEF TypeOK
<1>2. CASE b = calls
  <2>1. ran' = [ran EXCEPT ![i] = ran[i] + 1]
    BY <1>2 DEF Executed
  <2>2. ran' = [j \in Items |-> IF j = i THEN ran[i] + 1 ELSE ran[j]]
    BY <2>1 DEF TypeOK
  <2> QED
    BY <1>1, <1>2, <2>2, SMT
<1>3. CASE b # calls
  <2>1. ran' = [ran EXCEPT ![i] = ran[i]]
    BY <1>3 DEF Executed
  <2>2. ran' = ran
    BY <2>1 DEF TypeOK
  <2> QED
    BY <1>1, <1>3, <2>2 DEF TypeOK
<1> QED
  BY <1>2, <1>3

(* No lane of run_lanes() is ever in the claiming loop.                    *)
LEMMA LanesPoints ==
  ASSUME LanesInv, OwnerOK, NEW l \in Lanes
  PROVE  pc[l] \notin {"items", "claim", "load body", "body", "reload"}
<1>1. CASE l = 0
  BY <1>1 DEF LanesInv, Published
<1>2. CASE l # 0
  BY <1>2, LaneFacts DEF LanesInv, WorkerOK, Resting
<1> QED
  BY <1>1, <1>2

(* the steps of take()                                                     *)
LEMMA LaneTyped ==
  ASSUME PoolInv, TypeOK, NEW l \in Lanes, LaneStep(l)
  PROVE  TypeOK'
<1> USE LaneFacts DEF Goto, TakeReturns, shared, local, owner
<1>0. ASSUME claim' = [claim EXCEPT ![l].body = body]
      PROVE  claim' \in [Lanes -> [item : Nat, end : Nat, at : Nat, body : Nat]]
  <2>1. [claim[l] EXCEPT !.body = body] \in [item : Nat, end : Nat, at : Nat, body : Nat]
    BY SMT DEF TypeOK
  <2>2. claim' = [claim EXCEPT ![l] = [claim[l] EXCEPT !.body = body]]
    BY <1>0
  <2> QED
    BY <2>1, <2>2, SMT DEF TypeOK
<1>1. CASE TakeBegin(l)
  BY <1>1 DEF TypeOK, TakeBegin, Points
<1>2. CASE CheckBatch(l)
  BY <1>2 DEF TypeOK, CheckBatch, Points
<1>3. CASE RunPinned(l)
  <2>1. claim' \in [Lanes -> [item : Nat, end : Nat, at : Nat, body : Nat]]
    BY <1>0, <1>3 DEF RunPinned
  <2>2. ran' \in [Items -> Nat]
    BY <1>3, ExecutedRan DEF RunPinned
  <2>3. pc' \in [Lanes -> Points]
    BY <1>3 DEF TypeOK, RunPinned, Points
  <2> QED
    BY <1>3, <2>1, <2>2, <2>3 DEF TypeOK, RunPinned
<1>4. CASE StoreDone(l)
  BY <1>4 DEF TypeOK, StoreDone, Points
<1>5. CASE NextClaim(l)
  <2>1. Smaller(word[l].count, word[l].item + chunk) \in Nat /\ word[l].item \in Nat
    BY SMT DEF TypeOK, Word, Smaller
  <2>2. claim' \in [Lanes -> [item : Nat, end : Nat, at : Nat, body : Nat]]
    <3>1. CASE word[l].epoch # seen[l] \/ word[l].item >= word[l].count
      BY <1>5, <3>1 DEF TypeOK, NextClaim
    <3>2. CASE ~(word[l].epoch # seen[l] \/ word[l].item >= word[l].count)
      BY <1>5, <2>1, <3>2, SMT DEF TypeOK, NextClaim
    <3> QED
      BY <3>1, <3>2
  <2>3. pc' \in [Lanes -> Points]
    BY <1>5 DEF TypeOK, NextClaim, Points
  <2> QED
    BY <1>5, <2>2, <2>3 DEF TypeOK, NextClaim
<1>6. CASE Claim(l)
  <2>1. state' \in Word
    BY <1>6 DEF TypeOK, Claim, Word
  <2> QED
    BY <1>6, <2>1 DEF TypeOK, Claim, Points
<1>7. CASE ClaimFails(l)
  BY <1>7 DEF TypeOK, ClaimFails, Points
<1>8. CASE LoadBody(l)
  <2>1. claim' \in [Lanes -> [item : Nat, end : Nat, at : Nat, body : Nat]]
    BY <1>0, <1>8 DEF LoadBody
  <2>2. pc' \in [Lanes -> Points]
    BY <1>8 DEF TypeOK, LoadBody, Points
  <2> QED
    BY <1>8, <2>1, <2>2 DEF TypeOK, LoadBody
<1>9. CASE RunItem(l)
  <2>1. claim' \in [Lanes -> [item : Nat, end : Nat, at : Nat, body : Nat]]
    BY <1>9, SMT DEF TypeOK, RunItem
  <2>2. ran' \in [Items -> Nat]
    BY <1>9, ExecutedRan DEF RunItem
  <2> QED
    BY <1>9, <2>1, <2>2 DEF TypeOK, RunItem
<1>10. CASE Complete(l)
  <2>1. completed' \in Nat
    <3>1. completed' = completed + (claim[l].end - claim[l].item)
      BY <1>10 DEF Complete
    <3>2. batch.mode \in {"run", "run_lanes"} /\ pc[l] = "body"
      BY <1>10 DEF TypeOK, Complete
    <3>3. RunInv
      BY <3>2, LanesPoints DEF PoolInv
    <3>4. claim[l].item < claim[l].end
      BY <3>2, <3>3 DEF RunInv, ClaimOK, InFlight
    <3>5. claim[l].item \in Nat /\ claim[l].end \in Nat /\ completed \in Nat
      BY DEF TypeOK
    <3> QED
      BY <3>1, <3>4, <3>5, SMT
  <2>2. pc' \in [Lanes -> Points]
    BY <1>10 DEF TypeOK, Complete, Points
  <2> QED
    BY <1>10, <2>1, <2>2 DEF TypeOK, Complete
<1>11. CASE Reload(l)
  BY <1>11 DEF TypeOK, Reload, Points
<1> QED
  BY <1>1, <1>2, <1>3, <1>4, <1>5, <1>6, <1>7, <1>8, <1>9, <1>10, <1>11 DEF LaneStep

(* and the steps of work().                                                *)
LEMMA WorkerTyped ==
  ASSUME TypeOK, NEW l \in Workers, WorkerStep(l)
  PROVE  TypeOK'
<1> USE LaneFacts DEF Goto, shared, local, owner
<1>1. CASE SeeBatch(l)
  BY <1>1 DEF TypeOK, SeeBatch, Points, Word
<1>2. CASE SeeNothing(l)
  BY <1>2 DEF TypeOK, SeeNothing, Points
<1>3. CASE Wait(l)
  BY <1>3 DEF TypeOK, Wait, Points
<1>4. CASE CheckStop(l)
  BY <1>4 DEF TypeOK, CheckStop, Points
<1> QED
  BY <1>1, <1>2, <1>3, <1>4 DEF WorkerStep
-----------------------------------------------------------------------------
(* A step that leaves the word, the counter and every held claim alone keeps *)
(* the invariant of run().                                                 *)
LEMMA RunFrame ==
  ASSUME TypeOK, TypeOK', RunInv,
         UNCHANGED <<state, completed, pinned, body, batch, calls, ran>>,
         Published' <=> Published,
         pc'[0] = "prepare" => pc[0] = "prepare",
         \A l \in Lanes : pc'[l] \notin {"check batch", "pinned body", "pinned end"},
         \A l \in Lanes : InFlight(l)' <=> InFlight(l),
         \A l \in Lanes : InFlight(l) =>
            /\ claim'[l].item = claim[l].item /\ claim'[l].end = claim[l].end
            /\ claim'[l].at = claim[l].at
            /\ pc'[l] = "load body" => pc[l] = "load body"
            /\ pc'[l] = "body" => claim'[l].body = calls,
         \A l \in Lanes : pc'[l] = "claim" =>
            /\ claim'[l].item = word'[l].item /\ claim'[l].at = claim'[l].item
            /\ claim'[l].item < claim'[l].end /\ claim'[l].end <= word'[l].count
  PROVE  RunInv'
<1>1. \A l \in Lanes : InFlight(l) => Held(l)' = Held(l)
  BY DEF Held
<1>2. Settled' = Settled
  BY <1>1 DEF Settled
<1>3. ASSUME NEW l \in Lanes PROVE ClaimOK(l)'
  <2>1. ClaimOK(l) /\ state'.item = state.item /\ calls' = calls
    BY DEF RunInv
  <2>2. pc'[l] = "load body" \/ pc'[l] = "body" => InFlight(l)'
    BY DEF InFlight
  <2>3. InFlight(l) =>
          /\ Published' /\ claim'[l].item < claim'[l].end /\ claim'[l].end <= state'.item
          /\ claim'[l].item <= claim'[l].at /\ claim'[l].at <= claim'[l].end
    BY <2>1 DEF ClaimOK
  <2>4. pc'[l] = "load body" => claim'[l].at = claim'[l].item
    BY <2>1, <2>2 DEF ClaimOK
  <2> QED
    BY <2>1, <2>2, <2>3, <2>4 DEF ClaimOK
<1>4. ASSUME NEW l \in Lanes, NEW m \in Lanes, InFlight(l)', InFlight(m)', l # m
      PROVE  Held(l)' \cap Held(m)' = {}
  BY <1>1, <1>4 DEF RunInv
<1>5. Published' => RunCounts'
  <2> SUFFICES ASSUME Published' PROVE RunCounts'
    OBVIOUS
  <2>1. RunCounts
    BY DEF RunInv
  <2>2. \A i \in Settled' : ran'[i] = 1
    BY <1>2, <2>1 DEF RunCounts
  <2>3. ASSUME NEW l \in Lanes, InFlight(l)', NEW i \in Held(l)'
        PROVE  ran'[i] = IF i < claim'[l].at THEN 1 ELSE 0
    <3>1. InFlight(l) /\ i \in Held(l) /\ claim'[l].at = claim[l].at /\ ran' = ran
      BY <1>1, <2>3
    <3>2. ran[i] = IF i < claim[l].at THEN 1 ELSE 0
      BY <2>1, <3>1 DEF RunCounts
    <3> QED
      BY <3>1, <3>2
  <2>4. \A i \in Items : state'.item <= i => ran'[i] = 0
    BY <2>1 DEF RunCounts
  <2> QED
    BY <2>2, <2>3, <2>4 DEF RunCounts
<1> QED
  BY <1>2, <1>3, <1>4, <1>5 DEF RunInv

(* The counter reaches the item count only when everything was handed out  *)
(* and nothing is held: the condition run() spins on is the right one.     *)
LEMMA SettledAll ==
  ASSUME TypeOK, RunInv, Published, completed = batch.count
  PROVE  /\ Settled = 0 .. batch.count - 1 /\ state.item = batch.count
         /\ \A l \in Lanes : ~InFlight(l)
<1> DEFINE n == batch.count
<1>1. n \in Nat /\ state.item \in Nat /\ state.item <= n
  BY ItemFacts DEF TypeOK, Word, RunInv
<1>2. Cardinality(Settled) = n
  BY DEF RunInv
<1>3. IsFiniteSet(0 .. state.item - 1) /\ Cardinality(0 .. state.item - 1) = state.item
  <2>1. 0 \in Int /\ state.item - 1 \in Int
    BY <1>1, SMT
  <2>2. /\ IsFiniteSet(0 .. state.item - 1)
        /\ Cardinality(0 .. state.item - 1) =
             IF 0 > state.item - 1 THEN 0 ELSE state.item - 1 - 0 + 1
    BY <2>1, FS_Interval
  <2> QED
    BY <1>1, <2>2, SMT
<1>4. Settled \subseteq 0 .. state.item - 1
  BY DEF Settled
<1>5. /\ Cardinality(Settled) <= state.item
      /\ Cardinality(Settled) = state.item => Settled = 0 .. state.item - 1
  BY <1>3, <1>4, FS_Subset
<1>6. state.item = n /\ Settled = 0 .. n - 1
  BY <1>1, <1>2, <1>5, SMT
<1>7. ASSUME NEW l \in Lanes, InFlight(l) PROVE FALSE
  <2>1. /\ claim[l].item \in Nat /\ claim[l].end \in Nat
        /\ claim[l].item < claim[l].end /\ claim[l].end <= state.item
    BY <1>7 DEF TypeOK, RunInv, ClaimOK
  <2>2. claim[l].item \in Held(l) /\ claim[l].item \in 0 .. n - 1
    BY <1>1, <1>6, <2>1, SMT DEF Held
  <2> QED
    BY <1>6, <1>7, <2>2 DEF Settled
<1> QED
  BY <1>6, <1>7

(* The caller keeps the invariant of run().                                *)
LEMMA RunOwner ==
  ASSUME TypeOK, TypeOK', OwnerOK, RunInv, batch.mode = "run", OwnerStep \/ Destroy
  PROVE  RunInv'
<1> USE LaneFacts DEF Goto, shared, local, owner
<1>1. ASSUME NEW s \in Stores, Store(s) PROVE RunInv'
  <2>1. pc[0] = "prepare" /\ ~Published /\ ~Published'
    BY <1>1 DEF Store, Published
  <2>2. \A l \in Lanes : ~InFlight(l) /\ ~InFlight(l)'
    BY <1>1, <2>1 DEF RunInv, ClaimOK, Store, InFlight
  <2>3. \A l \in Lanes : ClaimOK(l)'
    BY <1>1, <2>2 DEF RunInv, ClaimOK, Store, InFlight
  <2>4. ~pinned'
    BY <1>1 DEF RunInv, Store
  <2>5. /\ "body" \notin batch'.stores => body' = calls'
        /\ "completed" \notin batch'.stores => completed' = 0
    BY <1>1, <2>1 DEF RunInv, Store, TypeOK
  <2>6. UNCHANGED <<state, pc>>
    BY <1>1 DEF Store
  <2> QED
    BY <2>1, <2>2, <2>3, <2>4, <2>5, <2>6 DEF RunInv
<1>2. CASE Publish
  <2>1. pc[0] = "prepare" /\ ~Published /\ Published'
    BY <1>2 DEF Publish, Published, TypeOK
  <2>2. \A l \in Lanes : ~InFlight(l) /\ ~InFlight(l)'
    BY <1>2, <2>1 DEF RunInv, ClaimOK, Publish, InFlight, TypeOK
  <2>3. \A l \in Lanes : ClaimOK(l)'
    BY <1>2, <2>2 DEF RunInv, ClaimOK, Publish, InFlight, TypeOK
  <2>4. state'.item = 0 /\ state'.count = batch'.count /\ batch'.count \in Nat
    BY <1>2, ItemFacts DEF Publish
  <2>5. Settled' = {}
    BY <2>4, SMT DEF Settled
  <2>6. completed' = Cardinality(Settled')
    BY <1>2, <2>1, <2>5, FS_EmptySet DEF Publish, RunInv
  <2>7. RunCounts'
    BY <1>2, <2>1, <2>2, <2>5 DEF RunCounts, OwnerOK, Publish
  <2>8. body' = calls' /\ ~pinned' /\ pc'[0] # "prepare"
    BY <1>2, <2>1 DEF Publish, RunInv, TypeOK
  <2>9. \A l \in Lanes : pc'[l] \notin {"check batch", "pinned body", "pinned end"}
    BY <1>2 DEF Publish, RunInv, TypeOK
  <2>10. state'.item <= state'.count
    BY <2>4, SMT
  <2> QED
    BY <2>1, <2>2, <2>3, <2>4, <2>6, <2>7, <2>8, <2>9, <2>10 DEF RunInv
<1>3. CASE Notify
  <2>1. /\ Published' <=> Published
        /\ pc'[0] \in {"take", "join"}
    BY <1>3 DEF Notify, Published
  <2>2. \A l \in Lanes : pc'[l] # pc[l] => pc'[l] \in {"take", "join", "woken"}
                                      /\ pc[l] \in {"notify", "wake", "asleep"}
    BY <1>3 DEF Notify
  <2>3. \A l \in Lanes : InFlight(l)' <=> InFlight(l)
    BY <2>2 DEF InFlight
  <2>4. UNCHANGED <<shared, local, owner, ran>>
    BY <1>3 DEF Notify
  <2>5. \A l \in Lanes : pc'[l] \notin {"check batch", "pinned body", "pinned end"}
    BY <2>2 DEF RunInv
  <2>6. \A l \in Lanes : InFlight(l) => pc'[l] = pc[l] /\ (pc[l] = "body" => claim[l].body = calls)
    BY <2>2 DEF InFlight, RunInv, ClaimOK
  <2>7. \A l \in Lanes : pc'[l] = "claim" =>
            /\ claim[l].item = word[l].item /\ claim[l].at = claim[l].item
            /\ claim[l].item < claim[l].end /\ claim[l].end <= word[l].count
    BY <2>2 DEF RunInv, ClaimOK
  <2> QED
    BY <2>1, <2>3, <2>4, <2>5, <2>6, <2>7, RunFrame
<1>4. CASE Await
  <2>1. Published /\ ~Published' /\ completed = batch.count
    BY <1>4 DEF Await, Published, Finished, TypeOK
  <2>2. state.item = batch.count /\ \A l \in Lanes : ~InFlight(l)
    BY <2>1, SettledAll
  <2>3. \A l \in Lanes : ~InFlight(l)'
    BY <1>4, <2>2 DEF Await, InFlight, TypeOK
  <2>4. \A l \in Lanes : ClaimOK(l)' /\ pc'[l] \notin {"check batch", "pinned body", "pinned end"}
    BY <1>4, <2>3 DEF Await, RunInv, ClaimOK, InFlight, TypeOK
  <2>5. state'.count <= state'.item
    BY <1>4, <2>1, <2>2, ItemFacts DEF Await, RunInv
  <2>6. ~pinned' /\ pc'[0] # "prepare"
    BY <1>4 DEF Await, RunInv, TypeOK
  <2> QED
    BY <2>1, <2>3, <2>4, <2>5, <2>6 DEF RunInv
<1>5. CASE Destroy \/ Join
  <2>1. /\ ~Published' /\ ~Published /\ pc'[0] \in {"stopping", "destroyed"}
        /\ pc[0] \in {"idle", "join"}
    BY <1>5 DEF Destroy, Join, Published, TypeOK
  <2>2. \A l \in Lanes : l # 0 => pc'[l] = pc[l]
    BY <1>5 DEF Destroy, Join, TypeOK
  <2>3. \A l \in Lanes : InFlight(l)' <=> InFlight(l)
    BY <2>1, <2>2 DEF InFlight
  <2>4. UNCHANGED <<state, completed, done, chunk, pinned, body, local, owner, ran>>
    BY <1>5 DEF Destroy, Join
  <2> QED
    BY <2>1, <2>2, <2>3, <2>4, RunFrame DEF RunInv, ClaimOK
<1>6. CASE PublishStop
  <2>1. ~Published /\ ~Published'
    BY <1>6 DEF PublishStop, Published, TypeOK
  <2>2. \A l \in Lanes : ~InFlight(l) /\ ~InFlight(l)'
    BY <1>6, <2>1 DEF RunInv, ClaimOK, PublishStop, InFlight, TypeOK
  <2>3. \A l \in Lanes : ClaimOK(l)' /\ pc'[l] \notin {"check batch", "pinned body", "pinned end"}
    BY <1>6, <2>2 DEF RunInv, ClaimOK, PublishStop, InFlight, TypeOK
  <2>4. state'.count = 0 /\ state'.item = 0
    BY <1>6 DEF PublishStop
  <2>5. ~pinned' /\ pc'[0] # "prepare"
    BY <1>6 DEF PublishStop, RunInv, TypeOK
  <2>6. state'.count <= state'.item
    BY <2>4, SMT
  <2> QED
    BY <2>1, <2>2, <2>3, <2>5, <2>6 DEF RunInv
<1> QED
  BY <1>1, <1>2, <1>3, <1>4, <1>5, <1>6 DEF OwnerStep

(* A successful compare-and-swap hands out the items after all others, even *)
(* when the word it compares with was loaded in an earlier batch.          *)
LEMMA ClaimKept ==
  ASSUME TypeOK, TypeOK', RunInv, NEW l \in Lanes, Claim(l)
  PROVE  RunInv'
<1> USE LaneFacts
<1>1. /\ pc[l] = "claim" /\ state = word[l] /\ state' = [word[l] EXCEPT !.item = claim[l].end]
      /\ pc' = [pc EXCEPT ![l] = "load body"]
      /\ UNCHANGED <<completed, pinned, body, claim, word, batch, calls, ran>>
  BY DEF Claim, Goto, local, owner
<1>2. /\ claim[l].item = state.item /\ claim[l].at = claim[l].item
      /\ claim[l].item < claim[l].end /\ claim[l].end <= state.count
  BY <1>1 DEF RunInv, ClaimOK
<1>3. /\ state'.item = claim[l].end /\ state'.count = state.count
      /\ state.item \in Nat /\ state.count \in Nat /\ claim[l].end \in Nat
  BY <1>1 DEF TypeOK, Word
<1>4. Published /\ Published'
  <2>1. ~Published => state.count <= state.item
    BY DEF RunInv
  <2>2. ~(state.count <= state.item)
    BY <1>2, <1>3, SMT
  <2> QED
    BY <1>1, <2>1, <2>2 DEF Published, TypeOK
<1>5. /\ \A m \in Lanes : m # l => pc'[m] = pc[m]
      /\ pc'[l] = "load body"
  BY <1>1 DEF TypeOK
<1>6. /\ \A m \in Lanes : InFlight(m)' <=> InFlight(m) \/ m = l
      /\ ~InFlight(l)
  BY <1>1, <1>5 DEF InFlight
<1>7. \A m \in Lanes : Held(m)' = Held(m)
  BY <1>1 DEF Held
<1>8. ASSUME NEW m \in Lanes, InFlight(m)
      PROVE  \A i \in Held(m) : i \in Nat /\ i < state.item
  <2>1. claim[m].item \in Nat /\ claim[m].end \in Nat /\ claim[m].end <= state.item
    BY <1>8 DEF RunInv, ClaimOK, TypeOK
  <2> QED
    BY <1>3, <2>1, SMT DEF Held
<1>9. \A i \in Held(l) : i \in Nat /\ state.item <= i /\ i < state'.item
  BY <1>2, <1>3, SMT DEF Held
<1>10. Settled' = Settled
  <2>1. ASSUME NEW i \in Settled' PROVE i \in Settled
    <3>1. i \in 0 .. state'.item - 1 /\ i \notin Held(l)
      BY <1>6, <1>7 DEF Settled
    <3>2. i \in 0 .. state.item - 1
      BY <1>2, <1>3, <3>1, SMT DEF Held
    <3> QED
      BY <1>6, <1>7, <3>2 DEF Settled
  <2>2. ASSUME NEW i \in Settled PROVE i \in Settled'
    <3>1. i \in 0 .. state.item - 1
      BY DEF Settled
    <3>2. i \in 0 .. state'.item - 1 /\ i \notin Held(l)
      BY <1>2, <1>3, <3>1, SMT DEF Held
    <3> QED
      BY <1>6, <1>7, <3>2 DEF Settled
  <2> QED
    BY <2>1, <2>2
<1>11. ASSUME NEW m \in Lanes PROVE ClaimOK(m)'
  <2>1. CASE m = l
    <3>1. claim[l].end <= state'.item /\ claim[l].at <= claim[l].end /\ claim[l].item <= claim[l].at
      BY <1>2, <1>3, SMT
    <3> QED
      BY <1>1, <1>2, <1>4, <1>5, <2>1, <3>1 DEF ClaimOK, InFlight
  <2>2. CASE m # l
    <3>1. ClaimOK(m) /\ claim[m].end \in Nat
      BY DEF RunInv, TypeOK
    <3>2. claim[m].end <= state.item => claim[m].end <= state'.item
      BY <1>2, <1>3, <3>1, SMT
    <3> QED
      BY <1>1, <1>4, <1>5, <2>2, <3>1, <3>2 DEF ClaimOK, InFlight
  <2> QED
    BY <2>1, <2>2
<1>12. ASSUME NEW m \in Lanes, NEW k \in Lanes, InFlight(m)', InFlight(k)', m # k
       PROVE  Held(m)' \cap Held(k)' = {}
  <2>1. CASE m # l /\ k # l
    BY <1>6, <1>7, <1>12, <2>1 DEF RunInv
  <2>2. CASE m = l
    <3>1. InFlight(k)
      BY <1>6, <1>12, <2>2
    <3>2. ASSUME NEW i \in Held(l), i \in Held(k) PROVE FALSE
      <4>1. i \in Nat /\ state.item <= i /\ i < state.item
        BY <1>8, <1>9, <3>1, <3>2
      <4> QED
        BY <1>3, <4>1, SMT
    <3> QED
      BY <1>7, <2>2, <3>2
  <2>3. CASE k = l
    <3>1. InFlight(m)
      BY <1>6, <1>12, <2>3
    <3>2. ASSUME NEW i \in Held(l), i \in Held(m) PROVE FALSE
      <4>1. i \in Nat /\ state.item <= i /\ i < state.item
        BY <1>8, <1>9, <3>1, <3>2
      <4> QED
        BY <1>3, <4>1, SMT
    <3> QED
      BY <1>7, <2>3, <3>2
  <2> QED
    BY <2>1, <2>2, <2>3
<1>13. RunCounts'
  <2>1. RunCounts
    BY <1>4 DEF RunInv
  <2>2. \A i \in Settled' : ran'[i] = 1
    BY <1>1, <1>10, <2>1 DEF RunCounts
  <2>3. ASSUME NEW m \in Lanes, InFlight(m)', NEW i \in Held(m)'
        PROVE  ran'[i] = IF i < claim'[m].at THEN 1 ELSE 0
    <3>1. CASE m # l
      BY <1>1, <1>6, <1>7, <2>1, <2>3, <3>1 DEF RunCounts
    <3>2. CASE m = l
      <4>1. i \in Nat /\ state.item <= i /\ i < state'.item
        BY <1>7, <1>9, <2>3, <3>2
      <4>2. i \in 0 .. batch.count - 1
        <5>1. state.count = batch.count
          BY <1>4 DEF RunInv
        <5> QED
          BY <1>2, <1>3, <4>1, <5>1, SMT
      <4>3. i \in Items
        BY <4>2, ItemFacts
      <4> QED
        <5>1. ran[i] = 0
          BY <2>1, <4>1, <4>3 DEF RunCounts
        <5>2. ~(i < claim[l].at)
          BY <1>2, <1>3, <4>1, SMT
        <5> QED
          BY <1>1, <3>2, <5>1, <5>2
    <3> QED
      BY <3>1, <3>2
  <2>4. ASSUME NEW i \in Items, state'.item <= i PROVE ran'[i] = 0
    <3>1. i \in Int
      BY ConstantsAssumption, SMT DEF Items, Lanes
    <3> QED
      <4>1. state.item <= i
        BY <1>2, <1>3, <2>4, <3>1, SMT
      <4> QED
        BY <1>1, <2>1, <4>1 DEF RunCounts
  <2> QED
    BY <2>2, <2>3, <2>4 DEF RunCounts
<1>14. \A m \in Lanes : pc'[m] \notin {"check batch", "pinned body", "pinned end"}
  BY <1>5 DEF RunInv
<1>15. /\ ~pinned' /\ body' = calls' /\ state'.count = batch'.count /\ state'.item <= state'.count
       /\ completed' = Cardinality(Settled')
  BY <1>1, <1>2, <1>3, <1>4, <1>10 DEF RunInv
<1>16. pc'[0] # "prepare"
  BY <1>4 DEF Published
<1> QED
  BY <1>4, <1>11, <1>12, <1>13, <1>14, <1>15, <1>16 DEF RunInv

(* The body runs on the next item of the claim.                            *)
LEMMA RunItemKept ==
  ASSUME TypeOK, TypeOK', RunInv, NEW l \in Lanes, RunItem(l)
  PROVE  RunInv'
<1> USE LaneFacts
<1> DEFINE a == claim[l].at
<1>1. /\ pc[l] = "body" /\ a < claim[l].end /\ Executed(claim[l].body, a)
      /\ claim' = [claim EXCEPT ![l].at = a + 1]
      /\ UNCHANGED <<state, completed, pinned, body, pc, word, batch, calls>>
  BY DEF RunItem, shared, owner
<1>2. /\ Published /\ claim[l].item < claim[l].end /\ claim[l].end <= state.item
      /\ claim[l].item <= a /\ claim[l].body = calls /\ InFlight(l)
  BY <1>1 DEF RunInv, ClaimOK, InFlight
<1>3. /\ a \in Nat /\ claim[l].item \in Nat /\ claim[l].end \in Nat /\ state.item \in Nat
  BY DEF TypeOK, Word
<1>4. /\ Published' /\ \A m \in Lanes : InFlight(m)' <=> InFlight(m)
  BY <1>1, <1>2 DEF Published, InFlight
<1>5. /\ claim'[l].at = a + 1 /\ claim'[l].item = claim[l].item
      /\ claim'[l].end = claim[l].end /\ claim'[l].body = claim[l].body
      /\ \A m \in Lanes : m # l => claim'[m] = claim[m]
  BY <1>1, SMT DEF TypeOK
<1>6. \A m \in Lanes : Held(m)' = Held(m)
  BY <1>5 DEF Held
<1>7. Settled' = Settled
  BY <1>1, <1>4, <1>6 DEF Settled
<1>8. a \in Held(l) /\ a \notin Settled
  BY <1>1, <1>2, <1>3, SMT DEF Held, Settled
<1>9. \A m \in Lanes : InFlight(m) /\ m # l => a \notin Held(m)
  BY <1>2, <1>8 DEF RunInv
<1>10. RunCounts /\ state.count = batch.count /\ state.item <= state.count
  BY <1>2 DEF RunInv
<1>11. \A i \in Items : ran'[i] = IF i = a THEN ran[i] + 1 ELSE ran[i]
  BY <1>1, <1>2, ExecutedRan, SMT
<1>12. \A m \in Lanes : InFlight(m) => Held(m) \subseteq Items
  <2>1. 0 .. batch.count - 1 \subseteq Items /\ batch.count \in Nat
    BY ItemFacts
  <2>2. ASSUME NEW m \in Lanes, InFlight(m) PROVE Held(m) \subseteq 0 .. batch.count - 1
    <3>1. claim[m].item \in Nat /\ claim[m].end \in Nat /\ claim[m].end <= state.item
      BY <2>2 DEF RunInv, ClaimOK, TypeOK
    <3> QED
      BY <1>3, <1>10, <2>1, <3>1, SMT DEF Held
  <2> QED
    BY <2>1, <2>2
<1>13. Settled \subseteq Items
  <2>1. 0 .. batch.count - 1 \subseteq Items /\ batch.count \in Nat
    BY ItemFacts
  <2>2. Settled \subseteq 0 .. batch.count - 1
    BY <1>3, <1>10, <2>1, SMT DEF Settled
  <2> QED
    BY <2>1, <2>2
<1>14. RunCounts'
  <2>1. \A i \in Settled' : ran'[i] = 1
    BY <1>7, <1>8, <1>10, <1>11, <1>13 DEF RunCounts
  <2>2. ASSUME NEW m \in Lanes, InFlight(m)', NEW i \in Held(m)'
        PROVE  ran'[i] = IF i < claim'[m].at THEN 1 ELSE 0
    <3>1. InFlight(m) /\ i \in Held(m) /\ i \in Items
      BY <1>4, <1>6, <1>12, <2>2
    <3>2. ran[i] = IF i < claim[m].at THEN 1 ELSE 0
      BY <1>10, <3>1 DEF RunCounts
    <3>3. CASE m # l
      <4>1. i # a /\ claim'[m] = claim[m]
        BY <1>5, <1>9, <3>1, <3>3
      <4> QED
        BY <1>11, <3>1, <3>2, <4>1
    <3>4. CASE m = l
      <4>1. i \in Nat /\ claim'[m].at = a + 1
        BY <1>3, <1>5, <3>1, <3>4, SMT DEF Held
      <4>2. ran[i] = IF i < a THEN 1 ELSE 0
        BY <3>2, <3>4
      <4>3. ran'[i] = IF i = a THEN ran[i] + 1 ELSE ran[i]
        BY <1>11, <3>1
      <4> QED
        BY <1>3, <4>1, <4>2, <4>3, SMT
    <3> QED
      BY <3>3, <3>4
  <2>3. ASSUME NEW i \in Items, state'.item <= i PROVE ran'[i] = 0
    <3>1. i \in Int
      BY ConstantsAssumption, SMT DEF Items, Lanes
    <3>2. state.item <= i /\ i # a
      BY <1>1, <1>2, <1>3, <2>3, <3>1, SMT
    <3> QED
      BY <1>10, <1>11, <3>2 DEF RunCounts
  <2> QED
    BY <2>1, <2>2, <2>3 DEF RunCounts
<1>15. ASSUME NEW m \in Lanes PROVE ClaimOK(m)'
  <2>1. CASE m = l
    <3>1. claim[l].item <= a + 1 /\ a + 1 <= claim[l].end
      BY <1>1, <1>2, <1>3, SMT
    <3> QED
      BY <1>1, <1>2, <1>4, <1>5, <2>1, <3>1 DEF ClaimOK
  <2>2. CASE m # l
    <3>1. ClaimOK(m)
      BY DEF RunInv
    <3> QED
      BY <1>1, <1>4, <1>5, <2>2, <3>1 DEF ClaimOK
  <2> QED
    BY <2>1, <2>2
<1>16. \A m, k \in Lanes : InFlight(m)' /\ InFlight(k)' /\ m # k => Held(m)' \cap Held(k)' = {}
  BY <1>4, <1>6 DEF RunInv
<1>17. /\ ~pinned' /\ body' = calls' /\ state'.count = batch'.count /\ state'.item <= state'.count
       /\ completed' = Cardinality(Settled') /\ pc'[0] # "prepare"
       /\ \A m \in Lanes : pc'[m] \notin {"check batch", "pinned body", "pinned end"}
  BY <1>1, <1>2, <1>7, <1>10 DEF RunInv, Published
<1> QED
  BY <1>4, <1>14, <1>15, <1>16, <1>17 DEF RunInv

(* The counter takes over a whole claim.                                   *)
LEMMA CompleteKept ==
  ASSUME TypeOK, TypeOK', RunInv, NEW l \in Lanes, Complete(l)
  PROVE  RunInv'
<1> USE LaneFacts
<1>1. /\ pc[l] = "body" /\ claim[l].at = claim[l].end
      /\ completed' = completed + (claim[l].end - claim[l].item)
      /\ pc' = [pc EXCEPT ![l] = "reload"]
      /\ UNCHANGED <<state, pinned, body, claim, word, batch, calls, ran>>
  BY DEF Complete, Goto, local, owner
<1>2. /\ Published /\ claim[l].item < claim[l].end /\ claim[l].end <= state.item /\ InFlight(l)
  BY <1>1 DEF RunInv, ClaimOK, InFlight
<1>3. /\ claim[l].item \in Nat /\ claim[l].end \in Nat /\ state.item \in Nat
  BY DEF TypeOK, Word
<1>4. /\ \A m \in Lanes : m # l => pc'[m] = pc[m]
      /\ pc'[l] = "reload"
  BY <1>1 DEF TypeOK
<1>5. /\ Published' /\ \A m \in Lanes : InFlight(m)' <=> InFlight(m) /\ m # l
  BY <1>2, <1>4 DEF Published, InFlight
<1>6. \A m \in Lanes : Held(m)' = Held(m)
  BY <1>1 DEF Held
<1>7. Held(l) \subseteq 0 .. state.item - 1
  BY <1>2, <1>3, SMT DEF Held
<1>8. \A m \in Lanes : InFlight(m) /\ m # l => Held(l) \cap Held(m) = {}
  BY <1>2 DEF RunInv
<1>9. Settled' = Settled \cup Held(l) /\ Settled \cap Held(l) = {}
  BY <1>1, <1>2, <1>5, <1>6, <1>7, <1>8, SMT DEF Settled
<1>10. IsFiniteSet(Held(l)) /\ Cardinality(Held(l)) = claim[l].end - claim[l].item
  <2>1. claim[l].item \in Int /\ claim[l].end - 1 \in Int
    BY <1>3, SMT
  <2>2. /\ IsFiniteSet(claim[l].item .. claim[l].end - 1)
        /\ Cardinality(claim[l].item .. claim[l].end - 1) =
             IF claim[l].item > claim[l].end - 1 THEN 0 ELSE claim[l].end - 1 - claim[l].item + 1
    BY <2>1, FS_Interval
  <2> QED
    BY <1>2, <1>3, <2>2, SMT DEF Held
<1>11. IsFiniteSet(Settled)
  <2>1. 0 \in Int /\ state.item - 1 \in Int
    BY <1>3, SMT
  <2>2. IsFiniteSet(0 .. state.item - 1)
    BY <2>1, FS_Interval
  <2> QED
    BY <2>2, FS_Subset DEF Settled
<1>12. completed' = Cardinality(Settled')
  <2>1. Cardinality(Settled') = Cardinality(Settled) + Cardinality(Held(l)) - Cardinality({})
    BY <1>9, <1>10, <1>11, FS_Union, SMT
  <2>2. Cardinality({}) = 0 /\ Cardinality(Settled) \in Nat
    BY <1>11, FS_EmptySet, FS_CardinalityType
  <2>3. completed = Cardinality(Settled)
    BY <1>2 DEF RunInv
  <2> QED
    BY <1>1, <1>3, <1>10, <2>1, <2>2, <2>3, SMT
<1>13. RunCounts /\ state.count = batch.count /\ state.item <= state.count
  BY <1>2 DEF RunInv
<1>14. RunCounts'
  <2>1. ASSUME NEW i \in Held(l) PROVE ran[i] = 1
    <3>1. i < claim[l].at
      BY <1>1, <1>3, SMT DEF Held
    <3> QED
      BY <1>2, <1>13, <3>1 DEF RunCounts
  <2>2. \A i \in Settled' : ran'[i] = 1
    BY <1>1, <1>9, <1>13, <2>1 DEF RunCounts
  <2> QED
    BY <1>1, <1>5, <1>6, <1>13, <2>2, SMT DEF RunCounts
<1>15. ASSUME NEW m \in Lanes PROVE ClaimOK(m)'
  <2>1. ClaimOK(m) /\ claim' = claim /\ word' = word /\ state' = state /\ calls' = calls
    BY <1>1 DEF RunInv
  <2>2. pc'[m] = "reload" \/ pc'[m] = pc[m]
    BY <1>4
  <2> QED
    BY <1>5, <2>1, <2>2 DEF ClaimOK
<1>16. \A m, k \in Lanes : InFlight(m)' /\ InFlight(k)' /\ m # k => Held(m)' \cap Held(k)' = {}
  BY <1>5, <1>6 DEF RunInv
<1>17. /\ ~pinned' /\ body' = calls' /\ state'.count = batch'.count /\ state'.item <= state'.count
       /\ pc'[0] # "prepare"
       /\ \A m \in Lanes : pc'[m] \notin {"check batch", "pinned body", "pinned end"}
  BY <1>1, <1>2, <1>4, <1>5, <1>13 DEF RunInv, Published
<1> QED
  BY <1>5, <1>12, <1>14, <1>15, <1>16, <1>17 DEF RunInv

(* A step of one lane that neither takes nor returns a claim.              *)
LEMMA RunQuiet ==
  ASSUME TypeOK, TypeOK', RunInv, OwnerOK, NEW l \in Lanes,
         UNCHANGED <<state, completed, pinned, body, batch, calls, ran>>,
         \A m \in Lanes : m # l => pc'[m] = pc[m] /\ claim'[m] = claim[m] /\ word'[m] = word[m],
         l = 0 => (Published /\ Published'),
         pc'[l] \notin {"check batch", "pinned body", "pinned end", "load body", "body"},
         ~InFlight(l),
         pc'[l] = "claim" =>
            /\ claim'[l].item = word'[l].item /\ claim'[l].at = claim'[l].item
            /\ claim'[l].item < claim'[l].end /\ claim'[l].end <= word'[l].count
  PROVE  RunInv'
<1> USE LaneFacts
<1>1. /\ Published' <=> Published
      /\ pc'[0] = "prepare" => pc[0] = "prepare"
  BY DEF Published
<1>2. \A m \in Lanes : InFlight(m)' <=> InFlight(m)
  BY DEF InFlight
<1>3. \A m \in Lanes : pc'[m] \notin {"check batch", "pinned body", "pinned end"}
  BY DEF RunInv
<1>4. \A m \in Lanes : InFlight(m) =>
         pc'[m] = pc[m] /\ claim'[m] = claim[m] /\ (pc[m] = "body" => claim[m].body = calls)
  BY DEF InFlight, RunInv, ClaimOK
<1>5. \A m \in Lanes : pc'[m] = "claim" =>
         /\ claim'[m].item = word'[m].item /\ claim'[m].at = claim'[m].item
         /\ claim'[m].item < claim'[m].end /\ claim'[m].end <= word'[m].count
  <2>1. ASSUME NEW m \in Lanes, m # l, pc[m] = "claim"
        PROVE  /\ claim[m].item = word[m].item /\ claim[m].at = claim[m].item
               /\ claim[m].item < claim[m].end /\ claim[m].end <= word[m].count
    <3>1. ClaimOK(m)
      BY DEF RunInv
    <3> QED
      BY <2>1, <3>1 DEF ClaimOK
  <2> QED
    BY <2>1
<1> QED
  BY <1>1, <1>2, <1>3, <1>4, <1>5, RunFrame

(* Every step of take() keeps the invariant of run(),                      *)
LEMMA RunLane ==
  ASSUME TypeOK, TypeOK', RunInv, OwnerOK, NEW l \in Lanes, LaneStep(l)
  PROVE  RunInv'
<1> USE LaneFacts DEF Goto, TakeReturns, shared, local, owner
<1>1. CASE TakeBegin(l)
  <2>1. pc[l] = "take" /\ pc'[l] = "items" /\ \A m \in Lanes : m # l => pc'[m] = pc[m]
    BY <1>1 DEF TakeBegin, RunInv, TypeOK
  <2>2. ~InFlight(l) /\ (l = 0 => Published /\ Published')
    BY <2>1 DEF InFlight, Published
  <2>3. UNCHANGED <<shared, local, owner, ran>>
    BY <1>1 DEF TakeBegin
  <2> QED
    BY <2>1, <2>2, <2>3, RunQuiet
<1>2. CASE CheckBatch(l) \/ RunPinned(l) \/ StoreDone(l)
  BY <1>2 DEF CheckBatch, RunPinned, StoreDone, RunInv
<1>3. CASE NextClaim(l)
  <2>1. /\ pc[l] = "items" /\ pc'[l] \in {"claim", "await", "load"}
        /\ l = 0 => pc'[l] \in {"claim", "await"}
        /\ \A m \in Lanes : m # l => pc'[m] = pc[m] /\ claim'[m] = claim[m]
    BY <1>3, SMT DEF NextClaim, TypeOK
  <2>2. ~InFlight(l) /\ (l = 0 => Published /\ Published')
    BY <2>1 DEF InFlight, Published
  <2>3. UNCHANGED <<shared, seen, word, owner, ran>>
    BY <1>3 DEF NextClaim
  <2>4. ASSUME pc'[l] = "claim"
        PROVE  /\ claim'[l].item = word'[l].item /\ claim'[l].at = claim'[l].item
               /\ claim'[l].item < claim'[l].end /\ claim'[l].end <= word'[l].count
    <3>1. ~(word[l].epoch # seen[l] \/ word[l].item >= word[l].count)
      BY <1>3, <2>4 DEF NextClaim, TypeOK
    <3>2. /\ claim'[l].item = word[l].item /\ claim'[l].at = word[l].item
          /\ claim'[l].end = Smaller(word[l].count, word[l].item + chunk)
      BY <1>3, <3>1, SMT DEF NextClaim, TypeOK
    <3>3. word[l].item \in Nat /\ word[l].count \in Nat /\ chunk \in Nat \ {0}
      BY DEF TypeOK, Word
    <3>4. /\ word[l].item < Smaller(word[l].count, word[l].item + chunk)
          /\ Smaller(word[l].count, word[l].item + chunk) <= word[l].count
      BY <3>1, <3>3, SMT DEF Smaller
    <3> QED
      BY <2>3, <3>2, <3>4
  <2> QED
    BY <2>1, <2>2, <2>3, <2>4, RunQuiet
<1>4. CASE Claim(l)
  BY <1>4, ClaimKept
<1>5. CASE ClaimFails(l) \/ Reload(l)
  <2>1. pc[l] \in {"claim", "reload"} /\ pc'[l] = "items" /\ \A m \in Lanes : m # l => pc'[m] = pc[m]
    BY <1>5 DEF ClaimFails, Reload, TypeOK
  <2>2. ~InFlight(l) /\ (l = 0 => Published /\ Published')
    BY <2>1 DEF InFlight, Published
  <2>3. UNCHANGED <<shared, seen, claim, owner, ran>>
    BY <1>5 DEF ClaimFails, Reload
  <2>4. \A m \in Lanes : m # l => word'[m] = word[m]
    BY <1>5 DEF ClaimFails, Reload, TypeOK
  <2> QED
    BY <2>1, <2>2, <2>3, <2>4, RunQuiet
<1>6. CASE LoadBody(l)
  <2>1. pc[l] = "load body" /\ pc'[l] = "body" /\ \A m \in Lanes : m # l => pc'[m] = pc[m]
    BY <1>6 DEF LoadBody, TypeOK
  <2>2. InFlight(l) /\ Published /\ body = calls
    BY <2>1 DEF InFlight, RunInv, ClaimOK
  <2>3. /\ Published' /\ \A m \in Lanes : InFlight(m)' <=> InFlight(m)
    BY <2>1, <2>2 DEF InFlight, Published
  <2>4. /\ \A m \in Lanes : m # l => claim'[m] = claim[m]
        /\ claim'[l].item = claim[l].item /\ claim'[l].end = claim[l].end
        /\ claim'[l].at = claim[l].at /\ claim'[l].body = body
    <3>1. claim' = [claim EXCEPT ![l] = [claim[l] EXCEPT !.body = body]]
      BY <1>6 DEF LoadBody
    <3>2. /\ claim'[l] = [claim[l] EXCEPT !.body = body]
          /\ \A m \in Lanes : m # l => claim'[m] = claim[m]
      BY <3>1 DEF TypeOK
    <3>3. claim[l] \in [item : Nat, end : Nat, at : Nat, body : Nat]
      BY DEF TypeOK
    <3> QED
      BY <3>2, <3>3, SMT
  <2>5. UNCHANGED <<shared, seen, word, owner, ran>>
    BY <1>6 DEF LoadBody
  <2>6. \A m \in Lanes : pc'[m] \notin {"check batch", "pinned body", "pinned end"}
    BY <2>1 DEF RunInv
  <2>7. \A m \in Lanes : InFlight(m) =>
            /\ claim'[m].item = claim[m].item /\ claim'[m].end = claim[m].end
            /\ claim'[m].at = claim[m].at
            /\ pc'[m] = "load body" => pc[m] = "load body"
            /\ pc'[m] = "body" => claim'[m].body = calls
    <3>1. \A m \in Lanes : pc[m] = "body" => claim[m].body = calls
      BY DEF RunInv, ClaimOK
    <3> SUFFICES ASSUME NEW m \in Lanes
                 PROVE  /\ claim'[m].item = claim[m].item /\ claim'[m].end = claim[m].end
                        /\ claim'[m].at = claim[m].at
                        /\ pc'[m] = "load body" => pc[m] = "load body"
                        /\ pc'[m] = "body" => claim'[m].body = calls
      OBVIOUS
    <3>2. CASE m = l
      BY <2>1, <2>2, <2>4, <3>2
    <3>3. CASE m # l
      BY <2>1, <2>4, <3>1, <3>3
    <3> QED
      BY <3>2, <3>3
  <2>8. \A m \in Lanes : pc'[m] = "claim" =>
         /\ claim'[m].item = word'[m].item /\ claim'[m].at = claim'[m].item
         /\ claim'[m].item < claim'[m].end /\ claim'[m].end <= word'[m].count
    <3>1. ASSUME NEW m \in Lanes, pc'[m] = "claim"
          PROVE  ClaimOK(m) /\ pc[m] = "claim" /\ claim'[m] = claim[m] /\ word'[m] = word[m]
      BY <2>1, <2>4, <2>5, <3>1 DEF RunInv
    <3> QED
      BY <3>1 DEF ClaimOK
  <2>9. pc'[0] # "prepare"
    BY <2>3 DEF Published
  <2> QED
    BY <2>2, <2>3, <2>5, <2>6, <2>7, <2>8, <2>9, RunFrame
<1>7. CASE RunItem(l)
  BY <1>7, RunItemKept
<1>8. CASE Complete(l)
  BY <1>8, CompleteKept
<1> QED
  BY <1>1, <1>2, <1>3, <1>4, <1>5, <1>6, <1>7, <1>8 DEF LaneStep

(* and so does every step of work().                                       *)
LEMMA RunWorker ==
  ASSUME TypeOK, TypeOK', RunInv, OwnerOK, NEW l \in Workers, WorkerStep(l)
  PROVE  RunInv'
<1> USE LaneFacts DEF Goto, shared, local, owner
<1>1. /\ pc[l] \in {"load", "wait", "woken", "check stop"}
      /\ pc'[l] \in {"check stop", "wait", "asleep", "load", "exited", "take"}
      /\ \A m \in Lanes : m # l => pc'[m] = pc[m]
  BY DEF WorkerStep, SeeBatch, SeeNothing, Wait, CheckStop, TypeOK
<1>2. ~InFlight(l) /\ l # 0
  BY <1>1 DEF InFlight
<1>3. UNCHANGED <<shared, claim, owner, ran>>
  BY DEF WorkerStep, SeeBatch, SeeNothing, Wait, CheckStop
<1>4. \A m \in Lanes : m # l => word'[m] = word[m]
  BY DEF WorkerStep, SeeBatch, SeeNothing, Wait, CheckStop, TypeOK
<1> QED
  BY <1>1, <1>2, <1>3, <1>4, RunQuiet

-----------------------------------------------------------------------------
(* The caller keeps the invariant of run_lanes(): it returns only when all *)
(* workers are back, so none misses a batch number.                        *)
LEMMA LanesOwner ==
  ASSUME TypeOK, TypeOK', OwnerOK, LanesInv, batch.mode = "run_lanes" \/ calls = 0,
         OwnerStep \/ Destroy
  PROVE  LanesInv'
<1> USE LaneFacts DEF Goto, shared, local, owner
<1>1. ASSUME NEW s \in Stores, Store(s) PROVE LanesInv'
  <2>1. pc[0] = "prepare" /\ ~Published /\ ~Published' /\ calls # 0
    BY <1>1 DEF Store, Published, OwnerOK
  <2>2. UNCHANGED <<state, done, stop, pc, local, calls, ran>>
    BY <1>1 DEF Store
  <2>3. \A l \in Workers : WorkerOK(l)'
    BY <2>1, <2>2 DEF LanesInv, WorkerOK
  <2>4. /\ batch'.count = LaneCount
        /\ "pinned" \notin batch'.stores => pinned'
        /\ "body" \notin batch'.stores => body' = calls'
    BY <1>1, <2>1 DEF LanesInv, Store, TypeOK
  <2> QED
    BY <2>1, <2>3, <2>4 DEF LanesInv
<1>2. CASE Publish
  <2>1. pc[0] = "prepare" /\ pc'[0] = "notify" /\ ~Published /\ Published' /\ calls # 0 /\ ~stop
    BY <1>2 DEF Publish, Published, OwnerOK, TypeOK
  <2>2. state'.epoch = NextEpoch /\ state'.epoch # state.epoch /\ state'.epoch # NoEpoch
    BY <1>2, EpochFacts, ConstantsAssumption, SMT DEF Publish, Epochs, NoEpoch
  <2>3. ASSUME NEW l \in Workers PROVE WorkerOK(l)'
    <3>1. /\ pc[l] \in Resting /\ seen[l] = state.epoch /\ done[l] \in {state.epoch, NoEpoch}
      BY <2>1 DEF LanesInv, WorkerOK
    <3>2. /\ pc'[l] = pc[l] /\ seen'[l] = seen[l] /\ done'[l] = done[l] /\ ran'[l] = ran[l]
      BY <1>2 DEF Publish, TypeOK
    <3>3. ran[l] = 0
      BY <2>1, ItemFacts DEF OwnerOK
    <3> QED
      BY <2>1, <2>2, <3>1, <3>2, <3>3 DEF WorkerOK
  <2>4. pinned' /\ body' = calls' /\ ~stop' /\ batch'.count = LaneCount
    BY <1>2, <2>1 DEF Publish, LanesInv
  <2>5. seen'[0] = state'.epoch
    BY <1>2 DEF Publish, TypeOK
  <2>6. \A i \in Items : ran'[i] = 0
    BY <1>2, <2>1 DEF Publish, OwnerOK
  <2>7. ran'[0] = 0
    BY <2>6, ItemFacts
  <2> QED
    BY <2>1, <2>3, <2>4, <2>5, <2>6, <2>7 DEF LanesInv
<1>3. CASE Notify
  <2>1. /\ Published' <=> Published
        /\ (pc[0] = "notify" /\ pc'[0] = "take") \/ (pc[0] = "wake" /\ pc'[0] = "join")
    BY <1>3 DEF Notify, Published
  <2>2. \A l \in Workers : pc'[l] = pc[l] \/ (pc[l] = "asleep" /\ pc'[l] = "woken")
    BY <1>3 DEF Notify
  <2>3. UNCHANGED <<shared, local, owner, ran>>
    BY <1>3 DEF Notify
  <2>4. \A l \in Workers : WorkerOK(l)'
    BY <2>1, <2>2, <2>3 DEF LanesInv, WorkerOK, Resting
  <2> QED
    BY <2>1, <2>3, <2>4 DEF LanesInv, Published
<1>4. CASE Await
  <2>1. /\ Published /\ ~Published' /\ pc[0] = "await" /\ pc'[0] = "idle"
        /\ \A l \in Workers : pc'[l] = pc[l]
    BY <1>4 DEF Await, Published, TypeOK
  <2>2. \A l \in Workers : done[l] = state.epoch
    BY <1>4, <2>1 DEF Await, Finished, OwnerOK
  <2>3. UNCHANGED <<shared, local, owner, ran>>
    BY <1>4 DEF Await
  <2>4. \A l \in Workers : WorkerOK(l)'
    BY <2>1, <2>2, <2>3 DEF LanesInv, WorkerOK
  <2> QED
    BY <2>1, <2>4 DEF LanesInv
<1>5. CASE Destroy
  <2>1. /\ ~Published /\ ~Published' /\ pc'[0] = "stopping" /\ stop'
        /\ \A l \in Workers : pc'[l] = pc[l]
    BY <1>5 DEF Destroy, Published, TypeOK
  <2>2. \A l \in Workers : WorkerOK(l)'
    BY <2>1 DEF LanesInv, WorkerOK, OwnerOK
  <2> QED
    BY <2>1, <2>2 DEF LanesInv
<1>6. CASE PublishStop
  <2>1. /\ ~Published /\ ~Published' /\ pc'[0] = "wake" /\ stop /\ stop'
        /\ \A l \in Workers : pc'[l] = pc[l]
    BY <1>6 DEF PublishStop, Published, OwnerOK, TypeOK
  <2>2. \A l \in Workers : WorkerOK(l)'
    BY <2>1 DEF LanesInv, WorkerOK
  <2> QED
    BY <2>1, <2>2 DEF LanesInv
<1>7. CASE Join
  <2>1. /\ ~Published /\ ~Published' /\ pc'[0] = "destroyed" /\ stop /\ stop'
        /\ \A l \in Workers : pc'[l] = pc[l]
    BY <1>7 DEF Join, Published, OwnerOK, TypeOK
  <2>2. \A l \in Workers : WorkerOK(l)'
    BY <2>1 DEF LanesInv, WorkerOK
  <2> QED
    BY <2>1, <2>2 DEF LanesInv
<1> QED
  BY <1>1, <1>2, <1>3, <1>4, <1>5, <1>6, <1>7 DEF OwnerStep

(* Every step of work() keeps the invariant of run_lanes(),                *)
LEMMA LanesWorker ==
  ASSUME TypeOK, TypeOK', OwnerOK, LanesInv, NEW l \in Workers, WorkerStep(l)
  PROVE  LanesInv'
<1> USE LaneFacts DEF Goto, shared, local, owner
<1>1. UNCHANGED <<shared, claim, owner, ran>>
  BY DEF WorkerStep, SeeBatch, SeeNothing, Wait, CheckStop
<1>2. \A m \in Lanes : m # l => pc'[m] = pc[m] /\ seen'[m] = seen[m]
  BY DEF WorkerStep, SeeBatch, SeeNothing, Wait, CheckStop, TypeOK
<1>3. pc'[0] = pc[0] /\ seen'[0] = seen[0] /\ (Published' <=> Published)
  BY <1>2 DEF Published
<1>4. ASSUME NEW m \in Workers, m # l PROVE WorkerOK(m)'
  <2>1. WorkerOK(m) /\ pc'[m] = pc[m] /\ seen'[m] = seen[m]
    BY <1>2, <1>4 DEF LanesInv
  <2>2. done' = done /\ ran' = ran /\ state' = state /\ stop' = stop
    BY <1>1
  <2> QED
    BY <1>3, <2>1, <2>2 DEF WorkerOK
<1>5. WorkerOK(l)'
  <2>1. WorkerOK(l) /\ (Published => ~stop)
    BY DEF LanesInv
  <2>2. CASE SeeBatch(l)
    <3>1. pc[l] = "load" /\ pc'[l] = "check stop" /\ seen[l] # state.epoch /\ seen'[l] = state.epoch
      BY <2>2 DEF SeeBatch, TypeOK
    <3> QED
      BY <1>1, <1>3, <2>1, <3>1 DEF WorkerOK, Resting
  <2>3. CASE SeeNothing(l)
    <3>1. pc[l] = "load" /\ pc'[l] = "wait" /\ seen' = seen
      BY <2>3 DEF SeeNothing, TypeOK
    <3> QED
      BY <1>1, <1>3, <2>1, <3>1 DEF WorkerOK, Resting
  <2>4. CASE Wait(l)
    <3>1. pc[l] \in {"wait", "woken"} /\ pc'[l] \in {"load", "asleep"} /\ seen' = seen
      BY <2>4 DEF Wait, TypeOK
    <3> QED
      BY <1>1, <1>3, <2>1, <3>1 DEF WorkerOK, Resting
  <2>5. CASE CheckStop(l)
    <3>1. /\ pc[l] = "check stop" /\ pc'[l] = (IF stop THEN "exited" ELSE "take") /\ seen' = seen
      BY <2>5 DEF CheckStop, TypeOK
    <3> QED
      BY <1>1, <1>3, <2>1, <3>1 DEF WorkerOK, Resting
  <2> QED
    BY <2>2, <2>3, <2>4, <2>5 DEF WorkerStep
<1> QED
  BY <1>1, <1>3, <1>4, <1>5 DEF LanesInv

(* and so does every step of take().                                       *)
LEMMA LanesLane ==
  ASSUME TypeOK, TypeOK', OwnerOK, LanesInv, NEW l \in Lanes, LaneStep(l)
  PROVE  LanesInv'
<1> USE LaneFacts DEF Goto, TakeReturns, shared, local, owner
<1>1. TakeBegin(l) \/ CheckBatch(l) \/ RunPinned(l) \/ StoreDone(l)
  BY LanesPoints DEF LaneStep, NextClaim, Claim, ClaimFails, LoadBody, RunItem, Complete, Reload
<1>2. /\ UNCHANGED <<state, completed, chunk, pinned, body, stop, seen, owner>>
      /\ \A m \in Lanes : m # l => pc'[m] = pc[m] /\ done'[m] = done[m]
  BY <1>1 DEF TakeBegin, CheckBatch, RunPinned, StoreDone, TypeOK
<1>3. pc[l] \in {"take", "check batch", "pinned body", "pinned end"}
  BY <1>1 DEF TakeBegin, CheckBatch, RunPinned, StoreDone
<1>4. Published /\ seen[l] = state.epoch
  BY <1>3 DEF LanesInv, WorkerOK, Resting, Published
<1>5. pinned /\ body = calls /\ batch.count = LaneCount
  BY <1>4 DEF LanesInv
<1>6. \/ pc[l] = "take" /\ pc'[l] = "check batch" /\ done'[l] = done[l] /\ ran' = ran
      \/ pc[l] = "check batch" /\ pc'[l] = "pinned body" /\ done'[l] = done[l] /\ ran' = ran
      \/ /\ pc[l] = "pinned body" /\ pc'[l] = "pinned end" /\ done'[l] = done[l]
         /\ \A i \in Items : ran'[i] = IF i = l THEN ran[i] + 1 ELSE ran[i]
      \/ /\ pc[l] = "pinned end" /\ pc'[l] = (IF l = 0 THEN "await" ELSE "load")
         /\ done'[l] = state.epoch /\ ran' = ran
  <2>1. CASE TakeBegin(l)
    BY <1>5, <2>1 DEF TakeBegin, TypeOK
  <2>2. CASE CheckBatch(l)
    BY <1>4, <2>2 DEF CheckBatch, TypeOK
  <2>3. CASE RunPinned(l)
    BY <1>5, <2>3, ExecutedRan DEF RunPinned, TypeOK
  <2>4. CASE StoreDone(l)
    BY <1>4, <2>4 DEF StoreDone, TypeOK
  <2> QED
    BY <1>1, <2>1, <2>2, <2>3, <2>4
<1>7. Published' /\ pc'[0] # "prepare"
  BY <1>2, <1>4, <1>6 DEF Published
<1>8. \A i \in Items : i # l => ran'[i] = ran[i]
  BY <1>6
<1>9. Lanes \subseteq Items
  BY ItemFacts
<1>10. ASSUME NEW m \in Workers PROVE WorkerOK(m)'
  <2>1. WorkerOK(m)
    BY DEF LanesInv
  <2>2. CASE m # l
    BY <1>2, <1>4, <1>7, <1>8, <1>9, <2>1, <2>2 DEF WorkerOK
  <2>3. CASE m = l
    <3>1. ran[l] \in Nat /\ pc'[l] # "await"
      BY <1>6, <1>9, <2>3 DEF TypeOK
    <3>2. ran'[l] = IF pc[l] = "pinned body" THEN ran[l] + 1 ELSE ran[l]
      BY <1>6, <1>9
    <3>3. ran[l] = IF pc[l] = "pinned end" THEN 1 ELSE 0
      BY <1>3, <1>4, <2>1, <2>3 DEF WorkerOK, Resting
    <3>4. ran'[l] = IF pc[l] \in {"pinned body", "pinned end"} THEN 1 ELSE 0
      <4>1. CASE pc[l] = "pinned body"
        <5>1. ran[l] = 0 /\ ran'[l] = ran[l] + 1
          BY <3>2, <3>3, <4>1
        <5>2. 0 + 1 = 1
          BY SMT
        <5>3. ran'[l] = 1
          BY <5>1, <5>2, Zenon
        <5> QED
          BY <4>1, <5>3
      <4>2. CASE pc[l] # "pinned body"
        BY <3>2, <3>3, <4>2
      <4> QED
        BY <4>1, <4>2
    <3>5. done[l] # state.epoch
      BY <1>3, <1>4, <2>1, <2>3 DEF WorkerOK, Resting
    <3> QED
      BY <1>2, <1>4, <1>6, <1>7, <2>3, <3>4, <3>5 DEF WorkerOK, Resting
  <2> QED
    BY <2>2, <2>3
<1>11. /\ pc'[0] \in {"notify", "await", "take", "check batch", "pinned body", "pinned end"}
       /\ ran'[0] = IF pc'[0] \in {"pinned end", "await"} THEN 1 ELSE 0
  <2>1. /\ pc[0] \in {"notify", "await", "take", "check batch", "pinned body", "pinned end"}
        /\ ran[0] = IF pc[0] \in {"pinned end", "await"} THEN 1 ELSE 0
    BY <1>4 DEF LanesInv
  <2>2. CASE l # 0
    BY <1>2, <1>8, <1>9, <2>1, <2>2
  <2>3. CASE l = 0
    <3>1. ran[0] \in Nat /\ 0 \in Items
      BY <1>9 DEF TypeOK
    <3>2. ran'[0] = IF pc[0] = "pinned body" THEN ran[0] + 1 ELSE ran[0]
      BY <1>6, <2>3, <3>1
    <3>3. ran[0] = IF pc[0] = "pinned end" THEN 1 ELSE 0
      BY <1>3, <2>1, <2>3
    <3>4. pc[0] = "pinned body" => ran'[0] = 1
      <4>1. pc[0] = "pinned body" => ran[0] = 0 /\ ran'[0] = ran[0] + 1
        BY <3>2, <3>3
      <4>2. 0 + 1 = 1
        BY SMT
      <4> QED
        BY <4>1, <4>2, Zenon
    <3> QED
      BY <1>3, <1>6, <2>3, <3>2, <3>3, <3>4
  <2> QED
    BY <2>2, <2>3
<1>12. \A i \in Items \ Lanes : ran'[i] = 0
  BY <1>4, <1>8 DEF LanesInv
<1>13. seen'[0] = state'.epoch /\ pinned' /\ body' = calls' /\ ~stop' /\ batch'.count = LaneCount
  BY <1>2, <1>4 DEF LanesInv
<1> QED
  BY <1>7, <1>10, <1>11, <1>12, <1>13 DEF LanesInv

-----------------------------------------------------------------------------
(* A call starts with no item run.                                         *)
LEMMA OwnerCall ==
  ASSUME TypeOK, TypeOK', OwnerOK, NEW mode, NEW count, NEW stores, Call(mode, count, stores)
  PROVE  OwnerOK'
<1> USE LaneFacts DEF Goto, shared, local
<1>1. pc'[0] = "prepare" /\ \A l \in Workers : pc'[l] = pc[l]
  BY DEF Call, TypeOK
<1>2. ~Published'
  BY <1>1 DEF Published
<1>3. \A i \in Items : ran'[i] = 0
  BY DEF Call
<1>4. calls' # 0 /\ ~stop'
  <2>1. calls \in Nat /\ calls' = calls + 1
    BY DEF Call, TypeOK
  <2>2. ~stop /\ stop' = stop
    BY DEF Call, OwnerOK
  <2> QED
    BY <2>1, <2>2, SMT
<1>5. \A i \in Items : ran'[i] <= 1
  BY <1>3, SMT
<1> QED
  BY <1>1, <1>2, <1>3, <1>4, <1>5 DEF OwnerOK

(* run() starts from the invariant of its own kind,                        *)
LEMMA RunCall ==
  ASSUME ~MixesModes, PoolInv, TypeOK', NEW count \in Counts, Run(count)
  PROVE  PoolInv'
<1> USE LaneFacts DEF Goto, shared, local
<1>1. /\ pc[0] = "idle" /\ pc'[0] = "prepare" /\ \A l \in Lanes : l # 0 => pc'[l] = pc[l]
      /\ batch' = [mode |-> "run", count |-> count, stores |-> Stores]
      /\ UNCHANGED <<state, completed, pinned, body, word, claim>>
  BY DEF Run, Call, PoolInv, TypeOK
<1>2. RunInv /\ TypeOK
  BY DEF Run, Call, PoolInv, OwnerOK
<1>3. ~Published /\ ~Published'
  BY <1>1 DEF Published
<1>4. \A l \in Lanes : ~InFlight(l) /\ ~InFlight(l)'
  BY <1>1, <1>2, <1>3 DEF RunInv, ClaimOK, InFlight
<1>5. \A l \in Lanes : ClaimOK(l)' /\ pc'[l] \notin {"check batch", "pinned body", "pinned end"}
  BY <1>1, <1>2, <1>4 DEF RunInv, ClaimOK, InFlight
<1>6. "body" \in batch'.stores /\ "completed" \in batch'.stores
  BY <1>1 DEF Stores
<1>7. RunInv'
  BY <1>1, <1>2, <1>3, <1>4, <1>5, <1>6 DEF RunInv
<1>8. OwnerOK'
  BY OwnerCall DEF Run, PoolInv
<1>9. calls' # 0 /\ batch'.mode = "run"
  BY <1>1, <1>8 DEF OwnerOK
<1> QED
  BY <1>7, <1>8, <1>9 DEF PoolInv

(* and so does run_lanes().                                                *)
LEMMA LanesCall ==
  ASSUME ~MixesModes, PoolInv, TypeOK', RunLanes
  PROVE  PoolInv'
<1> USE LaneFacts DEF Goto, shared, local
<1>1. /\ pc[0] = "idle" /\ pc'[0] = "prepare" /\ \A l \in Lanes : l # 0 => pc'[l] = pc[l]
      /\ batch' = [mode |-> "run_lanes", count |-> LaneCount, stores |-> Stores \ {"chunk"}]
      /\ UNCHANGED <<state, done, stop, seen>>
  BY DEF RunLanes, Call, PoolInv, TypeOK
<1>2. LanesInv
  BY DEF RunLanes, Call, PoolInv
<1>3. ~Published /\ ~Published'
  BY <1>1 DEF Published
<1>4. \A l \in Workers : WorkerOK(l)'
  BY <1>1, <1>2, <1>3 DEF LanesInv, WorkerOK
<1>5. "pinned" \in batch'.stores /\ "body" \in batch'.stores /\ batch'.count = LaneCount
  BY <1>1 DEF Stores
<1>6. LanesInv'
  BY <1>3, <1>4, <1>5 DEF LanesInv
<1>7. OwnerOK'
  BY OwnerCall DEF RunLanes, PoolInv
<1>8. batch'.mode = "run_lanes"
  BY <1>1
<1> QED
  BY <1>6, <1>7, <1>8 DEF PoolInv

(* The caller returns only when every item has run once.                   *)
LEMMA OwnerOwner ==
  ASSUME PoolInv, TypeOK', OwnerStep \/ Destroy
  PROVE  OwnerOK'
<1> USE LaneFacts DEF Goto, shared, local, owner
<1>0. TypeOK /\ OwnerOK
  BY DEF PoolInv
<1>1. ASSUME NEW s \in Stores, Store(s) PROVE OwnerOK'
  <2>1. UNCHANGED <<stop, pc, calls, ran>> /\ pc[0] = "prepare"
    BY <1>1 DEF Store
  <2> QED
    BY <1>0, <2>1 DEF OwnerOK, Published
<1>2. CASE Publish
  <2>1. UNCHANGED <<stop, batch, calls, ran>> /\ pc[0] = "prepare" /\ pc'[0] = "notify"
        /\ \A l \in Workers : pc'[l] = pc[l]
    BY <1>0, <1>2 DEF Publish, TypeOK
  <2> QED
    BY <1>0, <2>1 DEF OwnerOK, Published
<1>3. CASE Notify
  <2>1. /\ UNCHANGED <<stop, batch, calls, ran>>
        /\ (pc[0] = "notify" /\ pc'[0] = "take") \/ (pc[0] = "wake" /\ pc'[0] = "join")
        /\ \A l \in Workers : pc'[l] = pc[l] \/ pc'[l] = "woken"
    BY <1>0, <1>3 DEF Notify
  <2> QED
    BY <1>0, <2>1 DEF OwnerOK, Published
<1>4. CASE Await
  <2>1. /\ UNCHANGED <<stop, batch, calls, ran, state>> /\ pc[0] = "await" /\ pc'[0] = "idle"
        /\ \A l \in Workers : pc'[l] = pc[l]
    BY <1>0, <1>4 DEF Await, TypeOK
  <2>2. Published /\ calls # 0 /\ batch.mode \in {"run", "run_lanes"}
    BY <1>0, <2>1 DEF Published, OwnerOK, TypeOK
  <2>3. /\ \A i \in Items : ran[i] <= 1
        /\ \A i \in 0 .. batch.count - 1 : ran[i] = 1
    <3>1. CASE batch.mode = "run"
      <4>1. RunInv /\ completed = batch.count
        BY <1>4, <3>1 DEF Await, Finished, PoolInv
      <4>2. Settled = 0 .. batch.count - 1 /\ state.item = batch.count
        BY <1>0, <2>2, <4>1, SettledAll
      <4>3. RunCounts
        BY <2>2, <4>1 DEF RunInv
      <4>4. ASSUME NEW i \in Items PROVE ran[i] <= 1
        <5>1. i \in Nat /\ batch.count \in Nat
          BY <1>0, ConstantsAssumption, ItemFacts, SMT DEF Items, Lanes
        <5>2. i \in Settled \/ state.item <= i
          BY <4>2, <5>1, SMT
        <5>3. ran[i] = 1 \/ ran[i] = 0
          BY <4>3, <5>2 DEF RunCounts
        <5> QED
          BY <5>3, SMT
      <4> QED
        BY <4>2, <4>3, <4>4 DEF RunCounts
    <3>2. CASE batch.mode = "run_lanes"
      <4>1. LanesInv /\ \A l \in Workers : done[l] = state.epoch
        BY <1>4, <3>2 DEF Await, Finished, PoolInv
      <4>2. \A l \in Lanes : ran[l] = 1
        BY <2>1, <2>2, <4>1 DEF LanesInv, WorkerOK
      <4>3. \A i \in Items : i \notin Lanes => ran[i] = 0
        BY <2>2, <4>1 DEF LanesInv
      <4>4. 0 .. batch.count - 1 = Lanes
        BY <2>2, <4>1 DEF LanesInv, Lanes
      <4>5. ASSUME NEW i \in Items PROVE ran[i] <= 1
        <5>1. ran[i] = 1 \/ ran[i] = 0
          BY <4>2, <4>3
        <5> QED
          BY <5>1, SMT
      <4> QED
        BY <4>2, <4>4, <4>5
    <3> QED
      BY <2>2, <3>1, <3>2
  <2>4. ~stop
    BY <1>0, <2>2 DEF OwnerOK
  <2> QED
    BY <1>0, <2>1, <2>2, <2>3, <2>4 DEF OwnerOK, Published
<1>5. CASE Destroy \/ PublishStop \/ Join
  <2>1. /\ UNCHANGED <<batch, calls, ran>> /\ stop'
        /\ pc[0] \in {"idle", "stopping", "join"} /\ pc'[0] \in {"stopping", "wake", "destroyed"}
        /\ \A l \in Workers : pc'[l] = pc[l]
    BY <1>0, <1>5 DEF Destroy, PublishStop, Join, TypeOK, OwnerOK
  <2> QED
    BY <1>0, <2>1 DEF OwnerOK, Published
<1> QED
  BY <1>1, <1>2, <1>3, <1>4, <1>5 DEF OwnerStep

(* Between batches no lane runs a body.                                    *)
LEMMA OwnerLanes ==
  ASSUME PoolInv, TypeOK',
         \/ \E l \in Lanes : LaneStep(l)
         \/ \E l \in Workers : WorkerStep(l)
  PROVE  OwnerOK'
<1> USE LaneFacts DEF Goto, TakeReturns, shared, local, owner
<1>0. TypeOK /\ OwnerOK
  BY DEF PoolInv
<1>1. UNCHANGED <<stop, batch, calls>>
  BY DEF LaneStep, WorkerStep, SeeBatch, SeeNothing, Wait, CheckStop, TakeBegin, CheckBatch, RunPinned,
         StoreDone, NextClaim, Claim, ClaimFails, LoadBody, RunItem, Complete, Reload
<1>2. ASSUME NEW l \in Lanes, LaneStep(l)
      PROVE  OwnerOK'
  <2>1. /\ \A m \in Lanes : m # l => pc'[m] = pc[m]
        /\ pc[l] \in {"take", "check batch", "pinned body", "pinned end",
                      "items", "claim", "load body", "body", "reload"}
        /\ pc'[l] \in {"take", "check batch", "pinned body", "pinned end", "items", "claim",
                       "load body", "body", "reload", IF l = 0 THEN "await" ELSE "load"}
    <3>1. \/ UNCHANGED pc
          \/ \E t \in {"take", "check batch", "pinned body", "pinned end", "items", "claim",
                       "load body", "body", "reload", IF l = 0 THEN "await" ELSE "load"} :
               pc' = [pc EXCEPT ![l] = t]
      BY <1>2 DEF LaneStep, TakeBegin, CheckBatch, RunPinned, StoreDone, NextClaim, Claim,
                  ClaimFails, LoadBody, RunItem, Complete, Reload
    <3>2. pc[l] \in {"take", "check batch", "pinned body", "pinned end",
                     "items", "claim", "load body", "body", "reload"}
      BY <1>2 DEF LaneStep, TakeBegin, CheckBatch, RunPinned, StoreDone, NextClaim, Claim,
                  ClaimFails, LoadBody, RunItem, Complete, Reload
    <3>3. pc \in [Lanes -> Points]
      BY <1>0 DEF TypeOK
    <3> QED
      BY <3>1, <3>2, <3>3
  <2>2. /\ Published' <=> Published
        /\ ~Published => pc'[0] = pc[0]
    BY <2>1 DEF Published
  <2>3. ~Published => ran' = ran
    <3> SUFFICES ASSUME ~Published PROVE ran' = ran
      OBVIOUS
    <3>1. batch.mode \in {"run", "run_lanes"}
      BY <1>0 DEF TypeOK
    <3>2. CASE batch.mode = "run"
      <4>1. pc[l] \notin {"pinned body", "body"}
        BY <3>2 DEF PoolInv, RunInv, ClaimOK, InFlight
      <4> QED
        BY <1>2, <4>1 DEF LaneStep, TakeBegin, CheckBatch, RunPinned, StoreDone, NextClaim, Claim,
                          ClaimFails, LoadBody, RunItem, Complete, Reload
    <3>3. CASE batch.mode = "run_lanes"
      <4>1. pc[l] \notin {"pinned body", "body"}
        BY <3>3 DEF PoolInv, LanesInv, WorkerOK, Resting, Published
      <4> QED
        BY <1>2, <4>1 DEF LaneStep, TakeBegin, CheckBatch, RunPinned, StoreDone, NextClaim, Claim,
                          ClaimFails, LoadBody, RunItem, Complete, Reload
    <3> QED
      BY <3>1, <3>2, <3>3
  <2>4. /\ pc'[0] \in {"idle", "prepare", "stopping", "wake", "join", "destroyed"} => ~Published
        /\ pc'[0] \notin {"load", "wait", "asleep", "woken", "check stop", "exited"}
    BY <1>0, <2>1, <2>2 DEF Published, OwnerOK
  <2>5. \A m \in Workers : pc'[m] \notin {"idle", "prepare", "notify", "await", "stopping", "wake",
                                         "join", "destroyed"}
    BY <1>0, <2>1 DEF OwnerOK
  <2> QED
    BY <1>0, <1>1, <2>2, <2>3, <2>4, <2>5 DEF OwnerOK
<1>3. ASSUME NEW l \in Workers, WorkerStep(l)
      PROVE  OwnerOK'
  <2>1. /\ \A m \in Lanes : m # l => pc'[m] = pc[m]
        /\ pc'[l] \in {"check stop", "wait", "asleep", "load", "exited", "take"}
        /\ ran' = ran
    <3>1. pc \in [Lanes -> Points]
      BY <1>0 DEF TypeOK
    <3>2. CASE SeeBatch(l)
      BY <3>1, <3>2 DEF SeeBatch
    <3>3. CASE SeeNothing(l)
      BY <3>1, <3>3 DEF SeeNothing
    <3>4. CASE Wait(l)
      BY <3>1, <3>4 DEF Wait
    <3>5. CASE CheckStop(l)
      BY <3>1, <3>5 DEF CheckStop
    <3> QED
      BY <1>3, <3>2, <3>3, <3>4, <3>5 DEF WorkerStep
  <2>2. pc'[0] = pc[0]
    BY <2>1
  <2> QED
    BY <1>0, <1>1, <2>1, <2>2 DEF OwnerOK, Published
<1> QED
  BY <1>2, <1>3

(* Every step keeps the invariant.                                         *)
LEMMA PoolKept ==
  ASSUME ~MixesModes, PoolInv, [Next]_vars
  PROVE  PoolInv'
<1>0. TypeOK /\ OwnerOK
  BY DEF PoolInv
<1>1. ASSUME NEW n \in Counts, Run(n) PROVE PoolInv'
  BY <1>0, <1>1, CallTyped, RunCall DEF Run
<1>2. CASE RunLanes
  BY <1>0, <1>2, CallTyped, LanesCall DEF RunLanes
<1>3. CASE Destroy \/ OwnerStep
  <2>1. TypeOK' /\ UNCHANGED calls /\ batch'.mode = batch.mode
    BY <1>0, <1>3, OwnerTyped
       DEF Destroy, OwnerStep, Store, Publish, Notify, Await, PublishStop, Join, owner, TypeOK
  <2>2. OwnerOK'
    BY <1>3, <2>1, OwnerOwner
  <2>3. batch.mode = "run" => RunInv'
    BY <1>0, <1>3, <2>1, RunOwner DEF PoolInv
  <2>4. batch.mode = "run_lanes" \/ calls = 0 => LanesInv'
    BY <1>0, <1>3, <2>1, LanesOwner DEF PoolInv
  <2> QED
    BY <2>1, <2>2, <2>3, <2>4 DEF PoolInv
<1>4. ASSUME NEW l \in Lanes, LaneStep(l) PROVE PoolInv'
  <2>1. TypeOK'
    BY <1>0, <1>4, LaneTyped
  <2>2. OwnerOK'
    BY <1>4, <2>1, OwnerLanes
  <2>3. batch.mode = "run" => RunInv'
    BY <1>0, <1>4, <2>1, RunLane DEF PoolInv
  <2>4. batch.mode = "run_lanes" \/ calls = 0 => LanesInv'
    BY <1>0, <1>4, <2>1, LanesLane DEF PoolInv
  <2>5. UNCHANGED <<batch, calls>>
    BY <1>4 DEF LaneStep, TakeBegin, CheckBatch, RunPinned, StoreDone, NextClaim, Claim, ClaimFails,
                LoadBody, RunItem, Complete, Reload, owner
  <2> QED
    BY <2>1, <2>2, <2>3, <2>4, <2>5 DEF PoolInv
<1>5. ASSUME NEW l \in Workers, WorkerStep(l) PROVE PoolInv'
  <2>1. TypeOK'
    BY <1>0, <1>5, WorkerTyped
  <2>2. OwnerOK'
    BY <1>5, <2>1, OwnerLanes
  <2>3. batch.mode = "run" => RunInv'
    BY <1>0, <1>5, <2>1, RunWorker DEF PoolInv
  <2>4. batch.mode = "run_lanes" \/ calls = 0 => LanesInv'
    BY <1>0, <1>5, <2>1, LanesWorker DEF PoolInv
  <2>5. UNCHANGED <<batch, calls>>
    BY <1>5 DEF WorkerStep, SeeBatch, SeeNothing, Wait, CheckStop, owner
  <2> QED
    BY <2>1, <2>2, <2>3, <2>4, <2>5 DEF PoolInv
<1>6. CASE UNCHANGED vars
  <2> USE <1>6 DEF vars, shared, local, owner
  <2>1. TypeOK' <=> TypeOK
    BY DEF TypeOK
  <2>2. Published' <=> Published
    BY DEF Published
  <2>3. OwnerOK' <=> OwnerOK
    BY <2>2 DEF OwnerOK
  <2>4. /\ \A l \in Lanes : (InFlight(l)' <=> InFlight(l)) /\ Held(l)' = Held(l)
        /\ Settled' = Settled
    BY DEF InFlight, Held, Settled
  <2>5. \A l \in Lanes : ClaimOK(l)' <=> ClaimOK(l)
    BY <2>2, <2>4 DEF ClaimOK
  <2>6. RunCounts' <=> RunCounts
    BY <2>4 DEF RunCounts
  <2>7. RunInv' <=> RunInv
    BY <2>2, <2>4, <2>5, <2>6 DEF RunInv
  <2>8. \A l \in Lanes : WorkerOK(l)' <=> WorkerOK(l)
    BY <2>2 DEF WorkerOK
  <2>9. LanesInv' <=> LanesInv
    BY <2>2, <2>8, LaneFacts DEF LanesInv
  <2> QED
    BY <2>1, <2>3, <2>7, <2>9 DEF PoolInv
<1> QED
  BY <1>1, <1>2, <1>3, <1>4, <1>5, <1>6 DEF Next

(* The invariant implies the promise of the pool.                          *)
LEMMA PoolInvImplies == PoolInv => RunsOnceEach
<1> SUFFICES ASSUME PoolInv PROVE RunsOnceEach
  OBVIOUS
<1>0. TypeOK /\ OwnerOK /\ batch.mode \in {"run", "run_lanes"}
  BY DEF PoolInv, TypeOK
<1>1. ASSUME NEW i \in Items PROVE ran[i] <= 1
  <2>1. CASE ~Published
    BY <1>0, <2>1 DEF OwnerOK
  <2>2. CASE Published /\ batch.mode = "run"
    <3>1. RunCounts
      BY <2>2 DEF PoolInv, RunInv
    <3>2. i \in Nat /\ state.item \in Nat
      BY <1>0, ConstantsAssumption, SMT DEF Items, Lanes, TypeOK, Word
    <3>3. \/ state.item <= i \/ i \in Settled
          \/ \E l \in Lanes : InFlight(l) /\ i \in Held(l)
      BY <3>2, SMT DEF Settled
    <3>4. ran[i] = 0 \/ ran[i] = 1
      BY <3>1, <3>3 DEF RunCounts
    <3> QED
      BY <3>4, SMT
  <2>3. CASE Published /\ batch.mode = "run_lanes"
    <3>1. i \in Items \ Lanes \/ i = 0 \/ i \in Workers
      BY LaneFacts
    <3>2. ran[i] = 0 \/ ran[i] = 1
      BY <2>3, <3>1 DEF PoolInv, LanesInv, WorkerOK
    <3> QED
      BY <3>2, SMT
  <2> QED
    BY <1>0, <2>1, <2>2, <2>3
<1> QED
  BY <1>0, <1>1 DEF RunsOnceEach, OwnerOK

(* KernelPool::run and run_lanes, for any number of lanes, any item counts, *)
(* any chunk size and any number of batches, the wrap of the batch number  *)
(* included: no item of a call runs twice, and each has run once when the  *)
(* call returns.  The hypothesis is what the owners of pools do: one owner *)
(* makes one kind of call.                                                 *)
THEOREM EachItemRunsOnce ==
  ASSUME ~MixesModes
  PROVE  Spec => []RunsOnceEach
<1>1. Init => PoolInv
  BY InitKept
<1>2. PoolInv /\ [Next]_vars => PoolInv'
  BY PoolKept
<1>3. PoolInv => RunsOnceEach
  BY PoolInvImplies
<1> QED
  BY <1>1, <1>2, <1>3, PTL DEF Spec
=============================================================================
