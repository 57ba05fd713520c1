-------------------------- MODULE SimirWaitProofs ---------------------------
(***************************************************************************)
(* The semaphore of the SimIR interpreter is fair, and the wakes of its    *)
(* processes are neither lost nor misdirected.                             *)
(*                                                                         *)
(* SemaphoreInv adds to SemaphoreFair only the types and that whoever      *)
(* waits exists: a grant takes live waiters from the front as long as      *)
(* there are keys, so that the first live one left asks for more than      *)
(* there are. That a process is stranded is refuted by WaitInv of module   *)
(* SimirProcessProofs, kept here through the steps of the mailbox, the     *)
(* semaphore and the event.                                                *)
(***************************************************************************)
EXTENDS SimirProcessProofs, WellFoundedInduction

Waiters == [process : Processes, keys : Nat]

(* The shape of the semaphore; whoever waits at it exists.                 *)
SemaphoreInv ==
  /\ keys \in Int
  /\ waiters \in Seq(Waiters)
  /\ \A i \in 1 .. Len(waiters) : waiters[i].process \in Born
  /\ SemaphoreFair

-----------------------------------------------------------------------------

(* A leaf without arithmetic is Zenon's; the others cite SMT.              *)
USE Zenon

(* A set of positions that is not empty has a least element, which Least   *)
(* is.                                                                     *)
LEMMA LeastPosition ==
  ASSUME NEW S \in SUBSET Nat, S # {}, NEW default
  PROVE  /\ Least(S, default) \in S
         /\ \A j \in S : Least(S, default) <= j
<1> DEFINE R == OpToRel(<, Nat)
<1>1. IsWellFoundedOn(R, Nat)
  BY NatLessThanWellFounded
<1>2. \A x, y \in Nat : y < x => <<y, x>> \in R
  BY DEF OpToRel
<1> HIDE DEF R
<1>3. PICK x \in S : \A y \in S : ~(<<y, x>> \in R)
  BY <1>1, WFMin
<1>4. \A y \in S : ~(y < x)
  BY <1>2, <1>3
<1>5. \A y \in S : x <= y
  BY <1>4, SMT
<1>6. Least(S, default) = CHOOSE i \in S : \A j \in S : i <= j
  BY DEF Least
<1>7. QED
  BY <1>5, <1>6, Zenon

(* Sums over the queue exist: were there a first position up to which none *)
(* exists, the sum up to the position before would extend to it.           *)
LEMMA DemandSteps ==
  ASSUME SemaphoreInv
  PROVE  /\ Demand(0) = 0
         /\ \A i \in 1 .. Len(waiters) :
              Demand(i) = Demand(i - 1) + IF waiters[i].process \in Live THEN waiters[i].keys ELSE 0
         /\ \A i \in 0 .. Len(waiters) : Demand(i) \in Nat
<1> DEFINE L == Len(waiters)
           d(i) == IF waiters[i].process \in Live THEN waiters[i].keys ELSE 0
           Sums(f, n) == f = [i \in 0 .. n |-> IF i = 0 THEN 0 ELSE f[i - 1] + d(i)]
<1>1. L \in Nat /\ \A i \in 1 .. L : d(i) \in Nat
  <2>1. L \in Nat /\ \A i \in 1 .. L : waiters[i] \in Waiters
    BY SMT DEF SemaphoreInv
  <2> QED
    BY <2>1 DEF Waiters
<1> HIDE DEF L, d
<1>2. ASSUME NEW n \in Nat PROVE \E f : Sums(f, n)
  <2> DEFINE Bad == {m \in Nat : ~\E f : Sums(f, m)}
  <2>1. CASE Bad = {}
    BY <2>1
  <2>2. CASE Bad # {}
    <3>1. PICK m \in Bad : \A k \in Bad : m <= k
      <4> HIDE DEF Bad
      <4>1. Bad \in SUBSET Nat
        BY DEF Bad
      <4> QED
        BY <2>2, <4>1, LeastPosition
    <3>2. CASE m = 0
      <4> DEFINE f == [i \in 0 .. 0 |-> 0]
      <4>1. Sums(f, 0)
        BY SMT
      <4> QED
        BY <3>1, <3>2, <4>1
    <3>3. CASE m > 0
      <4>1. m - 1 \in Nat /\ m - 1 \notin Bad
        <5>1. m \in Nat
          OBVIOUS
        <5> HIDE DEF Bad
        <5> QED
          BY <3>1, <3>3, <5>1, SMT
      <4>2. PICK f : Sums(f, m - 1)
        BY <4>1
      <4> DEFINE g == [i \in 0 .. m |-> IF i = m THEN f[m - 1] + d(m) ELSE f[i]]
      <4>3. m \in Nat /\ DOMAIN f = 0 .. m - 1
        BY <4>2
      <4>4. \A i \in 0 .. m - 1 : g[i] = f[i]
        BY <4>3, SMT
      <4>5. ASSUME NEW i \in 0 .. m PROVE g[i] = IF i = 0 THEN 0 ELSE g[i - 1] + d(i)
        <5>1. CASE i = m
          BY <3>3, <4>3, <4>4, <5>1, SMT
        <5>2. CASE i # m
          <6>1. i \in 0 .. m - 1 /\ (i # 0 => i - 1 \in 0 .. m - 1)
            BY <4>3, <5>2, SMT
          <6>2. f[i] = IF i = 0 THEN 0 ELSE f[i - 1] + d(i)
            BY <4>2, <6>1
          <6> QED
            BY <4>4, <6>1, <6>2
        <5> QED
          BY <5>1, <5>2
      <4>6. Sums(g, m)
        BY <4>5
      <4> QED
        BY <3>1, <4>6
    <3> QED
      BY <3>1, <3>2, <3>3, SMT
  <2> QED
    BY <2>1, <2>2
<1> DEFINE sum == CHOOSE f : Sums(f, L)
<1>3. Sums(sum, L)
  BY <1>1, <1>2
<1>4. \A n : Demand(n) = sum[n]
  BY DEF Demand, L, d
<1> HIDE DEF sum
<1>5. \A i \in 0 .. L : sum[i] = IF i = 0 THEN 0 ELSE sum[i - 1] + d(i)
  BY <1>3
<1>6. Demand(0) = 0
  BY <1>1, <1>4, <1>5, SMT
<1>7. \A i \in 1 .. L : Demand(i) = Demand(i - 1) + d(i)
  BY <1>1, <1>4, <1>5, SMT
<1>8. \A i \in 0 .. L : Demand(i) \in Nat
  <2> DEFINE Bad == {m \in 0 .. L : Demand(m) \notin Nat}
  <2>1. ASSUME Bad # {} PROVE FALSE
    <3>1. PICK m \in Bad : \A k \in Bad : m <= k
      <4> HIDE DEF Bad
      <4>1. Bad \in SUBSET Nat
        BY <1>1, SMT DEF Bad
      <4> QED
        BY <2>1, <4>1, LeastPosition
    <3>2. m # 0
      BY <1>6, SMT
    <3>3. m \in 1 .. L /\ m - 1 \in 0 .. L /\ m - 1 \notin Bad
      BY <1>1, <3>1, <3>2, SMT
    <3>4. Demand(m - 1) \in Nat /\ d(m) \in Nat
      BY <1>1, <3>3
    <3> QED
      BY <1>7, <3>1, <3>3, <3>4, SMT
  <2> QED
    BY <2>1
<1> QED
  BY <1>6, <1>7, <1>8 DEF L, d
(* The number of waiters that leave is well defined: the first position at *)
(* which a live waiter asks for too much, or the end of the queue.         *)
LEMMA LeavingDef ==
  ASSUME SemaphoreInv, NEW total \in Int
  PROVE  LET n == Leaving(total)
         IN /\ n \in 0 .. Len(waiters)
            /\ \A i \in 1 .. n : waiters[i].process \in Live => Demand(i) <= total
            /\ n < Len(waiters) => waiters[n + 1].process \in Live /\ Demand(n + 1) > total
<1> DEFINE L == Len(waiters)
           Stops(n) == n < L => waiters[n + 1].process \in Live /\ Demand(n + 1) > total
           S == {n \in 0 .. L : Stops(n)}
<1>1. L \in Nat
  BY SMT DEF SemaphoreInv
<1>2. \A i \in 0 .. L : Demand(i) \in Nat
  BY DemandSteps
<1>3. L \in S
  BY <1>1, SMT
<1>4. PICK n \in S : \A k \in S : n <= k
  <2> HIDE DEF S
  <2>1. S \in SUBSET Nat
    BY <1>1, SMT DEF S
  <2> QED
    BY <1>3, <2>1, LeastPosition
<1>5. ASSUME NEW i \in 1 .. n, waiters[i].process \in Live PROVE Demand(i) <= total
  <2>1. n \in 0 .. L
    OBVIOUS
  <2>2. i \in 1 .. L /\ i - 1 \in 0 .. L /\ i - 1 < n /\ i - 1 < L /\ (i - 1) + 1 = i /\ i \in 0 .. L
    BY <1>1, <2>1, SMT
  <2>3. i - 1 \notin S
    <3> HIDE DEF S
    <3> QED
      BY <1>4, <2>1, <2>2, SMT
  <2>4. ~(Demand(i) > total)
    BY <1>5, <2>2, <2>3
  <2> QED
    BY <1>2, <2>2, <2>4, SMT
<1>6. /\ n \in 0 .. L
      /\ \A i \in 1 .. n : waiters[i].process \in Live => Demand(i) <= total
      /\ n < L => waiters[n + 1].process \in Live /\ Demand(n + 1) > total
  BY <1>5
<1> HIDE DEF S
<1> QED
  BY <1>6, Zenon DEF Leaving

(* What the waiters that leave take is there, or nothing.                  *)
LEMMA DemandMet ==
  ASSUME SemaphoreInv, NEW total \in Int, NEW n \in 0 .. Len(waiters),
         \A i \in 1 .. n : waiters[i].process \in Live => Demand(i) <= total
  PROVE  Demand(n) = 0 \/ Demand(n) <= total
<1> DEFINE L == Len(waiters)
           Bad == {m \in 0 .. n : ~(Demand(m) = 0 \/ Demand(m) <= total)}
<1>1. L \in Nat /\ n \in Nat /\ n <= L
  BY SMT DEF SemaphoreInv
<1>2. ASSUME Bad # {} PROVE FALSE
  <2>1. PICK m \in Bad : \A k \in Bad : m <= k
    <3> HIDE DEF Bad
    <3>1. Bad \in SUBSET Nat
      BY SMT DEF Bad
    <3> QED
      BY <1>2, <3>1, LeastPosition
  <2>2. m # 0 /\ m \in 0 .. n
    BY DemandSteps
  <2>3. m \in 1 .. n /\ m - 1 \in 0 .. n /\ m \in 1 .. L /\ m - 1 \in 0 .. L /\ m \in 0 .. L
    BY <1>1, <2>2, SMT
  <2>4. m - 1 \notin Bad
    <3> HIDE DEF Bad
    <3> QED
      BY <2>1, <2>3, SMT
  <2>5. Demand(m - 1) = 0 \/ Demand(m - 1) <= total
    BY <2>3, <2>4
  <2>6. ~(Demand(m) = 0) /\ ~(Demand(m) <= total)
    OBVIOUS
  <2>7. CASE waiters[m].process \in Live
    BY <2>3, <2>6, <2>7
  <2>8. CASE waiters[m].process \notin Live
    <3>1. Demand(m) = Demand(m - 1) + 0 /\ Demand(m - 1) \in Nat
      BY <2>3, <2>8, DemandSteps
    <3>2. Demand(m) = Demand(m - 1)
      BY <3>1, SMT
    <3> QED
      BY <2>5, <2>6, <3>2
  <2> QED
    BY <2>7, <2>8
<1>3. n \in 0 .. n
  BY <1>1, SMT
<1> QED
  BY <1>2, <1>3

(* A step that leaves the semaphore alone keeps it: a waiter may end, and  *)
(* then it holds up nobody.                                                *)
LEMMA SemaphoreQuiet ==
  ASSUME SemaphoreInv, UNCHANGED semaphoreVars, Born \subseteq Born', halted \subseteq halted'
  PROVE  SemaphoreInv'
<1>1. UNCHANGED <<keys, waiters>>
  BY DEF semaphoreVars
<1>2. \A i \in 1 .. Len(waiters) : waiters[i].process \in Born /\ waiters[i].process \in Born'
  BY DEF SemaphoreInv
<1>3. ASSUME waiters # <<>>, Head(waiters).process \in Live' PROVE Head(waiters).process \in Live
  <2>1. Head(waiters) = waiters[1] /\ 1 \in 1 .. Len(waiters)
    BY <1>3, SMT DEF SemaphoreInv
  <2> QED
    BY <1>2, <1>3, <2>1 DEF Live
<1> QED
  BY <1>1, <1>2, <1>3 DEF SemaphoreInv, SemaphoreFair

(* put keeps the invariant.                                                *)
LEMMA SemaphorePutKeeps ==
  ASSUME SemaphoreInv, FamilyInv, NEW p \in Processes, NEW n \in Requests, SemaphorePut(p, n),
         Born \subseteq Born'
  PROVE  SemaphoreInv'
<1> DEFINE left == Leaving(keys + n)
           L == Len(waiters)
<1>1. n \in Nat /\ keys \in Int /\ keys + n \in Int /\ Keys \in Int /\ L \in Nat
  BY SemaphoreAssumption, SMT DEF SemaphoreInv
<1>2. /\ left \in 0 .. L
      /\ \A i \in 1 .. left : waiters[i].process \in Live => Demand(i) <= keys + n
      /\ left < L => waiters[left + 1].process \in Live /\ Demand(left + 1) > keys + n
  BY <1>1, LeavingDef
<1>3. waiters' = After(waiters, left) /\ keys' = keys + n - Demand(left)
  BY DEF SemaphorePut
<1> HIDE DEF left
<1>4. Demand(left) \in Nat /\ (Demand(left) = 0 \/ Demand(left) <= keys + n)
  BY <1>1, <1>2, DemandMet, DemandSteps
<1>5. keys' \in Int /\ (keys' >= 0 \/ keys' >= Keys)
  <2>1. keys >= 0 \/ keys >= Keys
    BY DEF SemaphoreInv, SemaphoreFair
  <2> QED
    BY <1>1, <1>3, <1>4, <2>1, SMT
<1>6. /\ waiters' \in Seq(Waiters) /\ Len(waiters') = L - left
      /\ \A i \in 1 .. L - left : waiters'[i] = waiters[i + left]
  BY <1>2, <1>3, AfterDef DEF SemaphoreInv
<1>7. \A i \in 1 .. Len(waiters') : waiters'[i].process \in Born'
  <2>1. \A i \in 1 .. L - left : i + left \in 1 .. L
    BY <1>1, <1>2, SMT
  <2> QED
    BY <1>6, <2>1 DEF SemaphoreInv
<1>8. ASSUME waiters' # <<>> PROVE Head(waiters').keys > keys'
  <2>1. Len(waiters') # 0
    BY <1>6, <1>8, SMT
  <2>2. left < L /\ 1 \in 1 .. L - left /\ left + 1 \in 1 .. L /\ (left + 1) - 1 = left /\ 1 + left = left + 1
    BY <1>1, <1>2, <1>6, <2>1, SMT
  <2>3. Head(waiters') = waiters[left + 1]
    BY <1>6, <1>8, <2>2, SMT
  <2>4. Demand(left + 1) = Demand(left) + waiters[left + 1].keys
    BY <1>2, <2>2, DemandSteps
  <2>5. waiters[left + 1].keys \in Nat
    <3>1. waiters[left + 1] \in Waiters
      BY <2>2, SMT DEF SemaphoreInv
    <3> QED
      BY <3>1 DEF Waiters
  <2>6. Demand(left + 1) > keys + n
    BY <1>2, <2>2
  <2>7. Head(waiters').keys = waiters[left + 1].keys
    BY <2>3
  <2> QED
    BY <1>1, <1>3, <1>4, <2>4, <2>5, <2>6, <2>7, SMT
<1> QED
  BY <1>5, <1>6, <1>7, <1>8 DEF SemaphoreInv, SemaphoreFair

(* get keeps it: who finds too few keys waits behind all others.           *)
LEMMA SemaphoreGetKeeps ==
  ASSUME SemaphoreInv, FamilyInv, NEW p \in Processes, NEW n \in Requests, NEW try \in BOOLEAN,
         SemaphoreGet(p, n, try), Born \subseteq Born', halted \subseteq halted'
  PROVE  SemaphoreInv'
<1>1. n \in Nat /\ keys \in Int /\ Keys \in Int /\ Len(waiters) \in Nat /\ p \in Born
  BY SemaphoreAssumption, SMT DEF SemaphoreInv, SemaphoreGet, Executes, Live
<1>2. CASE waiters = <<>> /\ keys >= n
  <2>1. keys' = keys - n /\ waiters' = <<>>
    BY <1>2 DEF SemaphoreGet
  <2>2. keys' \in Int /\ keys' >= 0
    BY <1>1, <1>2, <2>1, SMT
  <2> QED
    BY <2>1, <2>2, SMT DEF SemaphoreInv, SemaphoreFair
<1>3. CASE ~(waiters = <<>> /\ keys >= n) /\ waiters' = waiters
  <2>1. keys' = keys
    BY <1>3 DEF SemaphoreGet
  <2> QED
    BY <1>3, <2>1, SemaphoreQuiet DEF semaphoreVars
<1>4. CASE ~(waiters = <<>> /\ keys >= n) /\ waiters' = Append(waiters, [process |-> p, keys |-> n])
  <2>1. keys' = keys /\ [process |-> p, keys |-> n] \in Waiters
    BY <1>1, <1>4 DEF SemaphoreGet, Waiters
  <2>2. /\ waiters' \in Seq(Waiters) /\ Len(waiters') = Len(waiters) + 1
        /\ \A i \in 1 .. Len(waiters) : waiters'[i] = waiters[i]
        /\ waiters'[Len(waiters) + 1] = [process |-> p, keys |-> n]
    BY <1>4, <2>1, SMT DEF SemaphoreInv
  <2>3. ASSUME NEW i \in 1 .. Len(waiters') PROVE waiters'[i].process \in Born'
    <3>1. CASE i = Len(waiters) + 1
      BY <1>1, <2>2, <3>1, SMT
    <3>2. CASE i # Len(waiters) + 1
      <4>1. i \in 1 .. Len(waiters)
        BY <1>1, <2>2, <3>2, SMT
      <4> QED
        BY <2>2, <4>1 DEF SemaphoreInv
    <3> QED
      BY <3>1, <3>2
  <2>4. ASSUME Head(waiters').process \in Live' PROVE Head(waiters').keys > keys'
    <3>1. Head(waiters') = waiters'[1]
      BY <1>1, <2>2, SMT
    <3>2. CASE waiters = <<>>
      <4>1. Head(waiters').keys = n /\ ~(keys >= n)
        BY <1>4, <2>2, <3>1, <3>2, SMT
      <4> QED
        BY <1>1, <2>1, <4>1, SMT
    <3>3. CASE waiters # <<>>
      <4>1. 1 \in 1 .. Len(waiters) /\ Head(waiters) = waiters[1]
        BY <3>3, SMT DEF SemaphoreInv
      <4>2. Head(waiters') = Head(waiters) /\ Head(waiters).process \in Born
        BY <2>2, <3>1, <4>1 DEF SemaphoreInv
      <4>3. Head(waiters).process \in Live
        BY <2>4, <4>2 DEF Live
      <4> QED
        BY <2>1, <3>3, <4>2, <4>3 DEF SemaphoreInv, SemaphoreFair
    <3> QED
      BY <3>2, <3>3
  <2> QED
    BY <2>1, <2>2, <2>3, <2>4 DEF SemaphoreInv, SemaphoreFair
<1> QED
  BY <1>2, <1>3, <1>4 DEF SemaphoreGet

(* A new semaphore has the keys it is created with.                        *)
LEMMA SemaphoreInit == Init => SemaphoreInv
<1> SUFFICES ASSUME Init PROVE SemaphoreInv
  OBVIOUS
<1>1. keys = Keys /\ waiters = <<>> /\ Keys \in Int
  BY SemaphoreAssumption DEF Init
<1> QED
  BY <1>1, SMT DEF SemaphoreInv, SemaphoreFair

(* Every step of the system keeps it.                                      *)
LEMMA SemaphoreKept ==
  ASSUME SemaphoreInv, FamilyInv, [Next]_vars
  PROVE  SemaphoreInv' /\ FamilyInv'
<1>1. FamilyInv' /\ Born \subseteq Born' /\ halted \subseteq halted'
  BY FamilyKept
<1>2. ASSUME NEW p \in Processes, NEW n \in Requests, SemaphorePut(p, n) PROVE SemaphoreInv'
  BY <1>1, <1>2, SemaphorePutKeeps
<1>3. ASSUME NEW p \in Processes, NEW n \in Requests, NEW try \in BOOLEAN, SemaphoreGet(p, n, try)
      PROVE  SemaphoreInv'
  BY <1>1, <1>3, SemaphoreGetKeeps
<1>4. CASE UNCHANGED semaphoreVars
  BY <1>1, <1>4, SemaphoreQuiet
<1>5. \/ UNCHANGED semaphoreVars
      \/ \E p \in Processes, n \in Requests :
           SemaphorePut(p, n) \/ \E try \in BOOLEAN : SemaphoreGet(p, n, try)
  BY Zenon DEF Next, vars, objectVars, Put, Get, EventWait, Trigger, TriggerNonblocking, TriggerDeferred
<1> QED
  BY <1>1, <1>2, <1>3, <1>4, <1>5

(* run_synchronization's semaphore, for any number of processes, any key   *)
(* counts, and waiters that are killed or disabled while they wait: keys   *)
(* are not lent twice, and the first live waiter waits only while there    *)
(* are fewer keys than it asks for.                                        *)
THEOREM SemaphoreCorrect == Spec => []SemaphoreFair
<1>1. Init => SemaphoreInv /\ FamilyInv
  BY SemaphoreInit, FamilyInit
<1>2. SemaphoreInv /\ FamilyInv /\ [Next]_vars => SemaphoreInv' /\ FamilyInv'
  BY SemaphoreKept
<1>3. SemaphoreInv => SemaphoreFair
  BY DEF SemaphoreInv
<1> QED
  BY <1>1, <1>2, <1>3, PTL DEF Spec
-----------------------------------------------------------------------------
(* What an operation of a mailbox, a semaphore or an event keeps, whatever *)
(* it does to its object: when it waits,                                   *)
LEMMA ObjectWaits ==
  ASSUME WaitInv, FamilyInv, NEW p \in Live, current = p, NEW kind \in Objects, Waiting(p, kind)
  PROVE  /\ Live' = Live /\ Born' = Born /\ Scheduled' /\ Marked'
         /\ Joining' /\ Outlasting' /\ Awaiting'
         /\ UNCHANGED <<program, waiting_process>> /\ wait' \in [Processes -> Kinds]
         /\ wait[p] = "none" /\ wait'[p] = kind /\ status'[p] = "waiting"
         /\ \A q \in Live \ {p} : wait'[q] = wait[q]
         /\ \A k \in Objects \ {kind} : Same(k)
         /\ \A q \in Live : wait[q] = "event" => status'[q] = status[q]
<1>1. /\ WaitsAt(p, kind) /\ queue' = queue
      /\ UNCHANGED <<halted, timer_epoch, forkVars, waiting_process, suspendVars>>
  BY DEF Waiting, UnchangedFamily
<1>2. UNCHANGED <<program, parent, detached, fork_groups, waiting_for_children>>
  BY <1>1 DEF forkVars
<1>3. /\ Live' = Live /\ Born' = Born /\ Scheduled' /\ Marked'
      /\ wait' \in [Processes -> Kinds] /\ wait[p] = "none" /\ wait'[p] = kind
      /\ \A q \in Processes \ {p} : wait'[q] = wait[q]
      /\ \A k \in Kinds \ {"none", kind} : Same(k)
      /\ \A q \in Live : wait[q] = "event" => status'[q] = status[q]
  BY <1>1, <1>2, CallerWaits DEF Kinds, Objects
<1>4. Same("join") /\ Same("children") /\ Same("process") /\ \A k \in Objects \ {kind} : Same(k)
  BY <1>3 DEF Kinds, Objects
<1>5. Joining' /\ Outlasting' /\ Awaiting'
  BY <1>1, <1>2, <1>3, <1>4, CalmFamilies
<1>6. status'[p] = "waiting" /\ Live \subseteq Processes
  BY <1>1 DEF WaitsAt, Live, Born, FamilyInv, ProcessType
<1> QED
  BY <1>1, <1>2, <1>3, <1>4, <1>5, <1>6

(* and when it wakes those that wait at it.                                *)
LEMMA ObjectWakes ==
  ASSUME WaitInv, FamilyInv, NEW p \in Live \cup {0}, current = p, NEW W, NEW kind \in Objects \cup {"none"},
         Waking(p, W, kind), \A q \in W \cap Live : wait[q] = kind /\ kind # "none"
  PROVE  /\ Live' = Live /\ Born' = Born /\ Scheduled' /\ Marked'
         /\ Joining' /\ Outlasting' /\ Awaiting'
         /\ UNCHANGED <<program, waiting_process>> /\ wait' \in [Processes -> Kinds]
         /\ \A q \in Live : wait'[q] = IF q \in W THEN "none" ELSE wait[q]
         /\ \A k \in Objects \ {kind} : Same(k)
         /\ \A q \in Live \ W : status'[q] = status[q]
<1>1. UNCHANGED <<program, parent, detached, fork_groups, waiting_for_children, waiting_process>>
  BY DEF Waking, UnchangedFamily, forkVars
<1>2. /\ Live' = Live /\ Born' = Born /\ Scheduled' /\ Marked'
      /\ wait' \in [Processes -> Kinds]
      /\ \A q \in Processes : wait'[q] = IF q \in W \cap Live THEN "none" ELSE wait[q]
      /\ \A k \in Kinds \ {"none", kind} : Same(k)
      /\ \A q \in Live \ W : status'[q] = status[q]
  BY Wakes DEF Objects
<1>3. Same("join") /\ Same("children") /\ Same("process") /\ \A k \in Objects \ {kind} : Same(k)
  BY <1>2 DEF Kinds, Objects
<1>4. Joining' /\ Outlasting' /\ Awaiting'
  BY <1>1, <1>2, <1>3, CalmFamilies
<1>5. Live \subseteq Processes
  BY DEF Live, Born
<1> QED
  BY <1>1, <1>2, <1>3, <1>4, <1>5

(* An operation that completes, or gives up, touches no wait.              *)
LEMMA CompletingWaits ==
  ASSUME WaitInv, FamilyInv, NEW p \in Live, current = p, Completing(p), UNCHANGED <<readers, writers, waiters>>,
         UNCHANGED <<event_waiters, pending_dynamic_event>>, sent' \in Nat
  PROVE  WaitInv'
<1>1. /\ Live' = Live /\ Born' = Born /\ Scheduled' /\ Marked'
      /\ Joining' /\ Outlasting' /\ Awaiting'
      /\ UNCHANGED <<program, waiting_process>> /\ wait' \in [Processes -> Kinds]
      /\ \A k \in Objects \ {"none"} : Same(k)
      /\ \A q \in Live : status'[q] = status[q]
  BY ObjectWakes, SMT DEF Completing
<1>2. Same("get") /\ Same("put") /\ Same("semaphore") /\ Same("event")
  BY <1>1 DEF Objects
<1>3. Listening'
  BY <1>1, <1>2, CalmEvent
<1>4. /\ Parked(readers, "get", Live, Born, wait)'
      /\ Parked(writers, "put", Live, Born, wait)'
      /\ Parked(waiters, "semaphore", Live, Born, wait)'
  BY <1>1, <1>2, CalmQueues
<1>5. WaitType'
  BY <1>1 DEF WaitInv, WaitType
<1> QED
  BY <1>1, <1>3, <1>4, <1>5 DEF WaitInv

(* put: the value wakes the readers that leave the queue, or its writer    *)
(* joins the writers.                                                      *)
LEMMA PutWaits ==
  ASSUME WaitInv, FamilyInv, NEW p \in Processes, NEW try \in BOOLEAN, Put(p, try)
  PROVE  WaitInv'
<1>1. /\ p \in Live /\ current = p /\ p \in Born
      /\ UNCHANGED <<waiters, event_waiters, pending_dynamic_event>>
  BY DEF Put, Executes, Live, semaphoreVars, eventVars
<1>2. WaitType /\ sent \in Nat /\ sent + 1 \in Nat
  BY SMT DEF WaitInv, WaitType
<1>3. CASE Deliver(p, sent + 1) /\ sent' = sent + 1 /\ UNCHANGED writers
  <2> DEFINE n == Least(Getters, Len(readers))
             W == Owners(readers, n)
  <2>1. n \in 0 .. Len(readers) /\ readers \in Seq([process : Processes, peek : BOOLEAN])
    <3>1. readers \in Seq([process : Processes, peek : BOOLEAN])
      BY <1>2 DEF WaitType
    <3>2. Len(readers) \in Nat /\ Getters \subseteq 1 .. Len(readers)
      BY <3>1, SMT DEF Getters, Positions
    <3>3. CASE Getters = {}
      BY <3>1, <3>2, <3>3, SMT DEF Least
    <3>4. CASE Getters # {}
      <4>1. Getters \in SUBSET Nat
        BY <3>2, SMT
      <4>2. n \in Getters
        BY <3>4, <4>1, LeastPosition
      <4>3. n \in 1 .. Len(readers)
        BY <3>2, <4>2
      <4> QED
        BY <3>1, <3>2, <4>3, SMT
    <3> QED
      BY <3>3, <3>4
  <2>2. Waking(p, W, "get") /\ readers' = After(readers, n)
    BY <1>3 DEF Deliver
  <2>3. Parked(readers, "get", Live, Born, wait)
    BY DEF WaitInv
  <2> HIDE DEF n
  <2>4. \A q : q \in W <=> \E i \in 1 .. n : readers[i].process = q
    BY DEF Owners
  <2>5. \A i \in 1 .. n : i \in 1 .. Len(readers)
    BY <2>1, SMT
  <2> HIDE DEF W
  <2>6. \A q \in W \cap Live : wait[q] = "get"
    BY <2>3, <2>4, <2>5, SMT DEF Parked
  <2>7. /\ Live' = Live /\ Born' = Born /\ Scheduled' /\ Marked'
        /\ Joining' /\ Outlasting' /\ Awaiting'
        /\ UNCHANGED <<program, waiting_process>> /\ wait' \in [Processes -> Kinds]
        /\ \A q \in Live : wait'[q] = IF q \in W THEN "none" ELSE wait[q]
        /\ \A k \in Objects \ {"get"} : Same(k)
        /\ \A q \in Live \ W : status'[q] = status[q]
    BY <1>1, <2>2, <2>6, ObjectWakes DEF Objects
  <2>8. Same("put") /\ Same("semaphore") /\ Same("event")
    BY <2>7 DEF Objects
  <2>9. \A q \in Live : \/ wait'[q] = wait[q] /\ \A i \in 1 .. n : readers[i].process # q
                        \/ wait'[q] # "get" /\ \E i \in 1 .. n : readers[i].process = q
    BY <2>4, <2>7
  <2>10. Parked(After(readers, n), "get", Live, Born, wait')
    BY <2>1, <2>3, <2>9, ParkedAfter
  <2>11. Parked(readers, "get", Live, Born, wait)'
    BY <2>2, <2>7, <2>10
  <2>12. /\ Parked(writers, "put", Live, Born, wait)'
         /\ Parked(waiters, "semaphore", Live, Born, wait)'
    BY <1>1, <1>3, <2>7, <2>8, CalmQueues
  <2>13. Listening'
    BY <1>1, <2>6, <2>7, <2>8, CalmEvent
  <2>14. readers' \in Seq([process : Processes, peek : BOOLEAN])
    BY <2>1, <2>2, AfterDef
  <2>15. WaitType'
    BY <1>1, <1>2, <1>3, <2>7, <2>14 DEF WaitType
  <2> QED
    BY <2>7, <2>11, <2>12, <2>13, <2>15 DEF WaitInv
<1>4. CASE Completing(p) /\ UNCHANGED <<writers, sent, readers>>
  BY <1>1, <1>2, <1>4, CompletingWaits
<1>5. CASE /\ Waiting(p, "put") /\ sent' = sent + 1 /\ UNCHANGED readers
           /\ writers' = Append(writers, [process |-> p, value |-> sent + 1])
  <2> DEFINE e == [process |-> p, value |-> sent + 1]
             T == [process : Processes, value : Nat]
  <2>1. /\ Live' = Live /\ Born' = Born /\ Scheduled' /\ Marked'
        /\ Joining' /\ Outlasting' /\ Awaiting'
        /\ UNCHANGED <<program, waiting_process>> /\ wait' \in [Processes -> Kinds]
        /\ wait[p] = "none" /\ wait'[p] = "put"
        /\ \A q \in Live \ {p} : wait'[q] = wait[q]
        /\ \A k \in Objects \ {"put"} : Same(k)
        /\ \A q \in Live : wait[q] = "event" => status'[q] = status[q]
    BY <1>1, <1>5, ObjectWaits DEF Objects
  <2>2. Same("get") /\ Same("semaphore") /\ Same("event")
    BY <2>1 DEF Objects
  <2>3. e \in T /\ e.process = p
    BY <1>2
  <2>4. writers' = Append(writers, e) /\ writers \in Seq(T)
    BY <1>2, <1>5 DEF WaitType
  <2>5. Parked(writers, "put", Live, Born, wait)
    BY DEF WaitInv
  <2>6. Parked(Append(writers, e), "put", Live, Born, wait')
    <3> HIDE DEF e, T
    <3>1. /\ e.process \in Born /\ wait[e.process] # "put" /\ wait'[e.process] = "put"
          /\ \A q \in Live : q # e.process => wait'[q] = wait[q]
      BY <1>1, <2>1, <2>3
    <3> QED
      BY <2>3, <2>4, <2>5, <3>1, ParkedAppend
  <2>7. Parked(writers, "put", Live, Born, wait)'
    BY <2>1, <2>4, <2>6
  <2>8. /\ Parked(readers, "get", Live, Born, wait)'
        /\ Parked(waiters, "semaphore", Live, Born, wait)'
    BY <1>1, <1>5, <2>1, <2>2, CalmQueues
  <2>9. Listening'
    BY <1>1, <2>1, <2>2, CalmEvent
  <2>10. writers' \in Seq(T)
    BY <2>3, <2>4, SMT
  <2>11. WaitType'
    BY <1>1, <1>2, <1>5, <2>1, <2>10 DEF WaitType
  <2> QED
    BY <2>1, <2>7, <2>8, <2>9, <2>11 DEF WaitInv
<1> QED
  BY <1>3, <1>4, <1>5 DEF Put

(* The get of an entry wakes the first writer that is alive; those before  *)
(* it are not.                                                             *)
LEMMA RefillWaits ==
  ASSUME WaitInv, FamilyInv, NEW p \in Live, current = p, Refill(p),
         UNCHANGED <<readers, waiters, event_waiters, pending_dynamic_event, sent>>
  PROVE  WaitInv'
<1> DEFINE alive == {i \in Positions(writers) : writers[i].process \in Live}
           n == Least(alive, Len(writers))
           W == {writers[i].process : i \in {n} \cap alive}
           T == [process : Processes, value : Nat]
<1>1. WaitType /\ writers \in Seq(T)
  BY DEF WaitInv, WaitType
<1>2. Len(writers) \in Nat /\ alive \subseteq 1 .. Len(writers) /\ alive \in SUBSET Nat
  BY <1>1, SMT DEF Positions
<1>3. /\ n \in 0 .. Len(writers)
      /\ \A i \in 1 .. n : i \in 1 .. Len(writers) /\ (i \in alive => i = n)
  <2>1. CASE alive = {}
    <3>1. n = Len(writers)
      BY <2>1 DEF Least
    <3> HIDE DEF n
    <3> QED
      BY <1>2, <2>1, <3>1, SMT
  <2>2. CASE alive # {}
    <3>1. n \in alive /\ \A j \in alive : n <= j
      BY <1>2, <2>2, LeastPosition
    <3>2. n \in 1 .. Len(writers)
      BY <1>2, <3>1
    <3> HIDE DEF n, alive
    <3> QED
      BY <1>2, <3>1, <3>2, SMT
  <2> QED
    BY <2>1, <2>2
<1>4. Waking(p, W, "put") /\ writers' = After(writers, n)
  BY DEF Refill
<1>5. Parked(writers, "put", Live, Born, wait)
  BY DEF WaitInv
<1>6. \A i \in 1 .. Len(writers) : i \in alive <=> writers[i].process \in Live
  BY <1>1, SMT DEF Positions
<1>7. \A q : q \in W <=> n \in alive /\ writers[n].process = q
  OBVIOUS
<1> HIDE DEF alive, n, W
<1>8. ASSUME NEW q \in Live PROVE q \in W <=> \E i \in 1 .. n : writers[i].process = q
  <2>1. n \in alive => n \in 1 .. n
    BY <1>2, <1>3, SMT
  <2> QED
    BY <1>3, <1>6, <1>7, <2>1, SMT
<1>9. \A q \in W \cap Live : wait[q] = "put"
  BY <1>3, <1>5, <1>8, SMT DEF Parked
<1>10. /\ Live' = Live /\ Born' = Born /\ Scheduled' /\ Marked'
       /\ Joining' /\ Outlasting' /\ Awaiting'
       /\ UNCHANGED <<program, waiting_process>> /\ wait' \in [Processes -> Kinds]
       /\ \A q \in Live : wait'[q] = IF q \in W THEN "none" ELSE wait[q]
       /\ \A k \in Objects \ {"put"} : Same(k)
       /\ \A q \in Live \ W : status'[q] = status[q]
  BY <1>4, <1>9, ObjectWakes DEF Objects
<1>11. Same("get") /\ Same("semaphore") /\ Same("event")
  BY <1>10 DEF Objects
<1>12. \A q \in Live : \/ wait'[q] = wait[q] /\ \A i \in 1 .. n : writers[i].process # q
                       \/ wait'[q] # "put" /\ \E i \in 1 .. n : writers[i].process = q
  BY <1>8, <1>10
<1>13. Parked(After(writers, n), "put", Live, Born, wait')
  BY <1>1, <1>3, <1>5, <1>12, ParkedAfter
<1>14. Parked(writers, "put", Live, Born, wait)'
  BY <1>4, <1>10, <1>13
<1>15. /\ Parked(readers, "get", Live, Born, wait)'
       /\ Parked(waiters, "semaphore", Live, Born, wait)'
  BY <1>10, <1>11, CalmQueues
<1>16. Listening'
  BY <1>9, <1>10, <1>11, CalmEvent
<1>17. writers' \in Seq(T)
  BY <1>1, <1>3, <1>4, AfterDef
<1>18. WaitType'
  BY <1>1, <1>10, <1>17 DEF WaitType
<1> QED
  BY <1>10, <1>14, <1>15, <1>16, <1>18 DEF WaitInv

(* get: it takes an entry, or its reader joins the readers.                *)
LEMMA GetWaits ==
  ASSUME WaitInv, FamilyInv, NEW p \in Processes, NEW peek \in BOOLEAN, NEW try \in BOOLEAN, Get(p, peek, try)
  PROVE  WaitInv'
<1>1. /\ p \in Live /\ current = p /\ p \in Born
      /\ UNCHANGED <<waiters, event_waiters, pending_dynamic_event, sent>>
  BY DEF Get, Executes, Live, semaphoreVars, eventVars
<1>2. WaitType /\ sent \in Nat
  BY DEF WaitInv, WaitType
<1>3. CASE Refill(p) /\ UNCHANGED readers
  BY <1>1, <1>3, RefillWaits
<1>4. CASE Completing(p) /\ UNCHANGED <<writers, readers>>
  BY <1>1, <1>2, <1>4, CompletingWaits
<1>5. CASE /\ Waiting(p, "get") /\ UNCHANGED writers
           /\ readers' = Append(readers, [process |-> p, peek |-> peek])
  <2> DEFINE e == [process |-> p, peek |-> peek]
             T == [process : Processes, peek : BOOLEAN]
  <2>1. /\ Live' = Live /\ Born' = Born /\ Scheduled' /\ Marked'
        /\ Joining' /\ Outlasting' /\ Awaiting'
        /\ UNCHANGED <<program, waiting_process>> /\ wait' \in [Processes -> Kinds]
        /\ wait[p] = "none" /\ wait'[p] = "get"
        /\ \A q \in Live \ {p} : wait'[q] = wait[q]
        /\ \A k \in Objects \ {"get"} : Same(k)
        /\ \A q \in Live : wait[q] = "event" => status'[q] = status[q]
    BY <1>1, <1>5, ObjectWaits DEF Objects
  <2>2. Same("put") /\ Same("semaphore") /\ Same("event")
    BY <2>1 DEF Objects
  <2>3. e \in T /\ e.process = p
    OBVIOUS
  <2>4. readers' = Append(readers, e) /\ readers \in Seq(T)
    BY <1>2, <1>5 DEF WaitType
  <2>5. Parked(readers, "get", Live, Born, wait)
    BY DEF WaitInv
  <2>6. Parked(Append(readers, e), "get", Live, Born, wait')
    <3> HIDE DEF e, T
    <3>1. /\ e.process \in Born /\ wait[e.process] # "get" /\ wait'[e.process] = "get"
          /\ \A q \in Live : q # e.process => wait'[q] = wait[q]
      BY <1>1, <2>1, <2>3
    <3> QED
      BY <2>3, <2>4, <2>5, <3>1, ParkedAppend
  <2>7. Parked(readers, "get", Live, Born, wait)'
    BY <2>1, <2>4, <2>6
  <2>8. /\ Parked(writers, "put", Live, Born, wait)'
        /\ Parked(waiters, "semaphore", Live, Born, wait)'
    BY <1>1, <1>5, <2>1, <2>2, CalmQueues
  <2>9. Listening'
    BY <1>1, <2>1, <2>2, CalmEvent
  <2>10. readers' \in Seq(T)
    BY <2>3, <2>4, SMT
  <2>11. WaitType'
    BY <1>1, <1>2, <1>5, <2>1, <2>10 DEF WaitType
  <2> QED
    BY <2>1, <2>7, <2>8, <2>9, <2>11 DEF WaitInv
<1> QED
  BY <1>3, <1>4, <1>5 DEF Get

(* The semaphore's put wakes the waiters that leave,                       *)
LEMMA SemaphorePutWaits ==
  ASSUME WaitInv, FamilyInv, SemaphoreInv, NEW p \in Processes, NEW n \in Requests, SemaphorePut(p, n)
  PROVE  WaitInv'
<1> DEFINE left == Leaving(keys + n)
           W == Owners(waiters, left)
<1>1. /\ p \in Live /\ current = p
      /\ UNCHANGED <<readers, writers, sent, event_waiters, pending_dynamic_event>>
      /\ Waking(p, W, "semaphore") /\ waiters' = After(waiters, left)
  BY DEF SemaphorePut, Executes, mailboxVars, eventVars
<1>2. keys + n \in Int
  BY SemaphoreAssumption, SMT DEF SemaphoreInv
<1>3. left \in 0 .. Len(waiters) /\ waiters \in Seq(Waiters)
  BY <1>2, LeavingDef DEF SemaphoreInv
<1> HIDE DEF left
<1>4. \A i \in 1 .. left : i \in 1 .. Len(waiters)
  BY <1>3, SMT
<1>5. \A q : q \in W <=> \E i \in 1 .. left : waiters[i].process = q
  BY DEF Owners
<1> HIDE DEF W
<1>6. Parked(waiters, "semaphore", Live, Born, wait) /\ WaitType
  BY DEF WaitInv
<1>7. \A q \in W \cap Live : wait[q] = "semaphore"
  BY <1>4, <1>5, <1>6, SMT DEF Parked
<1>8. /\ Live' = Live /\ Born' = Born /\ Scheduled' /\ Marked'
      /\ Joining' /\ Outlasting' /\ Awaiting'
      /\ UNCHANGED <<program, waiting_process>> /\ wait' \in [Processes -> Kinds]
      /\ \A q \in Live : wait'[q] = IF q \in W THEN "none" ELSE wait[q]
      /\ \A k \in Objects \ {"semaphore"} : Same(k)
      /\ \A q \in Live \ W : status'[q] = status[q]
  BY <1>1, <1>7, ObjectWakes DEF Objects
<1>9. Same("get") /\ Same("put") /\ Same("event")
  BY <1>8 DEF Objects
<1>10. \A q \in Live : \/ wait'[q] = wait[q] /\ \A i \in 1 .. left : waiters[i].process # q
                       \/ wait'[q] # "semaphore" /\ \E i \in 1 .. left : waiters[i].process = q
  BY <1>5, <1>8
<1>11. Parked(After(waiters, left), "semaphore", Live, Born, wait')
  BY <1>3, <1>6, <1>10, ParkedAfter
<1>12. Parked(waiters, "semaphore", Live, Born, wait)'
  BY <1>1, <1>8, <1>11
<1>13. /\ Parked(readers, "get", Live, Born, wait)'
       /\ Parked(writers, "put", Live, Born, wait)'
  BY <1>1, <1>8, <1>9, CalmQueues
<1>14. Listening'
  BY <1>1, <1>7, <1>8, <1>9, CalmEvent
<1>15. WaitType'
  BY <1>1, <1>6, <1>8 DEF WaitType
<1> QED
  BY <1>8, <1>12, <1>13, <1>14, <1>15 DEF WaitInv

(* and its get takes the keys or joins them.                               *)
LEMMA SemaphoreGetWaits ==
  ASSUME WaitInv, FamilyInv, SemaphoreInv, NEW p \in Processes, NEW n \in Requests, NEW try \in BOOLEAN,
         SemaphoreGet(p, n, try)
  PROVE  WaitInv'
<1>1. /\ p \in Live /\ current = p /\ p \in Born
      /\ UNCHANGED <<readers, writers, sent, event_waiters, pending_dynamic_event>>
  BY DEF SemaphoreGet, Executes, Live, mailboxVars, eventVars
<1>2. WaitType /\ sent \in Nat
  BY DEF WaitInv, WaitType
<1>3. CASE Completing(p) /\ UNCHANGED waiters
  BY <1>1, <1>2, <1>3, CompletingWaits
<1>4. CASE /\ Waiting(p, "semaphore")
           /\ waiters' = Append(waiters, [process |-> p, keys |-> n])
  <2> DEFINE e == [process |-> p, keys |-> n]
  <2>1. /\ Live' = Live /\ Born' = Born /\ Scheduled' /\ Marked'
        /\ Joining' /\ Outlasting' /\ Awaiting'
        /\ UNCHANGED <<program, waiting_process>> /\ wait' \in [Processes -> Kinds]
        /\ wait[p] = "none" /\ wait'[p] = "semaphore"
        /\ \A q \in Live \ {p} : wait'[q] = wait[q]
        /\ \A k \in Objects \ {"semaphore"} : Same(k)
        /\ \A q \in Live : wait[q] = "event" => status'[q] = status[q]
    BY <1>1, <1>4, ObjectWaits DEF Objects
  <2>2. Same("get") /\ Same("put") /\ Same("event")
    BY <2>1 DEF Objects
  <2>3. e \in Waiters /\ e.process = p
    BY SemaphoreAssumption DEF Waiters
  <2>4. waiters' = Append(waiters, e) /\ waiters \in Seq(Waiters)
    BY <1>4 DEF SemaphoreInv
  <2>5. Parked(waiters, "semaphore", Live, Born, wait)
    BY DEF WaitInv
  <2>6. Parked(Append(waiters, e), "semaphore", Live, Born, wait')
    <3> HIDE DEF e
    <3>1. /\ e.process \in Born /\ wait[e.process] # "semaphore" /\ wait'[e.process] = "semaphore"
          /\ \A q \in Live : q # e.process => wait'[q] = wait[q]
      BY <1>1, <2>1, <2>3
    <3> QED
      BY <2>3, <2>4, <2>5, <3>1, ParkedAppend
  <2>7. Parked(waiters, "semaphore", Live, Born, wait)'
    BY <2>1, <2>4, <2>6
  <2>8. /\ Parked(readers, "get", Live, Born, wait)'
        /\ Parked(writers, "put", Live, Born, wait)'
    BY <1>1, <2>1, <2>2, CalmQueues
  <2>9. Listening'
    BY <1>1, <2>1, <2>2, CalmEvent
  <2>10. WaitType'
    BY <1>1, <1>2, <2>1 DEF WaitType
  <2> QED
    BY <2>1, <2>7, <2>8, <2>9, <2>10 DEF WaitInv
<1> QED
  BY <1>3, <1>4 DEF SemaphoreGet

(* A wait for the event,                                                   *)
LEMMA EventWaits ==
  ASSUME WaitInv, FamilyInv, NEW p \in Processes, EventWait(p)
  PROVE  WaitInv'
<1>1. /\ p \in Live /\ current = p /\ p \in Born /\ "event" \in program[p]
      /\ UNCHANGED <<readers, writers, sent, waiters>>
      /\ Waiting(p, "event") /\ event_waiters' = Append(event_waiters, p)
      /\ pending_dynamic_event' = pending_dynamic_event \cup {p}
  BY DEF EventWait, Executes, Live, mailboxVars, semaphoreVars
<1>2. WaitType /\ event_waiters \in Seq(Processes) /\ Listening
  BY DEF WaitInv, WaitType
<1>3. /\ Live' = Live /\ Born' = Born /\ Scheduled' /\ Marked'
      /\ Joining' /\ Outlasting' /\ Awaiting'
      /\ UNCHANGED <<program, waiting_process>> /\ wait' \in [Processes -> Kinds]
      /\ wait[p] = "none" /\ wait'[p] = "event" /\ status'[p] = "waiting"
      /\ \A q \in Live \ {p} : wait'[q] = wait[q]
      /\ \A k \in Objects \ {"event"} : Same(k)
      /\ \A q \in Live : wait[q] = "event" => status'[q] = status[q]
  BY <1>1, ObjectWaits DEF Objects
<1>4. Same("get") /\ Same("put") /\ Same("semaphore")
  BY <1>3 DEF Objects
<1>5. /\ event_waiters' \in Seq(Processes)
      /\ \E i \in Positions(event_waiters)' : event_waiters'[i] = p
      /\ \A q : (\E i \in Positions(event_waiters) : event_waiters[i] = q)
           => \E i \in Positions(event_waiters)' : event_waiters'[i] = q
  BY <1>1, <1>2, SMT DEF Positions
<1>6. Listening'
  <2>1. \A q \in pending_dynamic_event' : q \in Born /\ (q \in Live => wait'[q] = "event")
    BY <1>1, <1>2, <1>3, SMT DEF Listening
  <2>2. ASSUME NEW q \in Live, wait'[q] = "event"
        PROVE  /\ status'[q] = "waiting" /\ "event" \in program[q] /\ q \in pending_dynamic_event'
               /\ \E i \in Positions(event_waiters)' : event_waiters'[i] = q
    <3>1. CASE q = p
      BY <1>1, <1>3, <1>5, <3>1
    <3>2. CASE q # p
      <4>1. wait[q] = "event"
        BY <1>3, <2>2, <3>2
      <4> QED
        BY <1>1, <1>2, <1>3, <1>5, <4>1 DEF Listening
    <3> QED
      BY <3>1, <3>2
  <2> QED
    BY <1>3, <2>1, <2>2 DEF Listening
<1>7. /\ Parked(readers, "get", Live, Born, wait)'
      /\ Parked(writers, "put", Live, Born, wait)'
      /\ Parked(waiters, "semaphore", Live, Born, wait)'
  BY <1>1, <1>3, <1>4, CalmQueues
<1>8. WaitType'
  BY <1>1, <1>2, <1>3, <1>5 DEF WaitType
<1> QED
  BY <1>3, <1>6, <1>7, <1>8 DEF WaitInv

(* and a trigger, which wakes everyone that waits for it: it is only those *)
(* that are suspended it would miss.                                       *)
LEMMA TriggeredWaits ==
  ASSUME WaitInv, FamilyInv, NEW p \in Live \cup {0}, current = p, Triggered(p),
         UNCHANGED <<readers, writers, sent, waiters>>
  PROVE  WaitInv'
<1> DEFINE W == {q \in pending_dynamic_event \cap Live : status[q] = "waiting" /\
                   \E i \in Positions(event_waiters) : event_waiters[i] = q}
<1>1. /\ Waking(p, W, "event") /\ event_waiters' = <<>>
      /\ pending_dynamic_event' = pending_dynamic_event \ W
  BY DEF Triggered
<1>2. WaitType /\ Listening
  BY DEF WaitInv
<1>3. \A q \in Live : wait[q] = "event" <=> q \in W
  BY <1>2 DEF Listening
<1>4. \A q \in pending_dynamic_event : q \in Live => q \in W
  BY <1>2, <1>3 DEF Listening
<1> HIDE DEF W
<1>5. /\ Live' = Live /\ Born' = Born /\ Scheduled' /\ Marked'
      /\ Joining' /\ Outlasting' /\ Awaiting'
      /\ UNCHANGED <<program, waiting_process>> /\ wait' \in [Processes -> Kinds]
      /\ \A q \in Live : wait'[q] = IF q \in W THEN "none" ELSE wait[q]
      /\ \A k \in Objects \ {"event"} : Same(k)
      /\ \A q \in Live \ W : status'[q] = status[q]
  BY <1>1, <1>3, ObjectWakes DEF Objects
<1>6. Same("get") /\ Same("put") /\ Same("semaphore")
  BY <1>5 DEF Objects
<1>7. \A q \in Live : wait'[q] # "event"
  BY <1>3, <1>5
<1>8. Listening'
  BY <1>1, <1>2, <1>4, <1>5, <1>7 DEF Listening
<1>9. /\ Parked(readers, "get", Live, Born, wait)'
      /\ Parked(writers, "put", Live, Born, wait)'
      /\ Parked(waiters, "semaphore", Live, Born, wait)'
  BY <1>5, <1>6, CalmQueues
<1>10. WaitType'
  BY <1>1, <1>2, <1>5, SMT DEF WaitType
<1> QED
  BY <1>5, <1>8, <1>9, <1>10 DEF WaitInv

(* Every step of the system does.                                          *)
LEMMA WaitsKept ==
  ASSUME Undisturbed, WaitInv, FamilyInv, SemaphoreInv, [Next]_vars
  PROVE  WaitInv'
<1>1. ASSUME NEW w \in queue, Run(w), UNCHANGED objectVars PROVE WaitInv'
  BY <1>1, RunWaits
<1>2. ASSUME NEW p \in Processes, ProcessStep(p), UNCHANGED objectVars PROVE WaitInv'
  BY <1>2, StepWaits
<1>3. ASSUME NEW p \in Processes, NEW try \in BOOLEAN, Put(p, try) PROVE WaitInv'
  BY <1>3, PutWaits
<1>4. ASSUME NEW p \in Processes, NEW peek \in BOOLEAN, NEW try \in BOOLEAN, Get(p, peek, try)
      PROVE  WaitInv'
  BY <1>4, GetWaits
<1>5. ASSUME NEW p \in Processes, NEW n \in Requests, SemaphorePut(p, n) PROVE WaitInv'
  BY <1>5, SemaphorePutWaits
<1>6. ASSUME NEW p \in Processes, NEW n \in Requests, NEW try \in BOOLEAN, SemaphoreGet(p, n, try)
      PROVE  WaitInv'
  BY <1>6, SemaphoreGetWaits
<1>7. ASSUME NEW p \in Processes, EventWait(p) PROVE WaitInv'
  BY <1>7, EventWaits
<1>8. ASSUME NEW p \in Processes, Trigger(p) PROVE WaitInv'
  <2>1. p \in Live /\ current = p /\ Triggered(p) /\ UNCHANGED <<readers, writers, sent, waiters>>
    BY <1>8 DEF Trigger, Executes, mailboxVars, semaphoreVars
  <2> QED
    BY <2>1, TriggeredWaits
<1>9. ASSUME NEW p \in Processes, TriggerNonblocking(p) PROVE WaitInv'
  <2>1. /\ p \in Live /\ current = p /\ Completing(p)
        /\ UNCHANGED <<readers, writers, waiters, sent, event_waiters, pending_dynamic_event>>
    BY <1>9 DEF TriggerNonblocking, Executes, mailboxVars, semaphoreVars
  <2>2. sent' \in Nat
    BY <2>1 DEF WaitInv, WaitType
  <2> QED
    BY <2>1, <2>2, CompletingWaits
<1>10. CASE TriggerDeferred
  <2>1. current = 0 /\ Triggered(0) /\ UNCHANGED <<readers, writers, sent, waiters>>
    BY <1>10 DEF TriggerDeferred, mailboxVars, semaphoreVars
  <2> QED
    BY <2>1, TriggeredWaits
<1>11. CASE UNCHANGED vars
  BY <1>11, IdleWaits DEF vars, processVars
<1> QED
  BY <1>1, <1>2, <1>3, <1>4, <1>5, <1>6, <1>7, <1>8, <1>9, <1>10, <1>11 DEF Next

(* At the start every process of the design is queued.                     *)
LEMMA WaitsInit == Init => WaitInv
<1> SUFFICES ASSUME Init PROVE WaitInv
  OBVIOUS
<1>1. ProcessInit
  BY DEF Init
<1>2. Born = Roots /\ Live = Roots /\ Roots \subseteq Processes
  BY <1>1, ProcessAssumption DEF ProcessInit, Born, Live
<1>3. /\ \A p \in Processes : wait[p] = "none" /\ waiting_process[p] = 0
      /\ wait \in [Processes -> Kinds] /\ waiting_process \in [Processes -> Processes \cup {0}]
  BY <1>1 DEF ProcessInit, Kinds
<1>4. /\ current = 0 /\ halted = {} /\ fork_groups = {} /\ waiting_for_children = {}
      /\ suspended = {} /\ suspended_wake = {} /\ program \in Designs
      /\ queue = {Wake(p) : p \in Roots}
  BY <1>1 DEF ProcessInit, Wake
<1>5. /\ readers = <<>> /\ writers = <<>> /\ waiters = <<>> /\ event_waiters = <<>>
      /\ pending_dynamic_event = {} /\ sent = 0
  BY DEF Init
<1>6. \A p : Wake(p).process = p /\ ~Wake(p).timed
  BY DEF Wake
<1>7. WaitType
  BY <1>3, <1>4, <1>5, SMT DEF WaitType
<1>8. Scheduled
  <2>1. \A w \in queue : w.process \in Roots /\ w = Wake(w.process) /\ ~w.timed
    BY <1>4, <1>6
  <2>2. \A p \in Roots : Waked(p)
    BY <1>4, <1>6 DEF Waked
  <2> QED
    BY <1>2, <1>3, <1>4, <2>1, <2>2 DEF Scheduled, Valid
<1>9. Marked /\ Joining /\ Outlasting /\ Awaiting /\ Listening
  BY <1>2, <1>3, <1>4, <1>5 DEF Marked, Joining, Outlasting, Awaiting, Listening
<1>10. /\ Parked(readers, "get", Live, Born, wait)
       /\ Parked(writers, "put", Live, Born, wait)
       /\ Parked(waiters, "semaphore", Live, Born, wait)
  BY <1>2, <1>3, <1>5, SMT DEF Parked
<1> QED
  BY <1>7, <1>8, <1>9, <1>10 DEF WaitInv

(* The invariant says what wakes a process.                                *)
LEMMA WaitsHaveWakers ==
  ASSUME WaitInv, SemaphoreInv
  PROVE  NoProcessStranded /\ NoSpuriousWake
<1>1. /\ WaitType /\ Scheduled /\ Joining /\ Outlasting /\ Awaiting /\ Listening
      /\ Parked(readers, "get", Live, Born, wait)
      /\ Parked(writers, "put", Live, Born, wait)
      /\ Parked(waiters, "semaphore", Live, Born, wait)
  BY DEF WaitInv
<1>2. \A p : Waked(p) => Queued(p)
  BY <1>1 DEF Scheduled, Waked, Queued
<1>3. /\ Positions(readers) = 1 .. Len(readers) /\ Positions(writers) = 1 .. Len(writers)
      /\ Positions(waiters) = 1 .. Len(waiters)
  BY <1>1, SMT DEF WaitType, SemaphoreInv, Positions
<1>4. ASSUME NEW p \in Live, wait[p] # "none" PROVE HasWaker(p)
  <2>1. wait[p] \in Kinds
    BY <1>1 DEF WaitType, Live, Born
  <2>2. CASE wait[p] = "delay"
    <3>1. Queued(p)
      BY <1>1, <1>2, <2>2 DEF Scheduled
    <3> QED
      BY <2>2, <3>1 DEF HasWaker
  <2>3. CASE wait[p] = "join"
    <3>1. \E g \in fork_groups : g.parent = p /\ g.children \cap Live # {}
      BY <1>1, <2>3, SMT DEF Joining, LiveChildren
    <3> QED
      BY <2>3, <3>1 DEF HasWaker
  <2>4. CASE wait[p] = "children"
    <3>1. p \in waiting_for_children /\ ~Childless(p, {})
      BY <1>1, <2>4 DEF Outlasting
    <3> QED
      BY <2>4, <3>1 DEF HasWaker
  <2>5. CASE wait[p] = "process"
    <3>1. waiting_process[p] \in Live
      BY <1>1, <2>5 DEF Awaiting
    <3> QED
      BY <2>5, <3>1 DEF HasWaker
  <2>6. CASE wait[p] = "get"
    <3>1. Holds(readers, p)
      BY <1>1, <1>3, <2>6 DEF Parked, Holds
    <3> QED
      BY <2>6, <3>1 DEF HasWaker
  <2>7. CASE wait[p] = "put"
    <3>1. Holds(writers, p)
      BY <1>1, <1>3, <2>7 DEF Parked, Holds
    <3> QED
      BY <2>7, <3>1 DEF HasWaker
  <2>8. CASE wait[p] = "semaphore"
    <3>1. Holds(waiters, p)
      BY <1>1, <1>3, <2>8 DEF Parked, Holds
    <3> QED
      BY <2>8, <3>1 DEF HasWaker
  <2>9. CASE wait[p] = "event"
    <3>1. \E i \in Positions(event_waiters) : event_waiters[i] = p
      BY <1>1, <2>9 DEF Listening
    <3> QED
      BY <2>9, <3>1 DEF HasWaker
  <2> QED
    BY <1>4, <2>1, <2>2, <2>3, <2>4, <2>5, <2>6, <2>7, <2>8, <2>9 DEF Kinds
<1>5. ASSUME NEW p \in Live, wait[p] = "none"
      PROVE  \/ p = current \/ Queued(p)
             \/ p \in suspended /\ (p \in suspended_wake \/ suspended_status[p] = "running")
  BY <1>1, <1>2, <1>5 DEF Scheduled, Runnable
<1>6. NoProcessStranded
  BY <1>4, <1>5 DEF NoProcessStranded
<1>7. NoSpuriousWake
  BY <1>1 DEF Scheduled, NoSpuriousWake
<1> QED
  BY <1>6, <1>7

(* Wakes are neither lost nor misdirected, for any number of processes and *)
(* whatever they fork, kill, suspend, await, put and get: in a design that *)
(* disables no block and suspends no process that waits for an event, what *)
(* a waiting process waits for can still wake it, and nothing else does.   *)
THEOREM WakesReachTheirWaits ==
  ASSUME Undisturbed
  PROVE  Spec => [](NoProcessStranded /\ NoSpuriousWake)
<1> DEFINE I == WaitInv /\ FamilyInv /\ SemaphoreInv
<1>1. Init => I
  BY WaitsInit, FamilyInit, SemaphoreInit
<1>2. I /\ [Next]_vars => I'
  BY WaitsKept, SemaphoreKept
<1>3. I => NoProcessStranded /\ NoSpuriousWake
  BY WaitsHaveWakers
<1> QED
  BY <1>1, <1>2, <1>3, PTL DEF Spec
=============================================================================
