------------------------- MODULE ParallelForProofs -------------------------
(***************************************************************************)
(* Theorems about module ParallelFor, for every number of items, jobs and  *)
(* chunks, every grain and every set of failing indices.                   *)
(*                                                                         *)
(* The invariant follows each chunk through its life: not yet taken, being *)
(* worked by exactly one worker up to its next index, or left, finished or *)
(* at its lowest failing index.                                            *)
(***************************************************************************)
EXTENDS ParallelFor, WellFoundedInduction, TLAPS

-----------------------------------------------------------------------------
(***************************************************************************)
(* Arithmetic of chunks.                                                   *)
(***************************************************************************)
(* n items in chunks of s make k of them: they hold all, and none is empty.*)
LEMMA Rounding ==
  ASSUME NEW n \in Nat, NEW s \in Nat \ {0}
  PROVE  LET k == (n + s - 1) \div s
         IN /\ k \in Nat
            /\ n <= k * s
            /\ n = 0 => k = 0
            /\ n # 0 => k # 0 /\ (k - 1) * s < n
<1> DEFINE m == n + s - 1
           k == m \div s
           r == m % s
<1>1. m \in Nat /\ s \in Int /\ s > 0
  OBVIOUS
<1>2. k \in Int /\ r \in 0 .. s - 1 /\ m = s * k + r
  BY <1>1
<1> QED
  BY <1>2

(* A chunk ends before a later one begins.                                 *)
LEMMA Product ==
  ASSUME NEW s \in Nat \ {0}, NEW c \in Nat, NEW d \in Nat, c < d
  PROVE  (c + 1) * s <= d * s
  OBVIOUS

(* Every index is in a chunk.                                              *)
LEMMA Quotient ==
  ASSUME NEW s \in Nat \ {0}, NEW i \in Nat
  PROVE  \E c \in Nat : c * s <= i /\ i < (c + 1) * s
<1>1. i \div s \in Nat /\ (i \div s) * s <= i /\ i < (i \div s + 1) * s
  OBVIOUS
<1> QED
  BY <1>1

(* A set of naturals that is not empty has a least element.                *)
LEMMA LeastOf ==
  ASSUME NEW S \in SUBSET Nat, S # {}
  PROVE  \E m \in S : \A n \in S : m <= n
<1> DEFINE R == OpToRel(<, Nat)
<1>1. IsWellFoundedOn(R, Nat)
  BY NatLessThanWellFounded
<1>2. \A x, y \in Nat : y < x => <<y, x>> \in R
  BY DEF OpToRel
<1> HIDE DEF R
<1>3. PICK m \in S : \A n \in S : ~(<<n, m>> \in R)
  BY <1>1, WFMin
<1>4. \A n \in S : ~(n < m)
  BY <1>2, <1>3
<1> QED
  BY <1>3, <1>4

(* The first index of chunk c and the one after its last.                  *)
Lo(c) == c * ChunkSize
Hi(c) == Smaller(count, (c + 1) * ChunkSize)
All == 0 .. Chunks - 1

(* What the rest of the proofs needs to know about chunks.                 *)
Geometry ==
  /\ Workers \in Nat /\ ChunkSize \in Nat \ {0} /\ Chunks \in Nat /\ Chunks <= count
  /\ \A c \in Nat : Lo(c) \in Nat /\ Hi(c) \in Nat /\ Hi(c) <= count
  /\ \A c \in All : Lo(c) < Hi(c)
  /\ \A c, d \in All : c < d => Hi(c) <= Lo(d)
  /\ \A i \in 0 .. count - 1 : \E c \in All : Lo(c) <= i /\ i < Hi(c)

(* The chunks of a call have a positive length and cover its indices.      *)
LEMMA ChunksFit == ASSUME count \in Nat PROVE Geometry
<1>1. Larger(Grain, 1) \in Nat \ {0}
  BY ConstantsAssumption DEF Larger
<1>2. count \div Larger(Grain, 1) \in Nat
  BY <1>1
<1>3. Workers \in Nat \ {0}
  BY <1>2, ConstantsAssumption DEF Workers, Larger, Smaller
<1>4. Workers * ChunksPerWorker \in Nat \ {0}
  BY <1>3, ConstantsAssumption
<1>5. ChunkSize \in Nat \ {0}
  <2>1. count \div (Workers * ChunksPerWorker) \in Nat
    BY <1>4
  <2> QED
    BY <2>1 DEF ChunkSize, Larger
<1>6. /\ Chunks \in Nat /\ count <= Chunks * ChunkSize
      /\ count = 0 => Chunks = 0
      /\ count # 0 => Chunks # 0 /\ (Chunks - 1) * ChunkSize < count
  BY <1>5, Rounding DEF Chunks
<1>7. \A c \in Nat : Lo(c) \in Nat /\ Hi(c) \in Nat /\ Hi(c) <= count
  BY <1>5 DEF Lo, Hi, Smaller
<1>8. \A c \in All : Lo(c) < Hi(c)
  <2> SUFFICES ASSUME NEW c \in All PROVE Lo(c) < Hi(c)
    OBVIOUS
  <2>1. c \in Nat /\ c <= Chunks - 1 /\ count # 0
    BY <1>6 DEF All
  <2>2. c * ChunkSize < count
    <3>1. CASE c = Chunks - 1
      BY <1>6, <2>1, <3>1
    <3>2. CASE c < Chunks - 1
      <4>1. (c + 1) * ChunkSize <= (Chunks - 1) * ChunkSize
        BY <1>5, <1>6, <2>1, <3>2, Product
      <4>2. c * ChunkSize <= (c + 1) * ChunkSize
        BY <1>5, <2>1
      <4> QED
        BY <1>5, <1>6, <2>1, <4>1, <4>2
    <3> QED
      BY <1>6, <2>1, <3>1, <3>2
  <2>3. c * ChunkSize < (c + 1) * ChunkSize
    BY <1>5, <2>1
  <2> QED
    BY <2>2, <2>3 DEF Lo, Hi, Smaller
<1>9. \A c, d \in All : c < d => Hi(c) <= Lo(d)
  <2> SUFFICES ASSUME NEW c \in All, NEW d \in All, c < d PROVE Hi(c) <= Lo(d)
    OBVIOUS
  <2>1. c \in Nat /\ d \in Nat
    BY <1>6 DEF All
  <2>2. (c + 1) * ChunkSize <= d * ChunkSize
    BY <1>5, <2>1, Product
  <2>3. Hi(c) <= (c + 1) * ChunkSize
    BY <1>5, <2>1 DEF Hi, Smaller
  <2> QED
    BY <1>5, <1>7, <2>1, <2>2, <2>3 DEF Lo
<1>10. \A i \in 0 .. count - 1 : \E c \in All : Lo(c) <= i /\ i < Hi(c)
  <2> SUFFICES ASSUME NEW i \in 0 .. count - 1
               PROVE  \E c \in All : Lo(c) <= i /\ i < Hi(c)
    OBVIOUS
  <2>0. i \in Nat
    OBVIOUS
  <2>1. PICK c \in Nat : c * ChunkSize <= i /\ i < (c + 1) * ChunkSize
    BY <1>5, <2>0, Quotient
  <2>2. c < Chunks
    <3> DEFINE total == Chunks * ChunkSize
               begin == c * ChunkSize
    <3>1. total \in Nat /\ begin \in Nat /\ (Chunks <= c => total <= begin)
      BY <1>5, <1>6
    <3>2. count <= total /\ begin <= i
      BY <1>6, <2>1
    <3> HIDE DEF total, begin
    <3> QED
      BY <1>6, <3>1, <3>2
  <2>3. c \in All
    BY <1>6, <2>2 DEF All
  <2>4. Lo(c) <= i /\ i < Hi(c)
    BY <2>1 DEF Lo, Hi, Smaller
  <2> QED
    BY <2>3, <2>4
<1>11. Chunks <= count
  <2>1. CASE count = 0
    BY <1>6, <2>1
  <2>2. CASE count # 0
    BY <1>5, <1>6, <2>2
  <2> QED
    BY <2>1, <2>2
<1> QED
  BY <1>3, <1>5, <1>6, <1>7, <1>8, <1>9, <1>10, <1>11 DEF Geometry

-----------------------------------------------------------------------------
(***************************************************************************)
(* The invariant.                                                          *)
(***************************************************************************)
(* body was called once on each index of chunk c below k, and on no other. *)
Ran(c, k) == /\ \A i \in Lo(c) .. k - 1 : calls[i] = 1
             /\ \A i \in k .. Hi(c) - 1 : calls[i] = 0
Clean(c, k) == \A i \in Lo(c) .. k - 1 : i \notin failing

Untaken(c) == failures[c] = None /\ Ran(c, Lo(c))
Worked(c, k) == /\ Lo(c) <= k /\ k <= Hi(c)
                /\ failures[c] = None /\ Ran(c, k) /\ Clean(c, k)
Failed(c, f) == /\ Lo(c) <= f /\ f < Hi(c) /\ f \in failing
                /\ failures[c] = f /\ Ran(c, f + 1) /\ Clean(c, f)
Left(c) == Worked(c, Hi(c)) \/ \E f \in Indices : Failed(c, f)

(* Every chunk is not taken, or worked by one worker, or left.             *)
ChunkInv ==
  /\ \A w \in Threads : pc[w] = "call" => chunk[w] \in All /\ chunk[w] < next
  /\ \A w \in Threads, c \in All, k \in Nat :
       pc[w] = "call" /\ chunk[w] = c /\ at[w] = k => Worked(c, k)
  /\ \A v, w \in Threads : pc[v] = "call" /\ pc[w] = "call" /\ v # w => chunk[v] # chunk[w]
  /\ \A c \in All : next <= c => Untaken(c)
  /\ \A c \in All : c < next /\ (\A w \in Threads : pc[w] = "call" => chunk[w] # c) => Left(c)
  /\ \A i \in Indices : count <= i => calls[i] = 0

Over == {"not started", "ended"}

(* The caller: where it is, and what it knows of the threads.              *)
CallerInv ==
  /\ pc[0] \in {"start", "take", "call", "join", "rethrow", "returned"}
  /\ \A w \in Threads \ {0} : pc[w] \in Over \cup {"take", "call"}
  /\ pc[0] \in {"join", "rethrow", "returned"} => outcome = SpawnFailed \/ Chunks <= next
  /\ pc[0] \in {"rethrow", "returned"} => \A w \in Threads \ {0} : pc[w] \in Over
  /\ pc[0] = "returned" => outcome \in {SpawnFailed, Rethrown}

(* The plain loop of a call with one worker.                               *)
SerialInv ==
  /\ pc[0] \in {"serial", "returned"}
  /\ \A w \in Threads \ {0} : pc[w] = "not started"
  /\ at[0] <= count
  /\ \A i \in Indices : calls[i] = IF i < at[0] THEN 1 ELSE 0
  /\ pc[0] = "serial" => \A i \in 0 .. at[0] - 1 : i \notin failing
  /\ pc[0] = "returned" =>
       \/ outcome = Fine /\ at[0] = count /\ failing = {}
       \/ /\ outcome \in failing /\ at[0] = outcome + 1
          /\ \A i \in 0 .. outcome - 1 : i \notin failing

IInv == /\ TypeOK
        /\ IF Workers <= 1 THEN SerialInv ELSE ChunkInv /\ CallerInv

-----------------------------------------------------------------------------
(***************************************************************************)
(* Frames.                                                                 *)
(***************************************************************************)
LEMMA Typed ==
  ASSUME TypeOK
  PROVE  /\ count \in Nat /\ count <= MaxCount /\ next \in Nat
         /\ \A w \in Threads : chunk[w] \in Nat /\ at[w] \in Nat
         /\ 0 \in Threads
<1>1. /\ count \in 0 .. MaxCount /\ next \in Nat
      /\ chunk \in [Threads -> Nat] /\ at \in [Threads -> Nat]
  BY DEF TypeOK
<1>2. 0 \in Threads
  BY ConstantsAssumption DEF Threads
<1> QED
  BY <1>1, <1>2, ConstantsAssumption

(* No step changes the arguments, and with them the chunks.                *)
LEMMA SameChunks ==
  ASSUME count' = count
  PROVE  /\ Workers' = Workers /\ ChunkSize' = ChunkSize /\ Chunks' = Chunks /\ All' = All
         /\ \A c : Lo(c)' = Lo(c) /\ Hi(c)' = Hi(c)
<1>1. Workers' = Workers
  BY DEF Workers
<1>2. ChunkSize' = ChunkSize
  BY <1>1 DEF ChunkSize
<1>3. Chunks' = Chunks
  BY <1>2 DEF Chunks
<1> QED
  BY <1>1, <1>2, <1>3 DEF All, Lo, Hi

(* A step that calls no body of chunk c and leaves its place in failures   *)
(* leaves the state of the chunk.                                          *)
LEMMA SameChunk ==
  ASSUME NEW c, count' = count, failing' = failing, failures'[c] = failures[c],
         \A i \in Lo(c) .. Hi(c) - 1 : calls'[i] = calls[i],
         Lo(c) \in Nat, Hi(c) \in Nat, Lo(c) <= Hi(c)
  PROVE  /\ Untaken(c) => Untaken(c)'
         /\ \A k \in Nat : Worked(c, k) => Worked(c, k)'
         /\ Left(c) => Left(c)'
<1>1. Lo(c)' = Lo(c) /\ Hi(c)' = Hi(c)
  BY SameChunks
<1>2. \A k \in Nat : Lo(c) <= k /\ k <= Hi(c) /\ Ran(c, k) => Ran(c, k)'
  BY <1>1 DEF Ran
<1>3. \A k : Clean(c, k) => Clean(c, k)'
  BY <1>1 DEF Clean
<1>4. Untaken(c) => Untaken(c)'
  BY <1>1, <1>2 DEF Untaken
<1>5. \A k \in Nat : Worked(c, k) => Worked(c, k)'
  BY <1>1, <1>2, <1>3 DEF Worked
<1>6. \A f \in Nat : Failed(c, f) => Failed(c, f)'
  <2> SUFFICES ASSUME NEW f \in Nat, Failed(c, f) PROVE Failed(c, f)'
    OBVIOUS
  <2>1. Ran(c, f + 1)' /\ Clean(c, f)'
    BY <1>2, <1>3 DEF Failed
  <2> QED
    BY <1>1, <2>1 DEF Failed
<1>7. Left(c) => Left(c)'
  BY <1>1, <1>5, <1>6 DEF Left, Indices
<1> QED
  BY <1>4, <1>5, <1>7

(* The scan over failures finds the lowest chunk that failed.              *)
LEMMA RethrownIsLowest ==
  ASSUME TypeOK
  PROVE  \/ Rethrown = Fine /\ \A c \in All : failures[c] = None
         \/ \E c \in All : /\ failures[c] # None /\ Rethrown = failures[c]
                          /\ \A d \in All : failures[d] # None => c <= d
<1> DEFINE failed == {c \in 0 .. Chunks - 1 : failures[c] # None}
<1>1. CASE failed = {}
  <2>1. Rethrown = Fine
    BY <1>1 DEF Rethrown
  <2> QED
    BY <1>1, <2>1 DEF All
<1>2. CASE failed # {}
  <2>1. count \in Nat
    BY Typed
  <2>2. failed \in SUBSET Nat
    BY <2>1, ChunksFit DEF Geometry
  <2>3. \E c \in failed : \A d \in failed : c <= d
    BY <1>2, <2>2, LeastOf
  <2> DEFINE least == CHOOSE c \in failed : \A d \in failed : c <= d
  <2>4. least \in failed /\ \A d \in failed : least <= d
    BY <2>3
  <2>5. Rethrown = failures[least]
    BY <1>2 DEF Rethrown
  <2> HIDE DEF least
  <2> QED
    BY <2>4, <2>5 DEF All
<1> QED
  BY <1>1, <1>2

-----------------------------------------------------------------------------
(***************************************************************************)
(* The chunks through the steps.                                           *)
(***************************************************************************)
(* A step that neither calls body nor moves a worker to or from a chunk.   *)
LEMMA QuietKeepsChunks ==
  ASSUME TypeOK, ChunkInv,
         UNCHANGED <<count, failing, next, failures, chunk, at, calls>>,
         \A w \in Threads : pc'[w] = "call" <=> pc[w] = "call"
  PROVE  ChunkInv'
<1>1. /\ count \in Nat /\ Geometry
      /\ \A w \in Threads : at[w] \in Nat
  BY Typed, ChunksFit
<1>2. \A c \in All : c \in Nat /\ Lo(c) \in Nat /\ Hi(c) \in Nat /\ Lo(c) <= Hi(c)
  BY <1>1 DEF Geometry, All
<1>3. \A c \in All : /\ Untaken(c) => Untaken(c)'
                     /\ \A k \in Nat : Worked(c, k) => Worked(c, k)'
                     /\ Left(c) => Left(c)'
  BY <1>2, SameChunk
<1>4. All' = All
  BY SameChunks
<1>5. \A w \in Threads : pc'[w] = "call" => chunk'[w] \in All' /\ chunk'[w] < next'
  BY <1>4 DEF ChunkInv
<1>6. \A w \in Threads, c \in All, k \in Nat :
        pc'[w] = "call" /\ chunk'[w] = c /\ at'[w] = k => Worked(c, k)'
  BY <1>3 DEF ChunkInv
<1>7. \A v, w \in Threads : pc'[v] = "call" /\ pc'[w] = "call" /\ v # w => chunk'[v] # chunk'[w]
  BY DEF ChunkInv
<1>8. \A c \in All : next' <= c => Untaken(c)'
  BY <1>3 DEF ChunkInv
<1>9. \A c \in All : c < next' /\ (\A w \in Threads : pc'[w] = "call" => chunk'[w] # c) => Left(c)'
  BY <1>3 DEF ChunkInv
<1>10. \A i \in Indices : count' <= i => calls'[i] = 0
  BY DEF ChunkInv
<1> QED
  BY <1>4, <1>5, <1>6, <1>7, <1>8, <1>9, <1>10 DEF ChunkInv

(* fetch_add hands the lowest chunk not taken to the worker.               *)
LEMMA TakeKeepsChunks ==
  ASSUME TypeOK, ChunkInv, NEW w \in Threads, Take(w)
  PROVE  ChunkInv'
<1>1. /\ count \in Nat /\ Geometry /\ next \in Nat /\ next' = next + 1
      /\ \A v \in Threads : at[v] \in Nat /\ chunk[v] \in Nat
      /\ UNCHANGED <<count, failing, failures, calls, outcome>>
  BY Typed, ChunksFit DEF Take, arguments
<1>2. \A c \in All : c \in Nat /\ Lo(c) \in Nat /\ Hi(c) \in Nat /\ Lo(c) <= Hi(c)
  BY <1>1 DEF Geometry, All
<1>3. \A c \in All : /\ Untaken(c) => Untaken(c)'
                     /\ \A k \in Nat : Worked(c, k) => Worked(c, k)'
                     /\ Left(c) => Left(c)'
  BY <1>1, <1>2, SameChunk
<1>4. All' = All /\ \A c : Lo(c)' = Lo(c) /\ Hi(c)' = Hi(c)
  BY <1>1, SameChunks
<1>5. \A v \in Threads : v # w => /\ pc'[v] = pc[v] /\ chunk'[v] = chunk[v] /\ at'[v] = at[v]
  BY DEF Take, TypeOK, Goto, WorkEnds
<1>6. pc[w] # "call" /\ (pc'[w] = "call" <=> next \in All)
  <2>1. next < Chunks <=> next \in All
    BY <1>1 DEF All, Geometry
  <2>2. \A step : Goto(w, step) => pc'[w] = step
    BY DEF TypeOK, Goto
  <2>3. pc'[w] = "call" <=> next < Chunks
    BY <2>2 DEF Take, WorkEnds
  <2> QED
    BY <2>1, <2>3 DEF Take
<1>7. chunk'[w] = next /\ at'[w] = Lo(next)
  BY DEF Take, TypeOK, Lo
<1>8. next \in All => Worked(next, Lo(next))
  <2> SUFFICES ASSUME next \in All PROVE Worked(next, Lo(next))
    OBVIOUS
  <2>1. Untaken(next)
    BY <1>1 DEF ChunkInv
  <2>2. Clean(next, Lo(next))
    BY <1>2 DEF Clean
  <2> QED
    BY <1>2, <2>1, <2>2 DEF Worked, Untaken
<1>9. \A v \in Threads : pc'[v] = "call" => chunk'[v] \in All' /\ chunk'[v] < next'
  BY <1>1, <1>4, <1>5, <1>6, <1>7 DEF ChunkInv
<1>10. \A v \in Threads, c \in All, k \in Nat :
        pc'[v] = "call" /\ chunk'[v] = c /\ at'[v] = k => Worked(c, k)'
  <2> SUFFICES ASSUME NEW v \in Threads, NEW c \in All, NEW k \in Nat,
                      pc'[v] = "call", chunk'[v] = c, at'[v] = k
               PROVE  Worked(c, k)
    BY <1>3
  <2>1. CASE v = w
    BY <1>6, <1>7, <1>8, <2>1
  <2>2. CASE v # w
    BY <1>5, <2>2 DEF ChunkInv
  <2> QED
    BY <2>1, <2>2
<1>11. \A u, v \in Threads : pc'[u] = "call" /\ pc'[v] = "call" /\ u # v => chunk'[u] # chunk'[v]
  BY <1>1, <1>5, <1>6, <1>7 DEF ChunkInv
<1>12. \A c \in All : next' <= c => Untaken(c)'
  BY <1>1, <1>2, <1>3 DEF ChunkInv
<1>13. \A c \in All : c < next' /\ (\A v \in Threads : pc'[v] = "call" => chunk'[v] # c) => Left(c)'
  <2> SUFFICES ASSUME NEW c \in All, c < next',
                      \A v \in Threads : pc'[v] = "call" => chunk'[v] # c
               PROVE  Left(c)
    BY <1>3
  <2>1. c # next
    BY <1>6, <1>7
  <2>2. c < next
    BY <1>1, <1>2, <2>1
  <2>3. \A v \in Threads : pc[v] = "call" => chunk[v] # c
    BY <1>5, <1>6
  <2> QED
    BY <2>2, <2>3 DEF ChunkInv
<1>14. \A i \in Indices : count' <= i => calls'[i] = 0
  BY <1>1 DEF ChunkInv
<1> QED
  BY <1>4, <1>9, <1>10, <1>11, <1>12, <1>13, <1>14 DEF ChunkInv

(* The worker leaves its chunk at the end of it.                           *)
LEMMA EndChunkKeepsChunks ==
  ASSUME TypeOK, ChunkInv, NEW w \in Threads, EndChunk(w)
  PROVE  ChunkInv'
<1>1. /\ count \in Nat /\ Geometry /\ next \in Nat
      /\ \A v \in Threads : at[v] \in Nat /\ chunk[v] \in Nat
      /\ UNCHANGED <<count, failing, next, failures, chunk, at, calls>>
  BY Typed, ChunksFit DEF EndChunk, arguments
<1>2. \A c \in All : c \in Nat /\ Lo(c) \in Nat /\ Hi(c) \in Nat /\ Lo(c) <= Hi(c)
  BY <1>1 DEF Geometry, All
<1>3. \A c \in All : Untaken(c) => Untaken(c)'
  BY <1>1, <1>2, SameChunk
<1>4. \A c \in All : Left(c) => Left(c)'
  BY <1>1, <1>2, SameChunk
<1>5. \A c \in All, k \in Nat : Worked(c, k) => Worked(c, k)'
  BY <1>1, <1>2, SameChunk
<1>6. All' = All
  BY <1>1, SameChunks
<1>7. pc'[w] = "take" /\ \A v \in Threads : v # w => pc'[v] = pc[v]
  BY DEF EndChunk, TypeOK, Goto
<1>8. Left(chunk[w])
  <2>1. pc[w] = "call" /\ at[w] = Hi(chunk[w])
    BY DEF EndChunk, ChunkEnd, Hi
  <2>2. chunk[w] \in All
    BY <2>1 DEF ChunkInv
  <2>3. Worked(chunk[w], at[w])
    BY <1>1, <2>1, <2>2 DEF ChunkInv
  <2> QED
    BY <2>1, <2>3 DEF Left
<1>9. \A v \in Threads : pc'[v] = "call" => chunk'[v] \in All' /\ chunk'[v] < next'
  BY <1>1, <1>6, <1>7 DEF ChunkInv
<1>10. \A v \in Threads, c \in All, k \in Nat :
         pc'[v] = "call" /\ chunk'[v] = c /\ at'[v] = k => Worked(c, k)'
  BY <1>1, <1>5, <1>7 DEF ChunkInv
<1>11. \A u, v \in Threads : pc'[u] = "call" /\ pc'[v] = "call" /\ u # v => chunk'[u] # chunk'[v]
  BY <1>1, <1>7 DEF ChunkInv
<1>12. \A c \in All : next' <= c => Untaken(c)'
  BY <1>1, <1>3 DEF ChunkInv
<1>13. \A c \in All : c < next' /\ (\A v \in Threads : pc'[v] = "call" => chunk'[v] # c) => Left(c)'
  <2> SUFFICES ASSUME NEW c \in All, c < next,
                      \A v \in Threads : pc'[v] = "call" => chunk'[v] # c
               PROVE  Left(c)
    BY <1>1, <1>4
  <2>1. CASE c = chunk[w]
    BY <1>8, <2>1
  <2>2. CASE c # chunk[w]
    <3>1. \A v \in Threads : pc[v] = "call" => chunk[v] # c
      BY <1>1, <1>7, <2>2
    <3> QED
      BY <3>1 DEF ChunkInv
  <2> QED
    BY <2>1, <2>2
<1>14. \A i \in Indices : count' <= i => calls'[i] = 0
  BY <1>1 DEF ChunkInv
<1> QED
  BY <1>6, <1>9, <1>10, <1>11, <1>12, <1>13, <1>14 DEF ChunkInv

(* One call of body, which may throw.                                      *)
LEMMA CallKeepsChunks ==
  ASSUME TypeOK, ChunkInv, NEW w \in Threads, Call(w)
  PROVE  ChunkInv'
<1>1. /\ count \in Nat /\ count <= MaxCount /\ Geometry /\ next \in Nat
      /\ \A v \in Threads : at[v] \in Nat /\ chunk[v] \in Nat
      /\ UNCHANGED <<count, failing, next, chunk>>
  BY Typed, ChunksFit DEF Call, arguments
<1>2. \A c \in All : c \in Nat /\ Lo(c) \in Nat /\ Hi(c) \in Nat /\ Lo(c) <= Hi(c) /\ Hi(c) <= count
  BY <1>1 DEF Geometry, All
<1>3. PICK a \in Nat, b \in All : /\ a = at[w] /\ b = chunk[w] /\ pc[w] = "call"
                                  /\ a < Hi(b) /\ b < next /\ Worked(b, a)
  <2>1. pc[w] = "call" /\ at[w] < Hi(chunk[w])
    BY DEF Call, ChunkEnd, Hi
  <2>2. chunk[w] \in All /\ chunk[w] < next
    BY <2>1 DEF ChunkInv
  <2>3. Worked(chunk[w], at[w])
    BY <1>1, <2>1, <2>2 DEF ChunkInv
  <2> QED
    BY <1>1, <2>1, <2>2, <2>3
<1>4. Lo(b) <= a /\ a < count /\ a \in Indices /\ b \in Indices
  <2>1. Lo(b) <= a /\ a < count
    <3>1. Lo(b) <= a
      BY <1>3 DEF Worked
    <3>2. Hi(b) \in Nat /\ Hi(b) <= count /\ a < Hi(b)
      BY <1>2, <1>3
    <3> QED
      BY <1>1, <3>1, <3>2
  <2>2. b \in Nat /\ b < count
    <3>1. Chunks \in Nat /\ Chunks <= count
      BY <1>1 DEF Geometry
    <3>2. b \in 0 .. Chunks - 1
      BY DEF All
    <3> QED
      BY <1>1, <3>1, <3>2
  <2> QED
    BY <1>1, <2>1, <2>2, ConstantsAssumption DEF Indices
<1>5. /\ calls' = [calls EXCEPT ![a] = @ + 1]
      /\ calls \in [Indices -> Nat] /\ failures \in [Indices -> Indices \cup {None}]
      /\ at \in [Threads -> Nat]
      /\ at' = [at EXCEPT ![w] = @ + 1]
  BY <1>3 DEF Call, CallBody, TypeOK
<1>6. IF a \in failing
      THEN failures' = [failures EXCEPT ![b] = a] /\ pc'[w] = "take"
      ELSE failures' = failures /\ pc' = pc
  BY <1>3 DEF Call, Goto, TypeOK
<1>7. \A v \in Threads : v # w => pc'[v] = pc[v] /\ at'[v] = at[v]
  BY <1>5 DEF Call, Goto, TypeOK
<1>8. All' = All /\ Lo(b)' = Lo(b) /\ Hi(b)' = Hi(b)
  BY <1>1, SameChunks
<1>9. \A c \in All : c # b => /\ failures'[c] = failures[c]
                              /\ \A i \in Lo(c) .. Hi(c) - 1 : calls'[i] = calls[i]
  <2> SUFFICES ASSUME NEW c \in All, c # b
               PROVE  /\ failures'[c] = failures[c]
                      /\ \A i \in Lo(c) .. Hi(c) - 1 : calls'[i] = calls[i]
    OBVIOUS
  <2>1. c \in Indices
    BY <1>1, ConstantsAssumption DEF All, Geometry, Indices
  <2>2. failures'[c] = failures[c]
    BY <1>5, <1>6, <2>1
  <2>3. c < b \/ b < c
    BY <1>2
  <2>4. Hi(c) <= Lo(b) \/ Hi(b) <= Lo(c)
    BY <1>1, <2>3 DEF Geometry
  <2>5. \A i \in Lo(c) .. Hi(c) - 1 : i # a /\ i \in Indices
    BY <1>1, <1>2, <1>3, <1>4, <2>4, ConstantsAssumption DEF Indices
  <2> QED
    BY <1>5, <2>2, <2>5
<1>10. \A c \in All : c # b => /\ Untaken(c) => Untaken(c)'
                               /\ Left(c) => Left(c)'
                               /\ \A k \in Nat : Worked(c, k) => Worked(c, k)'
  BY <1>1, <1>2, <1>9, SameChunk
<1>11. Ran(b, a + 1)'
  <2>1. \A i \in Lo(b) .. a : calls'[i] = 1
    <3> SUFFICES ASSUME NEW i \in Lo(b) .. a PROVE calls'[i] = 1
      OBVIOUS
    <3>1. i \in Indices /\ i \in Int /\ a \in a .. Hi(b) - 1
      BY <1>1, <1>2, <1>3, <1>4, ConstantsAssumption DEF Indices
    <3>2. calls[a] = 0 /\ (i # a => calls[i] = 1)
      BY <1>2, <1>3, <3>1 DEF Worked, Ran
    <3> QED
      BY <1>4, <1>5, <3>1, <3>2
  <2>2. \A i \in a + 1 .. Hi(b) - 1 : calls'[i] = 0
    <3> SUFFICES ASSUME NEW i \in a + 1 .. Hi(b) - 1 PROVE calls'[i] = 0
      OBVIOUS
    <3>1. i \in Indices /\ i # a /\ i \in a .. Hi(b) - 1
      BY <1>1, <1>2, <1>3, <1>4, ConstantsAssumption DEF Indices
    <3>2. calls[i] = 0
      BY <1>3, <3>1 DEF Worked, Ran
    <3> QED
      BY <1>4, <1>5, <3>1, <3>2
  <2>3. Lo(b) \in Nat /\ Hi(b) \in Nat /\ a + 1 - 1 = a
    BY <1>2
  <2> QED
    BY <1>8, <2>1, <2>2, <2>3 DEF Ran
<1>12. Clean(b, a)'
  BY <1>1, <1>3, <1>8 DEF Worked, Clean
<1>13. \A c \in All : next <= c => c # b /\ Untaken(c)
  <2>1. \A c \in All : next <= c => c # b
    BY <1>1, <1>2, <1>3
  <2> QED
    BY <2>1 DEF ChunkInv
<1>14. CASE a \in failing
  <2>1. failures'[b] = a
    BY <1>4, <1>5, <1>6, <1>14
  <2>2. Failed(b, a)'
    BY <1>1, <1>3, <1>4, <1>8, <1>11, <1>12, <1>14, <2>1 DEF Failed
  <2>3. Left(b)'
    BY <1>4, <2>2 DEF Left
  <2>4. pc'[w] = "take"
    BY <1>6, <1>14
  <2>5. \A v \in Threads : pc'[v] = "call" => chunk'[v] \in All' /\ chunk'[v] < next'
    BY <1>1, <1>7, <1>8, <2>4 DEF ChunkInv
  <2>6. \A v \in Threads : pc'[v] = "call" => chunk'[v] # b
    BY <1>1, <1>3, <1>7, <2>4 DEF ChunkInv
  <2>7. \A v \in Threads, c \in All, k \in Nat :
          pc'[v] = "call" /\ chunk'[v] = c /\ at'[v] = k => Worked(c, k)'
    BY <1>1, <1>7, <1>10, <2>4, <2>6 DEF ChunkInv
  <2>8. \A u, v \in Threads : pc'[u] = "call" /\ pc'[v] = "call" /\ u # v => chunk'[u] # chunk'[v]
    BY <1>1, <1>7, <2>4 DEF ChunkInv
  <2>9. \A c \in All : next' <= c => Untaken(c)'
    BY <1>1, <1>10, <1>13
  <2>10. \A c \in All : c < next' /\ (\A v \in Threads : pc'[v] = "call" => chunk'[v] # c) => Left(c)'
    <3> SUFFICES ASSUME NEW c \in All, c < next, c # b,
                        \A v \in Threads : pc'[v] = "call" => chunk'[v] # c
                 PROVE  Left(c)
      BY <1>1, <1>10, <2>3
    <3>1. \A v \in Threads : pc[v] = "call" => chunk[v] # c
      BY <1>1, <1>3, <1>7
    <3> QED
      BY <3>1 DEF ChunkInv
  <2>11. \A i \in Indices : count' <= i => calls'[i] = 0
    BY <1>1, <1>4, <1>5 DEF ChunkInv, Indices
  <2> QED
    BY <1>8, <2>5, <2>7, <2>8, <2>9, <2>10, <2>11 DEF ChunkInv
<1>15. CASE a \notin failing
  <2>1. failures' = failures /\ pc' = pc
    BY <1>6, <1>15
  <2>2. Worked(b, a + 1)'
    <3>1. Clean(b, a + 1)'
      BY <1>1, <1>2, <1>8, <1>12, <1>15 DEF Clean
    <3>2. Lo(b)' <= a + 1 /\ a + 1 <= Hi(b)'
      BY <1>2, <1>3, <1>4, <1>8
    <3>3. failures'[b] = None
      BY <1>3, <2>1 DEF Worked
    <3> QED
      BY <1>11, <3>1, <3>2, <3>3 DEF Worked
  <2>3. at'[w] = a + 1
    BY <1>3, <1>5
  <2>5. \A v \in Threads : pc'[v] = "call" => chunk'[v] \in All' /\ chunk'[v] < next'
    BY <1>1, <1>8, <2>1 DEF ChunkInv
  <2>6. \A v \in Threads : v # w /\ pc'[v] = "call" => chunk'[v] # b
    BY <1>1, <1>3, <2>1 DEF ChunkInv
  <2>7. \A v \in Threads, c \in All, k \in Nat :
          pc'[v] = "call" /\ chunk'[v] = c /\ at'[v] = k => Worked(c, k)'
    <3> SUFFICES ASSUME NEW v \in Threads, NEW c \in All, NEW k \in Nat,
                        pc'[v] = "call", chunk'[v] = c, at'[v] = k
                 PROVE  Worked(c, k)'
      OBVIOUS
    <3>1. CASE v = w
      <4>1. c = b /\ k = a + 1
        BY <1>1, <1>3, <2>3, <3>1
      <4> QED
        BY <2>2, <4>1
    <3>2. CASE v # w
      <4>1. c # b /\ Worked(c, k)
        BY <1>1, <1>7, <2>1, <2>6, <3>2 DEF ChunkInv
      <4> QED
        BY <1>10, <4>1
    <3> QED
      BY <3>1, <3>2
  <2>8. \A u, v \in Threads : pc'[u] = "call" /\ pc'[v] = "call" /\ u # v => chunk'[u] # chunk'[v]
    BY <1>1, <2>1 DEF ChunkInv
  <2>9. \A c \in All : next' <= c => Untaken(c)'
    BY <1>1, <1>10, <1>13
  <2>10. \A c \in All : c < next' /\ (\A v \in Threads : pc'[v] = "call" => chunk'[v] # c) => Left(c)'
    <3> SUFFICES ASSUME NEW c \in All, c < next, c # b,
                        \A v \in Threads : pc[v] = "call" => chunk[v] # c
                 PROVE  Left(c)
      BY <1>1, <1>3, <1>10, <2>1
    <3> QED
      BY DEF ChunkInv
  <2>11. \A i \in Indices : count' <= i => calls'[i] = 0
    BY <1>1, <1>4, <1>5 DEF ChunkInv, Indices
  <2> QED
    BY <1>8, <2>5, <2>7, <2>8, <2>9, <2>10, <2>11 DEF ChunkInv
<1> QED
  BY <1>14, <1>15

-----------------------------------------------------------------------------
(***************************************************************************)
(* The invariant through the steps of a call with several workers.         *)
(***************************************************************************)
(* A worker's chunk and the index it calls are in range.                   *)
LEMMA InRange ==
  ASSUME TypeOK, ChunkInv, NEW w \in Threads, pc[w] = "call"
  PROVE  /\ chunk[w] \in Indices
         /\ at[w] < ChunkEnd(w) => at[w] \in Indices
<1>1. /\ count \in Nat /\ count <= MaxCount /\ Geometry /\ MaxCount \in Nat
      /\ at[w] \in Nat /\ chunk[w] \in Nat /\ chunk[w] \in All
  BY Typed, ChunksFit, ConstantsAssumption DEF ChunkInv
<1>2. chunk[w] < count
  BY <1>1 DEF All, Geometry
<1>3. ChunkEnd(w) \in Nat /\ ChunkEnd(w) <= count
  BY <1>1 DEF Geometry, ChunkEnd, Hi
<1> QED
  BY <1>1, <1>2, <1>3 DEF Indices

(* What the caller rethrows is a failing index, or nothing.                *)
LEMMA RethrownTyped ==
  ASSUME TypeOK
  PROVE  Rethrown \in Indices \cup {Fine}
<1>1. count \in Nat /\ count <= MaxCount /\ Geometry /\ MaxCount \in Nat
  BY Typed, ChunksFit, ConstantsAssumption
<1>2. \A c \in All : c \in Indices
  BY <1>1 DEF All, Geometry, Indices
<1>3. \A c \in All : failures[c] \in Indices \cup {None}
  BY <1>2 DEF TypeOK
<1> QED
  BY <1>3, RethrownIsLowest

(* The shape of the state through a call with several workers.             *)
LEMMA ParallelTyped ==
  ASSUME TypeOK, ChunkInv, CallerInv, Next
  PROVE  TypeOK'
<1> DEFINE Places == {"serial", "not started", "start", "take", "call",
                      "join", "ended", "rethrow", "returned"}
           Moved == pc' \in [Threads -> Places]
           Shape == /\ count' \in 0 .. MaxCount /\ failing' \subseteq 0 .. count' - 1
                    /\ next' \in Nat /\ failures' \in [Indices -> Indices \cup {None}]
                    /\ chunk' \in [Threads -> Nat] /\ at' \in [Threads -> Nat]
                    /\ calls' \in [Indices -> Nat]
                    /\ outcome' \in Indices \cup {None, Fine, SpawnFailed}
<1>0. Shape /\ Moved => TypeOK'
  BY DEF TypeOK
<1>1. 0 \in Threads
  BY Typed
<1>2. \A w \in Threads, step \in Places : Goto(w, step) => Moved
  BY DEF Goto, TypeOK
<1>3. UNCHANGED <<arguments, next, failures, chunk, at, calls, outcome>> => Shape
  BY DEF TypeOK, arguments
<1>4. ASSUME SerialStep \/ SerialEnd PROVE TypeOK'
  BY <1>4 DEF SerialStep, SerialEnd, CallerInv
<1>5. ASSUME NEW w \in Threads, Start(w) PROVE TypeOK'
  BY <1>0, <1>2, <1>3, <1>5 DEF Start
<1>6. ASSUME StartFails PROVE TypeOK'
  <2>1. Shape
    BY <1>6 DEF StartFails, TypeOK, arguments
  <2> QED
    BY <1>0, <1>1, <1>2, <1>6, <2>1 DEF StartFails
<1>7. ASSUME Started PROVE TypeOK'
  BY <1>0, <1>1, <1>2, <1>3, <1>7 DEF Started
<1>8. ASSUME NEW w \in Threads, Take(w) PROVE TypeOK'
  <2>1. count \in Nat /\ next \in Nat /\ ChunkSize \in Nat
    BY Typed, ChunksFit DEF Geometry
  <2>2. next * ChunkSize \in Nat /\ next + 1 \in Nat
    BY <2>1
  <2>3. Shape
    BY <1>8, <2>1, <2>2 DEF Take, TypeOK, arguments
  <2>4. Moved
    BY <1>2, <1>8 DEF Take, WorkEnds
  <2> QED
    BY <1>0, <2>3, <2>4
<1>9. ASSUME NEW w \in Threads, Call(w) PROVE TypeOK'
  <2>1. chunk[w] \in Indices /\ at[w] \in Indices
    BY <1>9, InRange DEF Call
  <2>2. /\ count' \in 0 .. MaxCount /\ failing' \subseteq 0 .. count' - 1
        /\ next' \in Nat /\ chunk' \in [Threads -> Nat]
        /\ outcome' \in Indices \cup {None, Fine, SpawnFailed}
    BY <1>9 DEF Call, TypeOK, arguments
  <2>3. at' \in [Threads -> Nat]
    <3>1. at \in [Threads -> Nat] /\ at' = [at EXCEPT ![w] = @ + 1]
      BY <1>9 DEF Call, TypeOK
    <3> QED
      BY <3>1
  <2>4. calls' \in [Indices -> Nat]
    <3>1. calls \in [Indices -> Nat] /\ calls' = [calls EXCEPT ![at[w]] = @ + 1]
      BY <1>9 DEF Call, CallBody, TypeOK
    <3> QED
      BY <2>1, <3>1
  <2>5. failures' \in [Indices -> Indices \cup {None}]
    BY <1>9, <2>1 DEF Call, TypeOK
  <2>6. Moved
    BY <1>2, <1>9 DEF Call, TypeOK
  <2> QED
    BY <1>0, <2>2, <2>3, <2>4, <2>5, <2>6
<1>10. ASSUME NEW w \in Threads, EndChunk(w) PROVE TypeOK'
  BY <1>0, <1>2, <1>3, <1>10 DEF EndChunk
<1>11. ASSUME Join PROVE TypeOK'
  BY <1>0, <1>1, <1>2, <1>3, <1>11 DEF Join
<1>12. ASSUME Rethrow PROVE TypeOK'
  <2>1. Rethrown \in Indices \cup {Fine}
    BY RethrownTyped
  <2>2. /\ UNCHANGED <<arguments, next, failures, chunk, at, calls>>
        /\ outcome' \in {SpawnFailed, Rethrown} /\ Goto(0, "returned")
    BY <1>12 DEF Rethrow, Return
  <2>3. Shape
    BY <2>1, <2>2 DEF TypeOK, arguments
  <2> QED
    BY <1>0, <1>1, <1>2, <2>2, <2>3
<1> QED
  BY <1>4, <1>5, <1>6, <1>7, <1>8, <1>9, <1>10, <1>11, <1>12 DEF Next

(* The caller through a call with several workers.                         *)
LEMMA ParallelCaller ==
  ASSUME TypeOK, ChunkInv, CallerInv, Next
  PROVE  CallerInv'
<1>1. 0 \in Threads /\ count \in Nat /\ next \in Nat /\ Chunks \in Nat
  BY Typed, ChunksFit DEF Geometry
<1>2. count' = count
  BY DEF Next, SerialStep, SerialEnd, Start, StartFails, Started, Take, Call, EndChunk,
         Join, Rethrow, arguments
<1>3. Chunks' = Chunks
  BY <1>2, SameChunks
<1>4. \A w \in Threads : \A step : Goto(w, step) =>
        pc'[w] = step /\ \A v \in Threads : v # w => pc'[v] = pc[v]
  BY DEF Goto, TypeOK
<1>5. ASSUME SerialStep \/ SerialEnd PROVE CallerInv'
  BY <1>5 DEF SerialStep, SerialEnd, CallerInv
<1>6. ASSUME NEW w \in Threads, Start(w) PROVE CallerInv'
  <2>1. w # 0 /\ pc'[w] = "take" /\ pc[0] = "start"
    BY <1>4, <1>6 DEF Start
  <2>2. \A v \in Threads : v # w => pc'[v] = pc[v]
    BY <1>4, <1>6 DEF Start
  <2> QED
    BY <1>1, <2>1, <2>2 DEF CallerInv
<1>7. ASSUME StartFails PROVE CallerInv'
  <2>1. pc'[0] = "join" /\ outcome' = SpawnFailed
    BY <1>1, <1>4, <1>7 DEF StartFails
  <2>2. \A v \in Threads : v # 0 => pc'[v] = pc[v]
    BY <1>1, <1>4, <1>7 DEF StartFails
  <2> QED
    BY <1>1, <2>1, <2>2 DEF CallerInv
<1>8. ASSUME Started PROVE CallerInv'
  <2>1. pc'[0] = "take"
    BY <1>1, <1>4, <1>8 DEF Started
  <2>2. \A v \in Threads : v # 0 => pc'[v] = pc[v]
    BY <1>1, <1>4, <1>8 DEF Started
  <2> QED
    BY <1>1, <2>1, <2>2 DEF CallerInv
<1>9. ASSUME NEW w \in Threads, Take(w) PROVE CallerInv'
  <2>1. /\ pc[w] = "take" /\ next' = next + 1 /\ outcome' = outcome
        /\ IF next < Chunks THEN Goto(w, "call") ELSE WorkEnds(w)
    BY <1>9 DEF Take
  <2>2. \A v \in Threads : v # w => pc'[v] = pc[v]
    BY <1>4, <2>1 DEF WorkEnds
  <2>3. pc'[w] = IF next < Chunks THEN "call" ELSE IF w = 0 THEN "join" ELSE "ended"
    BY <1>4, <2>1 DEF WorkEnds
  <2>4. CASE w = 0
    <3>1. pc'[0] \in {"call", "join"} /\ (pc'[0] = "join" => Chunks <= next')
      BY <1>1, <2>1, <2>3, <2>4
    <3> QED
      BY <1>3, <2>1, <2>2, <2>4, <3>1 DEF CallerInv
  <2>5. CASE w # 0
    <3>1. pc[0] \notin {"rethrow", "returned"} /\ pc'[0] = pc[0]
      BY <1>1, <2>1, <2>2, <2>5 DEF CallerInv, Over
    <3>2. pc'[w] \in Over \cup {"take", "call"}
      BY <2>3, <2>5 DEF Over
    <3>3. pc'[0] = "join" => outcome' = SpawnFailed \/ Chunks' <= next'
      BY <1>1, <1>3, <2>1, <3>1 DEF CallerInv
    <3> QED
      BY <2>2, <3>1, <3>2, <3>3 DEF CallerInv
  <2> QED
    BY <2>4, <2>5
<1>10. ASSUME NEW w \in Threads, Call(w) \/ EndChunk(w) PROVE CallerInv'
  <2>1. pc[w] = "call" /\ next' = next /\ outcome' = outcome
    BY <1>10 DEF Call, EndChunk
  <2>2. pc' = pc \/ Goto(w, "take")
    BY <1>10 DEF Call, EndChunk
  <2>3. \A v \in Threads : v # w => pc'[v] = pc[v]
    BY <1>4, <2>2
  <2>4. pc'[w] \in {"call", "take"}
    BY <1>4, <2>1, <2>2
  <2>5. pc[0] \notin {"rethrow", "returned"}
    BY <2>1 DEF CallerInv, Over
  <2>6. CASE w = 0
    BY <2>3, <2>4, <2>6 DEF CallerInv
  <2>7. CASE w # 0
    <3>1. pc'[0] = pc[0]
      BY <1>1, <2>3, <2>7
    <3>2. pc'[0] = "join" => outcome' = SpawnFailed \/ Chunks' <= next'
      BY <1>3, <2>1, <3>1 DEF CallerInv
    <3> QED
      BY <2>3, <2>4, <2>5, <3>1, <3>2 DEF CallerInv
  <2> QED
    BY <2>6, <2>7
<1>11. ASSUME Join PROVE CallerInv'
  <2>1. /\ pc[0] = "join" /\ next' = next /\ outcome' = outcome
        /\ \A w \in Threads \ {0} : pc[w] \in Over
    BY <1>11 DEF Join, Over
  <2>2. pc'[0] = "rethrow" /\ \A v \in Threads : v # 0 => pc'[v] = pc[v]
    BY <1>1, <1>4, <1>11 DEF Join
  <2> QED
    BY <1>3, <2>1, <2>2 DEF CallerInv
<1>12. ASSUME Rethrow PROVE CallerInv'
  <2>1. /\ pc[0] = "rethrow" /\ next' = next /\ failures' = failures
        /\ outcome' = IF outcome = SpawnFailed THEN SpawnFailed ELSE Rethrown
        /\ Goto(0, "returned")
    BY <1>12 DEF Rethrow, Return
  <2>2. pc'[0] = "returned" /\ \A v \in Threads : v # 0 => pc'[v] = pc[v]
    BY <1>1, <1>4, <2>1
  <2>3. Rethrown' = Rethrown
    BY <1>3, <2>1 DEF Rethrown
  <2>4. outcome' \in {SpawnFailed, Rethrown'}
    BY <2>1, <2>3
  <2>5. outcome' = SpawnFailed \/ Chunks' <= next'
    BY <1>3, <2>1 DEF CallerInv
  <2>6. \A w \in Threads \ {0} : pc'[w] \in Over
    BY <2>1, <2>2 DEF CallerInv
  <2> QED
    BY <2>2, <2>4, <2>5, <2>6 DEF CallerInv
<1> QED
  BY <1>5, <1>6, <1>7, <1>8, <1>9, <1>10, <1>11, <1>12 DEF Next

(* The chunks through a call with several workers.                         *)
LEMMA ParallelChunks ==
  ASSUME TypeOK, ChunkInv, CallerInv, Next
  PROVE  ChunkInv'
<1>1. 0 \in Threads
  BY Typed
<1>2. \A w \in Threads : \A step : Goto(w, step) /\ step # "call" /\ pc[w] # "call" =>
        \A v \in Threads : pc'[v] = "call" <=> pc[v] = "call"
  BY DEF Goto, TypeOK
<1>3. ASSUME SerialStep \/ SerialEnd PROVE ChunkInv'
  BY <1>3 DEF SerialStep, SerialEnd, CallerInv
<1>4. ASSUME NEW w \in Threads, Start(w) PROVE ChunkInv'
  BY <1>2, <1>4, QuietKeepsChunks DEF Start, arguments
<1>5. ASSUME StartFails \/ Started \/ Join \/ Rethrow PROVE ChunkInv'
  <2>1. /\ UNCHANGED <<count, failing, next, failures, chunk, at, calls>>
        /\ pc[0] # "call"
    BY <1>5 DEF StartFails, Started, Join, Rethrow, arguments
  <2>2. \E step \in {"join", "take", "rethrow", "returned"} : Goto(0, step)
    BY <1>5 DEF StartFails, Started, Join, Rethrow, Return
  <2> QED
    BY <1>1, <1>2, <2>1, <2>2, QuietKeepsChunks
<1>6. ASSUME NEW w \in Threads, Take(w) \/ Call(w) \/ EndChunk(w) PROVE ChunkInv'
  BY <1>6, TakeKeepsChunks, CallKeepsChunks, EndChunkKeepsChunks
<1> QED
  BY <1>3, <1>4, <1>5, <1>6 DEF Next

-----------------------------------------------------------------------------
(***************************************************************************)
(* The invariant through a call with one worker.                           *)
(***************************************************************************)
LEMMA SerialKept ==
  ASSUME TypeOK, SerialInv, Next
  PROVE  TypeOK' /\ SerialInv' /\ count' = count
<1>1. 0 \in Threads /\ count \in Nat /\ count <= MaxCount /\ MaxCount \in Nat /\ at[0] \in Nat
  BY Typed, ConstantsAssumption
<1>2. SerialStep \/ SerialEnd
  <2>1. pc[0] \in {"serial", "returned"} /\ \A w \in Threads \ {0} : pc[w] = "not started"
    BY DEF SerialInv
  <2>2. ~StartFails /\ ~Started /\ ~Join /\ ~Rethrow /\ \A w \in Threads : ~Start(w)
    BY <2>1 DEF StartFails, Started, Join, Rethrow, Start
  <2>3. \A w \in Threads : pc[w] \notin {"take", "call"}
    BY <2>1
  <2>4. \A w \in Threads : ~Take(w) /\ ~Call(w) /\ ~EndChunk(w)
    BY <2>3 DEF Take, Call, EndChunk
  <2> QED
    BY <2>2, <2>4 DEF Next
<1>3. /\ pc \in [Threads -> {"serial", "not started", "start", "take", "call",
                             "join", "ended", "rethrow", "returned"}]
      /\ at \in [Threads -> Nat] /\ calls \in [Indices -> Nat]
      /\ failing \subseteq 0 .. count - 1
      /\ outcome \in Indices \cup {None, Fine, SpawnFailed}
  BY DEF TypeOK
<1>4. ASSUME SerialStep PROVE TypeOK' /\ SerialInv' /\ count' = count
  <2>1. /\ pc[0] = "serial" /\ at[0] < count
        /\ calls' = [calls EXCEPT ![at[0]] = @ + 1]
        /\ at' = [at EXCEPT ![0] = @ + 1]
        /\ UNCHANGED <<count, failing, next, failures, chunk>>
    BY <1>4 DEF SerialStep, CallBody, arguments
  <2>2. IF at[0] \in failing
        THEN outcome' = at[0] /\ pc' = [pc EXCEPT ![0] = "returned"]
        ELSE outcome' = outcome /\ pc' = pc
    BY <1>4 DEF SerialStep, Return, Goto
  <2>3. at[0] \in Indices
    BY <1>1, <2>1 DEF Indices
  <2>4. at'[0] = at[0] + 1 /\ at' \in [Threads -> Nat]
    <3>1. 0 \in Threads /\ at \in [Threads -> Nat] /\ at' = [at EXCEPT ![0] = @ + 1]
      BY <1>1, <1>3, <2>1
    <3> QED
      BY <3>1
  <2>5. /\ calls' \in [Indices -> Nat]
        /\ \A i \in Indices : calls'[i] = IF i = at[0] THEN calls[i] + 1 ELSE calls[i]
    <3>1. calls \in [Indices -> Nat] /\ calls' = [calls EXCEPT ![at[0]] = @ + 1]
      BY <1>3, <2>1
    <3> QED
      BY <2>3, <3>1
  <2>6. \A i \in Indices : calls'[i] = IF i < at'[0] THEN 1 ELSE 0
    <3> SUFFICES ASSUME NEW i \in Indices PROVE calls'[i] = IF i < at'[0] THEN 1 ELSE 0
      OBVIOUS
    <3>1. calls[i] = IF i < at[0] THEN 1 ELSE 0
      BY DEF SerialInv
    <3>2. i \in Int
      BY DEF Indices
    <3> QED
      BY <1>1, <2>4, <2>5, <3>1, <3>2
  <2>7. \A w \in Threads \ {0} : pc'[w] = "not started"
    BY <1>3, <2>2 DEF SerialInv
  <2>8. \A i \in 0 .. at[0] - 1 : i \notin failing
    BY <2>1 DEF SerialInv
  <2>9. at'[0] <= count'
    BY <1>1, <2>1, <2>4
  <2>10. CASE at[0] \in failing
    <3>1. pc'[0] = "returned" /\ outcome' = at[0]
      BY <1>1, <1>3, <2>2, <2>10
    <3>2. TypeOK'
      <4>1. outcome' \in Indices
        BY <2>3, <3>1
      <4>2. pc' \in [Threads -> {"serial", "not started", "start", "take", "call",
                                 "join", "ended", "rethrow", "returned"}]
        BY <1>3, <2>2, <2>10
      <4> QED
        BY <2>1, <2>4, <2>5, <4>1, <4>2 DEF TypeOK
    <3>3. outcome' \in failing' /\ at'[0] = outcome' + 1 /\ \A i \in 0 .. outcome' - 1 : i \notin failing'
      BY <2>1, <2>4, <2>8, <2>10, <3>1
    <3> QED
      BY <2>1, <2>6, <2>7, <2>9, <3>1, <3>2, <3>3 DEF SerialInv
  <2>11. CASE at[0] \notin failing
    <3>1. pc' = pc /\ outcome' = outcome
      BY <2>2, <2>11
    <3>2. TypeOK'
      BY <2>1, <2>4, <2>5, <3>1 DEF TypeOK
    <3>3. \A i \in 0 .. at'[0] - 1 : i \notin failing'
      BY <1>1, <2>1, <2>4, <2>8, <2>11
    <3> QED
      BY <2>1, <2>6, <2>7, <2>9, <3>1, <3>2, <3>3 DEF SerialInv
  <2> QED
    BY <2>10, <2>11
<1>5. ASSUME SerialEnd PROVE TypeOK' /\ SerialInv' /\ count' = count
  <2>1. /\ pc[0] = "serial" /\ at[0] = count /\ outcome' = Fine
        /\ pc' = [pc EXCEPT ![0] = "returned"]
        /\ UNCHANGED <<count, failing, next, failures, chunk, at, calls>>
    BY <1>5 DEF SerialEnd, Return, Goto, arguments
  <2>2. failing = {}
    <3>1. \A i \in 0 .. count - 1 : i \notin failing
      BY <2>1 DEF SerialInv
    <3> QED
      BY <1>3, <3>1
  <2>3. pc'[0] = "returned" /\ \A w \in Threads \ {0} : pc'[w] = "not started"
    BY <1>1, <1>3, <2>1 DEF SerialInv
  <2>4. pc' \in [Threads -> {"serial", "not started", "start", "take", "call",
                             "join", "ended", "rethrow", "returned"}]
    BY <1>3, <2>1
  <2>5. TypeOK'
    BY <2>1, <2>4 DEF TypeOK
  <2> QED
    BY <2>1, <2>2, <2>3, <2>5 DEF SerialInv
<1> QED
  BY <1>2, <1>4, <1>5

-----------------------------------------------------------------------------
(***************************************************************************)
(* The invariant.                                                          *)
(***************************************************************************)
LEMMA InitGood == Init => IInv
<1> SUFFICES ASSUME Init PROVE IInv
  OBVIOUS
<1>1. count \in Nat /\ Geometry /\ 0 \in Threads
  <2>1. count \in Nat
    <3>1. count \in 0 .. MaxCount
      BY DEF Init
    <3> QED
      BY <3>1, ConstantsAssumption
  <2>2. 0 \in Threads
    BY ConstantsAssumption DEF Threads
  <2> QED
    BY <2>1, <2>2, ChunksFit
<1>2. TypeOK
  <2>1. /\ failures \in [Indices -> Indices \cup {None}] /\ calls \in [Indices -> Nat]
        /\ chunk \in [Threads -> Nat] /\ at \in [Threads -> Nat]
    BY DEF Init
  <2>2. pc \in [Threads -> {"serial", "not started", "start", "take", "call",
                            "join", "ended", "rethrow", "returned"}]
    BY DEF Init
  <2>3. /\ count \in 0 .. MaxCount /\ failing \subseteq 0 .. count - 1
        /\ next \in Nat /\ outcome \in Indices \cup {None, Fine, SpawnFailed}
    BY DEF Init
  <2> QED
    BY <2>1, <2>2, <2>3 DEF TypeOK
<1>3. /\ pc[0] = IF Workers <= 1 THEN "serial" ELSE "start"
      /\ \A w \in Threads \ {0} : pc[w] = "not started"
  <2>1. pc = [w \in Threads |-> IF w # 0 THEN "not started"
                               ELSE IF Workers <= 1 THEN "serial" ELSE "start"]
    BY DEF Init
  <2> QED
    BY <1>1, <2>1
<1>4. next = 0 /\ at[0] = 0 /\ \A i \in Indices : calls[i] = 0 /\ failures[i] = None
  BY <1>1 DEF Init
<1>5. CASE Workers <= 1
  <2>1. \A i \in Indices : calls[i] = IF i < at[0] THEN 1 ELSE 0
    BY <1>4 DEF Indices
  <2>2. SerialInv
    <3>1. pc[0] = "serial"
      BY <1>3, <1>5
    <3>2. at[0] <= count /\ \A i \in 0 .. at[0] - 1 : i \notin failing
      BY <1>1, <1>4
    <3> QED
      BY <1>3, <2>1, <3>1, <3>2 DEF SerialInv
  <2> QED
    BY <1>2, <1>5, <2>2 DEF IInv
<1>6. CASE ~(Workers <= 1)
  <2>1. \A w \in Threads : pc[w] \notin {"call", "join", "rethrow", "returned"}
    BY <1>3, <1>6
  <2>2. \A c \in All : Untaken(c)
    <3> SUFFICES ASSUME NEW c \in All PROVE Untaken(c)
      OBVIOUS
    <3>1. c \in Nat /\ c < count /\ Lo(c) \in Nat /\ Hi(c) \in Nat /\ Hi(c) <= count
      BY <1>1 DEF All, Geometry
    <3>2. count <= MaxCount /\ MaxCount \in Nat
      BY <1>2, Typed, ConstantsAssumption
    <3>3. c \in Indices /\ \A i \in Lo(c) .. Hi(c) - 1 : i \in Indices
      BY <1>1, <3>1, <3>2 DEF Indices
    <3> QED
      BY <1>4, <3>1, <3>3 DEF Untaken, Ran
  <2>3. \A c \in All : ~(c < next)
    BY <1>1, <1>4 DEF All, Geometry
  <2>4. ChunkInv
    BY <1>4, <2>1, <2>2, <2>3 DEF ChunkInv
  <2>5. CallerInv
    BY <1>1, <1>3, <1>6, <2>1 DEF CallerInv, Over
  <2> QED
    BY <1>2, <1>6, <2>4, <2>5 DEF IInv
<1> QED
  BY <1>5, <1>6

(* Every step of parallel_for keeps the invariant.                         *)
LEMMA StepGood == IInv /\ [Next]_vars => IInv'
<1> SUFFICES ASSUME IInv, [Next]_vars PROVE IInv'
  OBVIOUS
<1>1. CASE UNCHANGED vars
  <2>1. TypeOK'
    BY <1>1 DEF IInv, TypeOK, vars
  <2>2. Workers' = Workers
    BY <1>1, SameChunks DEF vars
  <2>3. CASE Workers <= 1
    <3>1. SerialInv'
      BY <1>1, <2>3 DEF IInv, SerialInv, vars
    <3> QED
      BY <2>1, <2>2, <2>3, <3>1 DEF IInv
  <2>4. CASE ~(Workers <= 1)
    <3>1. TypeOK /\ ChunkInv /\ CallerInv
      BY <2>4 DEF IInv
    <3>2. ChunkInv'
      BY <1>1, <3>1, QuietKeepsChunks DEF vars
    <3>3. Chunks' = Chunks
      BY <1>1, SameChunks DEF vars
    <3>4. Rethrown' = Rethrown
      BY <1>1, <3>3 DEF vars, Rethrown
    <3>5. CallerInv'
      BY <1>1, <3>1, <3>3, <3>4 DEF CallerInv, vars
    <3> QED
      BY <2>1, <2>2, <2>4, <3>2, <3>5 DEF IInv
  <2> QED
    BY <2>3, <2>4
<1>2. CASE Next
  <2>1. CASE Workers <= 1
    <3>1. TypeOK /\ SerialInv
      BY <2>1 DEF IInv
    <3>2. TypeOK' /\ SerialInv' /\ count' = count
      BY <1>2, <3>1, SerialKept
    <3>3. Workers' = Workers
      BY <3>2, SameChunks
    <3> QED
      BY <2>1, <3>2, <3>3 DEF IInv
  <2>2. CASE ~(Workers <= 1)
    <3>1. TypeOK /\ ChunkInv /\ CallerInv
      BY <2>2 DEF IInv
    <3>2. TypeOK' /\ ChunkInv' /\ CallerInv'
      BY <1>2, <3>1, ParallelTyped, ParallelChunks, ParallelCaller
    <3>3. count' = count
      BY <1>2 DEF Next, SerialStep, SerialEnd, Start, StartFails, Started, Take, Call,
                  EndChunk, Join, Rethrow, arguments
    <3>4. Workers' = Workers
      BY <3>3, SameChunks
    <3> QED
      BY <2>2, <3>2, <3>4 DEF IInv
  <2> QED
    BY <2>1, <2>2
<1> QED
  BY <1>1, <1>2

-----------------------------------------------------------------------------
(***************************************************************************)
(* The properties.                                                         *)
(***************************************************************************)
(* Whatever state a chunk is in, no index of it was called twice.          *)
LEMMA OnceInChunk ==
  ASSUME TypeOK, ChunkInv
  PROVE  NoIndexTwice
<1> SUFFICES ASSUME NEW i \in Indices PROVE calls[i] \in {0, 1}
  BY DEF NoIndexTwice
<1>1. count \in Nat /\ Geometry /\ next \in Nat /\ i \in Nat /\ \A v \in Threads : at[v] \in Nat
  BY Typed, ChunksFit DEF Indices
<1>2. CASE count <= i
  BY <1>2 DEF ChunkInv
<1>3. CASE ~(count <= i)
  <2>1. i \in 0 .. count - 1
    BY <1>1, <1>3
  <2>2. PICK c \in All : Lo(c) <= i /\ i < Hi(c)
    BY <1>1, <2>1 DEF Geometry
  <2>3. c \in Nat /\ Lo(c) \in Nat /\ Hi(c) \in Nat
    BY <1>1 DEF All, Geometry
  <2>4. \A k \in Nat : Ran(c, k) => calls[i] \in {0, 1}
    BY <1>1, <2>2, <2>3 DEF Ran
  <2>5. CASE next <= c
    BY <2>3, <2>4, <2>5 DEF ChunkInv, Untaken
  <2>6. CASE c < next /\ \E w \in Threads : pc[w] = "call" /\ chunk[w] = c
    <3>1. PICK k \in Nat : Worked(c, k)
      BY <1>1, <2>6 DEF ChunkInv
    <3> QED
      BY <2>4, <3>1 DEF Worked
  <2>7. CASE c < next /\ \A w \in Threads : pc[w] = "call" => chunk[w] # c
    <3>1. Left(c)
      BY <2>7 DEF ChunkInv
    <3>2. CASE Worked(c, Hi(c))
      BY <2>3, <2>4, <3>2 DEF Worked
    <3>3. CASE \E f \in Indices : Failed(c, f)
      <4>1. PICK f \in Indices : Failed(c, f)
        BY <3>3
      <4>2. f + 1 \in Nat
        BY DEF Indices
      <4> QED
        BY <2>4, <4>1, <4>2 DEF Failed
    <3> QED
      BY <3>1, <3>2, <3>3 DEF Left
  <2> QED
    BY <1>1, <2>3, <2>5, <2>6, <2>7
<1> QED
  BY <1>2, <1>3

(* A call with several workers that returned left every chunk.             *)
LEMMA ParallelEnd ==
  ASSUME TypeOK, ChunkInv, CallerInv
  PROVE  EndsAsSerialLoop
<1> SUFFICES ASSUME pc[0] = "returned", outcome # SpawnFailed
             PROVE  IF failing = {}
                    THEN outcome = Fine /\ \A i \in 0 .. count - 1 : calls[i] = 1
                    ELSE /\ outcome \in failing
                         /\ \A i \in failing : outcome <= i
                         /\ \A i \in 0 .. outcome : calls[i] = 1
  BY DEF EndsAsSerialLoop
<1>1. /\ count \in Nat /\ Geometry /\ next \in Nat /\ Chunks <= next /\ outcome = Rethrown
      /\ failing \subseteq 0 .. count - 1
  BY Typed, ChunksFit DEF CallerInv, TypeOK
<1>2. \A c \in All : c \in Nat /\ Lo(c) \in Nat /\ Hi(c) \in Nat /\ c < next
  BY <1>1 DEF All, Geometry
<1>3. \A w \in Threads : pc[w] # "call"
  BY DEF CallerInv, Over
<1>4. \A c \in All : Left(c)
  BY <1>2, <1>3 DEF ChunkInv
<1>5. \A c \in All : failures[c] = None => Worked(c, Hi(c))
  <2> SUFFICES ASSUME NEW c \in All, failures[c] = None, NEW f \in Indices, Failed(c, f)
               PROVE  FALSE
    BY <1>4 DEF Left
  <2> QED
    BY DEF Failed, Indices, None
<1>6. \A c \in All : failures[c] = None =>
        \A i \in Lo(c) .. Hi(c) - 1 : calls[i] = 1 /\ i \notin failing
  BY <1>5 DEF Worked, Ran, Clean
<1>7. \A i \in 0 .. count - 1 : \E c \in All : i \in Lo(c) .. Hi(c) - 1
  <2> SUFFICES ASSUME NEW i \in 0 .. count - 1 PROVE \E c \in All : i \in Lo(c) .. Hi(c) - 1
    OBVIOUS
  <2>1. PICK c \in All : Lo(c) <= i /\ i < Hi(c)
    BY <1>1 DEF Geometry
  <2>2. i \in Lo(c) .. Hi(c) - 1
    BY <1>2, <2>1
  <2> QED
    BY <2>2
<1>8. CASE Rethrown = Fine /\ \A c \in All : failures[c] = None
  <2>1. \A i \in 0 .. count - 1 : calls[i] = 1 /\ i \notin failing
    BY <1>6, <1>7, <1>8
  <2> QED
    BY <1>1, <1>8, <2>1
<1>9. ASSUME NEW c \in All, failures[c] # None, Rethrown = failures[c],
             \A d \in All : failures[d] # None => c <= d
      PROVE  failing # {} /\ /\ outcome \in failing
                             /\ \A i \in failing : outcome <= i
                             /\ \A i \in 0 .. outcome : calls[i] = 1
  <2>1. PICK f \in Indices : Failed(c, f)
    BY <1>4, <1>9 DEF Left, Worked
  <2>2. /\ f \in Nat /\ outcome = f /\ f \in failing /\ Lo(c) <= f /\ f < Hi(c)
        /\ Ran(c, f + 1) /\ Clean(c, f)
    BY <1>1, <1>9, <2>1 DEF Failed, Indices
  <2>3. \A d \in All : c < d => \A i \in Lo(d) .. Hi(d) - 1 : f < i
    <3> SUFFICES ASSUME NEW d \in All, c < d, NEW i \in Lo(d) .. Hi(d) - 1 PROVE f < i
      OBVIOUS
    <3>1. Hi(c) <= Lo(d)
      BY <1>1 DEF Geometry
    <3> QED
      BY <1>2, <2>2, <3>1
  <2>4. \A d \in All : d < c => \A i \in Lo(d) .. Hi(d) - 1 : calls[i] = 1 /\ i \notin failing
    <3> SUFFICES ASSUME NEW d \in All, d < c
                 PROVE  \A i \in Lo(d) .. Hi(d) - 1 : calls[i] = 1 /\ i \notin failing
      OBVIOUS
    <3>1. failures[d] = None
      BY <1>2, <1>9
    <3> QED
      BY <1>6, <3>1
  <2>5. \A i \in Lo(c) .. Hi(c) - 1 : (i < f => i \notin failing) /\ (i <= f => calls[i] = 1)
    BY <1>2, <2>2 DEF Ran, Clean
  <2>6. \A i \in 0 .. count - 1 : (i < f => i \notin failing) /\ (i <= f => calls[i] = 1)
    <3> SUFFICES ASSUME NEW i \in 0 .. count - 1
                 PROVE  (i < f => i \notin failing) /\ (i <= f => calls[i] = 1)
      OBVIOUS
    <3>1. PICK d \in All : i \in Lo(d) .. Hi(d) - 1
      BY <1>7
    <3>2. c < d \/ c = d \/ d < c
      BY <1>2
    <3>3. CASE c < d
      <4>1. f < i
        BY <2>3, <3>1, <3>3
      <4> QED
        BY <2>2, <4>1
    <3>4. CASE c = d
      BY <2>5, <3>1, <3>4
    <3>5. CASE d < c
      BY <2>4, <3>1, <3>5
    <3> QED
      BY <3>2, <3>3, <3>4, <3>5
  <2>7. f < count
    BY <1>1, <2>2
  <2>8. \A i \in failing : f <= i
    BY <1>1, <2>2, <2>6
  <2>9. \A i \in 0 .. f : calls[i] = 1
    BY <1>1, <2>2, <2>6, <2>7
  <2> QED
    BY <2>2, <2>8, <2>9
<1> QED
  BY <1>8, <1>9, RethrownIsLowest

(* A call with one worker is the serial loop.                              *)
LEMMA SerialEnds ==
  ASSUME TypeOK, SerialInv
  PROVE  EndsAsSerialLoop
<1>1. count \in Nat /\ count <= MaxCount /\ MaxCount \in Nat /\ failing \subseteq 0 .. count - 1
  BY Typed, ConstantsAssumption DEF TypeOK
<1> SUFFICES ASSUME pc[0] = "returned", outcome # SpawnFailed
             PROVE  IF failing = {}
                    THEN outcome = Fine /\ \A i \in 0 .. count - 1 : calls[i] = 1
                    ELSE /\ outcome \in failing
                         /\ \A i \in failing : outcome <= i
                         /\ \A i \in 0 .. outcome : calls[i] = 1
  BY DEF EndsAsSerialLoop
<1>2. CASE outcome = Fine /\ at[0] = count /\ failing = {}
  <2>1. \A i \in 0 .. count - 1 : i \in Indices /\ i < count
    BY <1>1 DEF Indices
  <2> QED
    BY <1>2, <2>1 DEF SerialInv
<1>3. CASE /\ outcome \in failing /\ at[0] = outcome + 1
           /\ \A i \in 0 .. outcome - 1 : i \notin failing
  <2>1. outcome \in Nat /\ outcome < count
    BY <1>1, <1>3
  <2>2. \A i \in 0 .. outcome : i \in Indices /\ i < at[0]
    BY <1>1, <1>3, <2>1 DEF Indices
  <2>3. \A i \in 0 .. outcome : calls[i] = 1
    BY <2>2 DEF SerialInv
  <2>4. \A i \in failing : outcome <= i
    BY <1>1, <1>3, <2>1
  <2> QED
    BY <1>3, <2>3, <2>4
<1> QED
  BY <1>2, <1>3 DEF SerialInv

(* The invariant implies the three safety properties.                      *)
LEMMA GoodIsSafe == IInv => NoIndexTwice /\ NothingRunsAfterReturn /\ EndsAsSerialLoop
<1> SUFFICES ASSUME IInv PROVE NoIndexTwice /\ NothingRunsAfterReturn /\ EndsAsSerialLoop
  OBVIOUS
<1>1. CASE Workers <= 1
  <2>1. TypeOK /\ SerialInv
    BY <1>1 DEF IInv
  <2>2. NoIndexTwice
    <3>1. \A i \in Indices : calls[i] \in {0, 1}
      BY <2>1 DEF SerialInv
    <3> QED
      BY <3>1 DEF NoIndexTwice
  <2>3. NothingRunsAfterReturn
    BY <2>1 DEF SerialInv, NothingRunsAfterReturn
  <2> QED
    BY <2>1, <2>2, <2>3, SerialEnds
<1>2. CASE ~(Workers <= 1)
  <2>1. TypeOK /\ ChunkInv /\ CallerInv
    BY <1>2 DEF IInv
  <2>2. NothingRunsAfterReturn
    BY <2>1 DEF CallerInv, Over, NothingRunsAfterReturn
  <2> QED
    BY <2>1, <2>2, OnceInChunk, ParallelEnd
<1> QED
  BY <1>1, <1>2

(* The invariant holds of every call of parallel_for: each chunk is not    *)
(* yet claimed, running in one thread, or finished up to its failure.      *)
THEOREM InvariantHolds == Spec => []IInv
  BY InitGood, StepGood, PTL DEF Spec

(* parallel_for gives no index to body twice, whatever the schedule, even  *)
(* when a thread cannot be started.                                        *)
THEOREM IndexOnce == Spec => []NoIndexTwice
  BY InvariantHolds, GoodIsSafe, PTL

(* When parallel_for returns or throws, no thread it started is running.   *)
THEOREM AllJoined == Spec => []NothingRunsAfterReturn
  BY InvariantHolds, GoodIsSafe, PTL

(* parallel_for ends as a serial loop: it rethrows the exception of the    *)
(* lowest failing index, having called body once on every index up to it.  *)
THEOREM AsSerialLoop == Spec => []EndsAsSerialLoop
  BY InvariantHolds, GoodIsSafe, PTL

=============================================================================
