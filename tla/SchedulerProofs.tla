-------------------------- MODULE SchedulerProofs ---------------------------
(***************************************************************************)
(* Theorems about module Scheduler, for every value of its constants.      *)
(*                                                                         *)
(* First SlotInv: what is queued belongs to the present, what is not to a  *)
(* later time, and cycles stay within their limit. Then, from it, the      *)
(* books of the tasks: none is lost or duplicated. Last, what a step of    *)
(* the run loop may do: stop requests, deltas, results of run, frozen      *)
(* batches, postponed work and receipts of the active phase.               *)
(***************************************************************************)
EXTENDS Scheduler, WellFoundedInduction, TLAPS

-----------------------------------------------------------------------------
(* A leaf without arithmetic is Zenon's; the others cite SMT.              *)
USE Zenon

(* A set of naturals that is not empty has a least element.                *)
LEMMA LeastNatural ==
  ASSUME NEW S \in SUBSET Nat, S # {}
  PROVE  \E m \in S : \A n \in S : m <= n
<1> DEFINE R == OpToRel(<, Nat)
<1>1. IsWellFoundedOn(R, Nat)
  BY NatLessThanWellFounded
<1>2. \A x, y \in Nat : y < x => <<y, x>> \in R
  BY DEF OpToRel
<1> HIDE DEF R
<1>3. PICK m \in S : \A n \in S : ~(<<n, m>> \in R)
  BY <1>1, WFMin
<1>4. \A n \in S : ~(n < m)
  BY <1>2, <1>3
<1> QED
  BY <1>3, <1>4, SMT

(* First takes an entry of the queue, and no entry precedes it.            *)
LEMMA FirstProperties ==
  ASSUME NEW Q \in SUBSET Entry, Q # {}
  PROVE  First(Q) \in Q /\ Before(First(Q), Q) = {}
<1>0. Orders \subseteq Nat
  BY ConstantsAssumption
<1> DEFINE OrdersIn == {e.order : e \in Q}
<1>1. OrdersIn \in SUBSET Nat /\ OrdersIn # {}
  BY <1>0 DEF Entry
<1>2. PICK o \in OrdersIn : \A n \in OrdersIn : o <= n
  BY <1>1, LeastNatural
<1> DEFINE SequencesIn == {e.sequence : e \in {f \in Q : f.order = o}}
<1>3. SequencesIn \in SUBSET Nat /\ SequencesIn # {}
  BY <1>2 DEF Entry
<1>4. PICK s \in SequencesIn : \A n \in SequencesIn : s <= n
  BY <1>3, LeastNatural
<1>5. PICK e \in Q : e.order = o /\ e.sequence = s
  BY <1>4
<1>6. ASSUME NEW f \in Q PROVE ~KeyLess(f, e)
  <2>1. o <= f.order /\ f.order \in Nat /\ f.sequence \in Nat
    BY <1>0, <1>2 DEF Entry
  <2>2. f.order = o => s <= f.sequence
    BY <1>4
  <2>3. o \in Nat /\ s \in Nat
    BY <1>1, <1>3
  <2> QED
    BY <1>5, <2>1, <2>2, <2>3, SMT DEF KeyLess
<1>7. Before(e, Q) = {}
  BY <1>6 DEF Before
<1> QED
  BY <1>7 DEF First

-----------------------------------------------------------------------------
(* The cursors of a slot and the point run has reached fit together: what  *)
(* a missing slot looks like, that code that needs a slot has one, that a  *)
(* generic drain has a phase, that callbacks have the entries they run,    *)
(* and which queues a future slot has.                                     *)
CursorsFit ==
  /\ ~has_slot => /\ phase = 0 /\ delta = 0 /\ sv_round = 0
                  /\ sv_phase = NoPhase /\ last_sv_phase = NoPhase
                  /\ ~executing_eos
  /\ pc \notin {"idle", "top"} => has_slot
  /\ pc \in {"drain", "task", "batch"} /\ sv_phase = NoPhase /\ ~executing_eos
       => phase < PhaseCount
  /\ executing_eos => sv_phase = NoPhase
  /\ running # {} <=> pc \in {"task", "batch"}
  /\ \A e \in running : e.time = now
  /\ \A e \in future : e.bucket \notin {"next_delta", "systemverilog_running"}

SlotInv == /\ TypeOK /\ CursorsFit
           /\ SlotOwnsThePresent /\ NoWorkStranded /\ CycleLimitHolds

(* Where an entry that is about to be pushed may go.                       *)
Placed(e) ==
  /\ e \in Entry /\ e.time >= now
  /\ Here(e.time) => /\ e.bucket = "current" => e.phase >= phase
                     /\ e.bucket = "systemverilog_running" =>
                          e.phase = sv_phase /\ sv_phase = Active
  /\ ~Here(e.time) => e.bucket \notin {"next_delta", "systemverilog_running"}
  /\ e.bucket = "systemverilog" /\ e.phase = Active =>
       e.round \in {0, IF Here(e.time) THEN sv_round + 1 ELSE 1}

-----------------------------------------------------------------------------
(* The phase numbers are what enum class Phase says they are.              *)
LEMMA PhaseFacts ==
  /\ PhaseCount = 8 /\ NoPhase = 8 /\ Phases = 0 .. 7 /\ Active = 0
  /\ Postponed = 7 /\ Postponed \in Phases /\ Active \in Phases
  /\ UsedPhases \subseteq Phases
  /\ \A p \in Phases : \A x : ReactiveRegion(p, x) \in Phases
BY ConstantsAssumption, SMT DEF PhaseCount, NoPhase, Phases, Active, Postponed,
     ReactiveRegion, Inactive, Update, ReInactive, ReUpdate

(* What make_entry and make_batch_entry build is a queue entry.            *)
LEMMA NewEntryType ==
  ASSUME NEW o \in Orders, NEW s \in Nat, NEW k \in Kinds, NEW t \in Ticks,
         NEW b \in Buckets, NEW p \in Phases, NEW r \in Nat
  PROVE  NewEntry(o, s, k, t, b, p, r) \in Entry
BY DEF NewEntry, Entry

(* enqueue_at pushes one entry with the sequence it was given.             *)
LEMMA EnqueueAtPlaces ==
  ASSUME SlotInv, NEW t \in Ticks, NEW p \in Phases, NEW adjust \in BOOLEAN,
         NEW o \in Orders, NEW s \in Nat, NEW k \in Kinds,
         EnqueueAt(t, p, adjust, o, s, k)
  PROVE  /\ \E e : Placed(e) /\ e.sequence = s /\ PushEntry(e)
         /\ revised' \in BOOLEAN
<1> DEFINE q == IF adjust /\ Here(t) THEN ReactiveRegion(p, phase) ELSE p
           b == IF q = Postponed THEN "end_of_slot"
                ELSE IF Here(t) /\ q < phase THEN "next_delta" ELSE "current"
           e == NewEntry(o, s, k, t, b, q, 0)
<1>1. q \in Phases /\ b \in Buckets
  BY PhaseFacts DEF Buckets
<1>2. e \in Entry
  BY <1>1, NewEntryType
<1>3. t >= now /\ PushEntry(e) /\ revised' \in BOOLEAN
  BY DEF EnqueueAt, ReviseIf
<1>4. e.time = t /\ e.bucket = b /\ e.phase = q /\ e.sequence = s
  BY DEF NewEntry
<1>5. phase \in Nat
  BY PhaseFacts, SMT DEF SlotInv, TypeOK
<1>6. Placed(e)
  <2>1. /\ b # "systemverilog_running" /\ b # "systemverilog"
        /\ b = "next_delta" => Here(t)
    OBVIOUS
  <2>2. Here(t) /\ b = "current" => ~(q < phase)
    OBVIOUS
  <2>3. q \in Nat
    BY <1>1, PhaseFacts, SMT
  <2> HIDE DEF q, b, e
  <2>4. Here(t) /\ b = "current" => q >= phase
    BY <1>5, <2>2, <2>3, SMT
  <2> QED
    BY <1>2, <1>3, <1>4, <2>1, <2>4 DEF Placed
<1> QED
  BY <1>3, <1>4, <1>6

(* enqueue_next_delta pushes one entry with the sequence it was given.     *)
LEMMA EnqueueNextDeltaPlaces ==
  ASSUME SlotInv, NEW p \in Phases, NEW o \in Orders, NEW s \in Nat,
         NEW k \in Kinds, EnqueueNextDelta(p, o, s, k)
  PROVE  /\ \E e : Placed(e) /\ e.sequence = s /\ PushEntry(e)
         /\ revised' \in BOOLEAN
<1> DEFINE b == IF p = Postponed THEN "end_of_slot"
                ELSE IF has_slot THEN "next_delta" ELSE "current"
           e == NewEntry(o, s, k, now, b, p, 0)
<1>1. b \in Buckets /\ now \in Ticks
  BY DEF Buckets, SlotInv, TypeOK
<1>2. e \in Entry
  BY <1>1, NewEntryType
<1>3. PushEntry(e) /\ revised' \in BOOLEAN
  BY DEF EnqueueNextDelta, SlotInv, TypeOK
<1>4. e.time = now /\ e.bucket = b /\ e.phase = p /\ e.sequence = s
  BY DEF NewEntry
<1>5. now >= now
  BY <1>1, ConstantsAssumption, SMT DEF Ticks
<1>6. Placed(e)
  BY <1>1, <1>2, <1>4, <1>5 DEF Placed, Here
<1> QED
  BY <1>3, <1>4, <1>6

(* A receipt names a round that a counter can hold.                        *)
LEMMA ReceiptRoundType ==
  ASSUME SlotInv, NEW t \in Ticks, NEW p \in Phases
  PROVE  RoundAfterPendingPhase(p) \in Nat /\ ReceiptRound(t, p) \in Nat
BY SMT DEF SlotInv, TypeOK, ReceiptRound, RoundAfterPendingPhase

(* enqueue_systemverilog_at pushes one entry with the sequence it was given.*)
LEMMA EnqueueSystemVerilogAtPlaces ==
  ASSUME SlotInv, NEW t \in Ticks, NEW p \in Phases, NEW o \in Orders,
         NEW s \in Nat, NEW k \in Kinds, EnqueueSystemVerilogAt(t, p, o, s, k)
  PROVE  /\ \E e : Placed(e) /\ e.sequence = s /\ PushEntry(e)
         /\ revised' \in BOOLEAN
<1> DEFINE q == IF Here(t) /\ sv_phase # NoPhase
                THEN ReactiveRegion(p, sv_phase) ELSE p
           r == IF k = "batch" THEN ReceiptRound(t, q) ELSE 0
           e == NewEntry(o, s, k, t, "systemverilog", q, r)
<1>1. q \in Phases /\ "systemverilog" \in Buckets
  BY PhaseFacts DEF Buckets
<1>2. r \in Nat
  BY <1>1, ReceiptRoundType
<1>3. e \in Entry
  BY <1>1, <1>2, NewEntryType
<1>4. t >= now /\ PushEntry(e) /\ revised' \in BOOLEAN
  BY DEF EnqueueSystemVerilogAt, ReviseIf
<1>5. /\ e.time = t /\ e.bucket = "systemverilog" /\ e.sequence = s
      /\ e.phase = q /\ e.round = r
  BY DEF NewEntry
<1>6. q = Active => r \in {0, IF Here(t) THEN sv_round + 1 ELSE 1}
  <2>1. last_sv_phase \in Nat /\ Active = 0
    BY PhaseFacts, SMT DEF SlotInv, TypeOK
  <2>2. RoundAfterPendingPhase(Active) \in {0, sv_round + 1}
    BY <2>1, SMT DEF RoundAfterPendingPhase
  <2>3. ReceiptRound(t, Active) \in {0, IF Here(t) THEN sv_round + 1 ELSE 1}
    BY <2>2 DEF ReceiptRound
  <2> QED
    BY <2>3
<1>7. Placed(e)
  <2> HIDE DEF q, r, e
  <2> QED
    BY <1>3, <1>4, <1>5, <1>6 DEF Placed
<1> QED
  BY <1>4, <1>5, <1>7

(* Pushing a placed entry keeps the slot invariant.                        *)
LEMMA PushKeepsSlotInv ==
  ASSUME SlotInv, NEW e, Placed(e), PushEntry(e), Scheduled,
         next_sequence' \in 0 .. MaxSequence, epoch' \in Nat,
         reserved' \subseteq OrderKey, revised' \in BOOLEAN
  PROVE  SlotInv'
<1> USE DEF Scheduled, clockVars, slotVars, cursorVars
<1>1. TypeOK'
  BY DEF SlotInv, TypeOK, PushEntry, Placed
<1>2. CursorsFit'
  BY DEF SlotInv, CursorsFit, PushEntry, Placed
<1>3. SlotOwnsThePresent'
  <2>1. now \in Nat /\ e.time \in Nat /\ e.time >= now
    BY ConstantsAssumption, SMT DEF SlotInv, TypeOK, Placed, Entry, Ticks
  <2> QED
    BY <2>1, SMT DEF SlotInv, SlotOwnsThePresent, PushEntry, Here
<1>4. NoWorkStranded'
  BY DEF SlotInv, NoWorkStranded, PushEntry, Placed
<1>5. CycleLimitHolds'
  BY DEF SlotInv, CycleLimitHolds
<1> QED
  BY <1>1, <1>2, <1>3, <1>4, <1>5 DEF SlotInv

-----------------------------------------------------------------------------
(* What the scheduling calls have in common: a new entry with the next     *)
(* sequence number, or one with the sequence number of a reserved key.     *)
NewTask ==
  /\ \E e : Placed(e) /\ e.sequence = next_sequence /\ PushEntry(e)
  /\ next_sequence < MaxSequence /\ next_sequence' = next_sequence + 1
  /\ Scheduled /\ UNCHANGED <<epoch, reserved>> /\ revised' \in BOOLEAN

KeyedTask(k) ==
  /\ \E e : Placed(e) /\ e.sequence = k.sequence /\ PushEntry(e)
  /\ ValidKey(k) /\ reserved' = reserved \ {k}
  /\ Scheduled /\ UNCHANGED <<next_sequence, epoch>> /\ revised' \in BOOLEAN

(* Every call that schedules a new task keeps the slot invariant.          *)
LEMMA SchedulingCalls ==
  ASSUME SlotInv, NEW t \in Ticks, NEW p \in Phases, NEW o \in Orders,
         \/ ScheduleAt(t, p, o) \/ ScheduleAfterCancelable(t, p, o)
         \/ ScheduleNextDelta(p, o) \/ ScheduleNextDeltaBatchable(p, o)
         \/ ScheduleSystemVerilogAt(t, p, o)
         \/ ScheduleSystemVerilogAfterCancelable(t, p, o)
         \/ ScheduleSystemVerilogBatchable(p, o)
         \/ ScheduleSystemVerilogRunningActive(o) \/ ScheduleEndOfTimeSlot(o)
  PROVE  NewTask
<1> DEFINE n == next_sequence
           Pushes == /\ \E e : Placed(e) /\ e.sequence = n /\ PushEntry(e)
                     /\ revised' \in BOOLEAN
<1>0. /\ n \in Nat /\ now \in Ticks /\ now >= now
      /\ "task" \in Kinds /\ "cancelable" \in Kinds /\ "batch" \in Kinds
      /\ TRUE \in BOOLEAN /\ FALSE \in BOOLEAN
  BY ConstantsAssumption, SMT DEF SlotInv, TypeOK, Kinds, Ticks
<1>1. MakeEntry /\ NewlyScheduled
  BY DEF ScheduleAt, ScheduleAfterCancelable, ScheduleNextDelta,
     ScheduleNextDeltaBatchable, ScheduleSystemVerilogAt,
     ScheduleSystemVerilogAfterCancelable, ScheduleSystemVerilogBatchable,
     ScheduleSystemVerilogRunningActive, ScheduleEndOfTimeSlot
<1>2. CASE ScheduleAt(t, p, o) \/ ScheduleAfterCancelable(t, p, o)
  BY <1>0, <1>2, EnqueueAtPlaces DEF ScheduleAt, ScheduleAfterCancelable,
     NewTask, MakeEntry, NewlyScheduled
<1>3. CASE ScheduleNextDelta(p, o) \/ ScheduleNextDeltaBatchable(p, o)
  BY <1>0, <1>3, EnqueueNextDeltaPlaces DEF ScheduleNextDelta,
     ScheduleNextDeltaBatchable, NewTask, MakeEntry, NewlyScheduled
<1>4. CASE \/ ScheduleSystemVerilogAt(t, p, o)
           \/ ScheduleSystemVerilogAfterCancelable(t, p, o)
           \/ ScheduleSystemVerilogBatchable(p, o)
  BY <1>0, <1>4, EnqueueSystemVerilogAtPlaces DEF ScheduleSystemVerilogAt,
     ScheduleSystemVerilogAfterCancelable, ScheduleSystemVerilogBatchable,
     NewTask, MakeEntry, NewlyScheduled
<1>5. CASE ScheduleSystemVerilogRunningActive(o)
  <2>1. CASE has_slot /\ sv_phase = Active
    <3> DEFINE e == NewEntry(o, n, "task", now, "systemverilog_running", Active, 0)
    <3>1. e \in Entry
      BY <1>0, PhaseFacts, NewEntryType DEF Buckets
    <3>2. Placed(e) /\ e.sequence = n
      BY <1>0, <2>1, <3>1 DEF Placed, NewEntry, Here
    <3>3. PushEntry(e) /\ UNCHANGED revised
      BY <1>5, <2>1 DEF ScheduleSystemVerilogRunningActive
    <3> QED
      BY <1>1, <3>2, <3>3 DEF NewTask, MakeEntry, NewlyScheduled, SlotInv, TypeOK
  <2>2. CASE ~(has_slot /\ sv_phase = Active)
    BY <1>0, <1>1, <1>5, <2>2, PhaseFacts, EnqueueSystemVerilogAtPlaces
       DEF ScheduleSystemVerilogRunningActive, NewTask, MakeEntry, NewlyScheduled
  <2> QED
    BY <2>1, <2>2
<1>6. CASE ScheduleEndOfTimeSlot(o)
  <2> DEFINE e == NewEntry(o, n, "task", now, "end_of_slot", Postponed, 0)
  <2>1. e \in Entry
    BY <1>0, PhaseFacts, NewEntryType DEF Buckets
  <2>2. Placed(e) /\ e.sequence = n
    BY <1>0, <2>1 DEF Placed, NewEntry
  <2>3. PushEntry(e) /\ UNCHANGED revised
    BY <1>6 DEF ScheduleEndOfTimeSlot
  <2> QED
    BY <1>1, <2>2, <2>3 DEF NewTask, MakeEntry, NewlyScheduled, SlotInv, TypeOK
<1> QED
  BY <1>2, <1>3, <1>4, <1>5, <1>6

(* So do the calls that schedule under a reserved key.                     *)
LEMMA ReservedCalls ==
  ASSUME SlotInv, NEW k \in reserved, NEW p \in Phases,
         ScheduleReservedNextDelta(p, k) \/ ScheduleReservedCurrent(k)
  PROVE  KeyedTask(k)
<1>0. /\ k.order \in Orders /\ k.sequence \in Nat /\ now \in Ticks
      /\ "reserved" \in Kinds /\ TRUE \in BOOLEAN /\ phase \in 0 .. PhaseCount
  BY DEF SlotInv, TypeOK, OrderKey, Kinds
<1>1. CASE ScheduleReservedNextDelta(p, k)
  BY <1>0, <1>1, EnqueueNextDeltaPlaces DEF ScheduleReservedNextDelta, UseKey,
     KeyedTask
<1>2. CASE ScheduleReservedCurrent(k)
  <2>1. phase \in Phases
    BY <1>0, <1>2, PhaseFacts, SMT DEF ScheduleReservedCurrent
  <2> QED
    BY <1>0, <1>2, <2>1, EnqueueAtPlaces DEF ScheduleReservedCurrent, UseKey,
       KeyedTask
<1> QED
  BY <1>1, <1>2

(* Every call a client can make.                                           *)
ClientCall ==
  \/ NewTask
  \/ \E o \in Orders : ReserveOrderKey(o)
  \/ \E k \in reserved : KeyedTask(k)
  \/ \E e \in LiveEntries : Cancel(e)
  \/ RequestStop \/ ClearStop
  \/ DiscardPending \/ Reset
  \/ \E limit \in Ticks \cup {NoLimit} : RunBegin(limit)

(* So does every call of the scheduler's interface.                        *)
LEMMA ClientCalls ==
  ASSUME SlotInv, Client PROVE ClientCall
<1>1. UsedPhases \subseteq Phases /\ now \in Ticks /\ Active \in Phases
  BY PhaseFacts DEF SlotInv, TypeOK
<1>2. CASE \E t \in Ticks, p \in UsedPhases, o \in Orders :
             \/ ScheduleAt(t, p, o) \/ ScheduleAfterCancelable(t, p, o)
             \/ ScheduleSystemVerilogAt(t, p, o)
             \/ ScheduleSystemVerilogAfterCancelable(t, p, o)
  BY <1>1, <1>2, SchedulingCalls DEF ClientCall
<1>3. CASE \E p \in UsedPhases, o \in Orders :
             \/ ScheduleNextDelta(p, o) \/ ScheduleNextDeltaBatchable(p, o)
             \/ ScheduleSystemVerilogBatchable(p, o)
  BY <1>1, <1>3, SchedulingCalls DEF ClientCall
<1>4. CASE \E o \in Orders : \/ ScheduleSystemVerilogRunningActive(o)
                             \/ ScheduleEndOfTimeSlot(o)
  BY <1>1, <1>4, SchedulingCalls DEF ClientCall
<1>5. CASE \E k \in reserved : \/ ScheduleReservedCurrent(k)
             \/ \E p \in UsedPhases : ScheduleReservedNextDelta(p, k)
  BY <1>1, <1>5, ReservedCalls DEF ClientCall
<1>6. CASE \/ \E o \in Orders : ReserveOrderKey(o)
           \/ \E e \in LiveEntries : Cancel(e)
           \/ RequestStop \/ ClearStop \/ DiscardPending \/ Reset
           \/ \E limit \in Ticks \cup {NoLimit} : RunBegin(limit)
  BY <1>6 DEF ClientCall
<1> QED
  BY <1>2, <1>3, <1>4, <1>5, <1>6 DEF Client

-----------------------------------------------------------------------------
(* Client calls keep the slot invariant.                                   *)
LEMMA ClientKeepsSlotInv ==
  ASSUME SlotInv, ClientCall PROVE SlotInv'
<1> USE DEF clockVars, slotVars, cursorVars, callVars, keyVars
<1>1. CASE NewTask
  <2>1. PICK e : Placed(e) /\ PushEntry(e)
    BY <1>1 DEF NewTask
  <2>2. /\ next_sequence' \in 0 .. MaxSequence /\ epoch' \in Nat
        /\ reserved' \subseteq OrderKey /\ revised' \in BOOLEAN /\ Scheduled
    BY <1>1, ConstantsAssumption, SMT DEF NewTask, SlotInv, TypeOK
  <2> QED
    BY <2>1, <2>2, PushKeepsSlotInv
<1>2. CASE \E k \in reserved : KeyedTask(k)
  <2>1. PICK e : Placed(e) /\ PushEntry(e)
    BY <1>2 DEF KeyedTask
  <2>2. /\ next_sequence' \in 0 .. MaxSequence /\ epoch' \in Nat
        /\ reserved' \subseteq OrderKey /\ revised' \in BOOLEAN /\ Scheduled
    BY <1>2 DEF KeyedTask, SlotInv, TypeOK
  <2> QED
    BY <2>1, <2>2, PushKeepsSlotInv
<1>3. CASE \E o \in Orders : ReserveOrderKey(o)
  <2>1. PICK o \in Orders : ReserveOrderKey(o)
    BY <1>3
  <2>2. [order |-> o, sequence |-> next_sequence, epoch |-> epoch] \in OrderKey
    BY SMT DEF SlotInv, TypeOK, OrderKey
  <2>3. next_sequence' \in 0 .. MaxSequence
    BY <2>1, ConstantsAssumption, SMT DEF ReserveOrderKey, MakeEntry, SlotInv, TypeOK
  <2>4. TypeOK'
    BY <2>1, <2>2, <2>3 DEF ReserveOrderKey, Scheduled, SlotInv, TypeOK
  <2> QED
    BY <2>1, <2>4 DEF ReserveOrderKey, Scheduled, SlotInv, CursorsFit,
       SlotOwnsThePresent, NoWorkStranded, CycleLimitHolds
<1>4. CASE \E e \in LiveEntries : Cancel(e)
  <2>1. PICK e \in LiveEntries : Cancel(e)
    BY <1>4
  <2>2. e \in Entry
    BY DEF LiveEntries, SlotInv, TypeOK
  <2>3. [order |-> e.order, sequence |-> e.sequence, epoch |-> epoch] \in OrderKey
    BY <2>2 DEF Entry, OrderKey, SlotInv, TypeOK
  <2>4. reserved' \subseteq OrderKey /\ finished' \subseteq Nat
    BY <2>1, <2>2, <2>3 DEF Cancel, SlotInv, TypeOK, Entry
  <2>5. TypeOK'
    BY <2>1, <2>4 DEF Cancel, SlotInv, TypeOK
  <2> QED
    BY <2>1, <2>5 DEF Cancel, SlotInv, CursorsFit, SlotOwnsThePresent,
       NoWorkStranded, CycleLimitHolds
<1>5. CASE RequestStop \/ ClearStop
  <2>1. stop' \in BOOLEAN
    BY <1>5 DEF RequestStop, ClearStop
  <2>2. UNCHANGED <<clockVars, future, queued, slotVars, keyVars, callVars, pc,
                    status, finished>>
    BY <1>5 DEF RequestStop, ClearStop
  <2> QED
    BY <2>1, <2>2 DEF SlotInv, TypeOK, CursorsFit, SlotOwnsThePresent,
       NoWorkStranded, CycleLimitHolds
<1>6. CASE DiscardPending \/ Reset
  <2>1. pc = "idle" /\ DiscardQueued
    BY <1>6 DEF DiscardPending, Reset, DiscardQueued
  <2>2. /\ now' \in Ticks /\ next_sequence' \in 0 .. MaxSequence
        /\ stop' \in BOOLEAN /\ finished' \subseteq Nat
    <3>1. CASE DiscardPending
      BY <3>1, SMT DEF DiscardPending, SlotInv, TypeOK
    <3>2. CASE Reset
      <4>1. stop' \in BOOLEAN /\ finished' \subseteq Nat
        BY <3>2 DEF Reset
      <4>2. now' \in Ticks /\ next_sequence' \in 0 .. MaxSequence
        BY <3>2, ConstantsAssumption, SMT DEF Reset, Ticks
      <4> QED
        BY <4>1, <4>2
    <3> QED
      BY <1>6, <3>1, <3>2
  <2>3. running = {}
    BY <2>1 DEF SlotInv, CursorsFit
  <2>4. TypeOK'
    <3>1. has_slot' \in BOOLEAN /\ executing_eos' \in BOOLEAN
      BY <2>1 DEF DiscardQueued, DropSlot
    <3>2. /\ phase' \in 0 .. PhaseCount /\ sv_phase' \in 0 .. NoPhase
          /\ last_sv_phase' \in 0 .. NoPhase /\ delta' \in Nat
          /\ sv_round' \in Nat /\ epoch' \in Nat
      BY <2>1, SMT DEF DiscardQueued, DropSlot, PhaseCount, NoPhase, SlotInv, TypeOK
    <3> QED
      BY <2>1, <2>2, <3>1, <3>2 DEF DiscardQueued, SlotInv, TypeOK
  <2>5. CursorsFit' /\ SlotOwnsThePresent' /\ NoWorkStranded'
    BY <2>1, <2>3 DEF DiscardQueued, DropSlot, SlotInv, CursorsFit,
       SlotOwnsThePresent, NoWorkStranded
  <2>6. CycleLimitHolds'
    BY <2>1, ConstantsAssumption, SMT DEF DiscardQueued, DropSlot, CycleLimitHolds
  <2> QED
    BY <2>4, <2>5, <2>6 DEF SlotInv
<1>7. CASE \E limit \in Ticks \cup {NoLimit} : RunBegin(limit)
  <2>1. PICK limit \in Ticks \cup {NoLimit} : RunBegin(limit)
    BY <1>7
  <2>2. /\ until' \in Ticks \cup {NoLimit} /\ pc = "idle" /\ pc' = "top"
        /\ status' = "none"
        /\ UNCHANGED <<now, future, queued, slotVars, keyVars, callVars, stop,
                        finished>>
    BY <2>1 DEF RunBegin
  <2>3. TypeOK'
    BY <2>2 DEF SlotInv, TypeOK, Points, Statuses
  <2>4. CursorsFit'
    BY <2>2 DEF SlotInv, CursorsFit
  <2>5. SlotOwnsThePresent' /\ NoWorkStranded' /\ CycleLimitHolds'
    BY <2>2 DEF SlotInv, SlotOwnsThePresent, NoWorkStranded, CycleLimitHolds
  <2> QED
    BY <2>3, <2>4, <2>5 DEF SlotInv
<1> QED
  BY <1>1, <1>2, <1>3, <1>4, <1>5, <1>6, <1>7 DEF ClientCall

-----------------------------------------------------------------------------
(* Steps that leave the queues and the cursors as they are: they move      *)
(* between points of run, or return from it with no callback running.      *)
LEMMA MoveKeepsSlotInv ==
  ASSUME SlotInv, NEW s \in Statuses, NEW p \in {"top", "drain"},
         UNCHANGED <<now, future, queued, slotVars, finished>>, Step,
         has_slot,
         \/ Return(s)
         \/ Goto(p) /\ running' = {} /\ executed' \in BOOLEAN
            /\ revised' \in BOOLEAN
            /\ (p = "drain" => pc \in {"drain", "task", "batch"})
  PROVE  SlotInv'
<1> USE DEF slotVars, cursorVars, keyVars, Step
<1>1. until' \in Ticks \cup {NoLimit} /\ status' \in Statuses
  BY DEF Return, Goto, SlotInv, TypeOK
<1>2. executed' \in BOOLEAN /\ revised' \in BOOLEAN
  BY DEF Return
<1>3. running' = {} /\ pc' \in {"idle", "top", "drain"}
  BY DEF Return, Goto
<1>4. TypeOK'
  BY <1>1, <1>2, <1>3 DEF SlotInv, TypeOK, Points
<1>5. CursorsFit'
  BY <1>3 DEF SlotInv, CursorsFit, Return, Goto
<1>6. SlotOwnsThePresent' /\ NoWorkStranded' /\ CycleLimitHolds'
  BY <1>3 DEF SlotInv, SlotOwnsThePresent, NoWorkStranded, CycleLimitHolds
<1> QED
  BY <1>4, <1>5, <1>6 DEF SlotInv

(* The step a run ends with when there is no current slot.                 *)
LEMMA SlotBoundaryKeepsSlotInv ==
  ASSUME SlotInv, StopAtSlotBoundary \/ RunDry \/ ReachTimeLimit
  PROVE  SlotInv'
<1> USE DEF slotVars, cursorVars, keyVars, Step
<1>1. PICK s \in Statuses : Return(s)
  BY DEF StopAtSlotBoundary, RunDry, ReachTimeLimit, Statuses
<1>2. /\ UNCHANGED <<future, queued, slotVars, finished, keyVars, stop>>
      /\ ~has_slot
  BY DEF StopAtSlotBoundary, RunDry, ReachTimeLimit, AtSlotBoundary
<1>3. FutureTimes \in SUBSET Nat
  <2>1. future \in SUBSET Entry
    BY DEF SlotInv, TypeOK
  <2>2. \A e \in Entry : e.time \in Ticks
    BY DEF Entry
  <2>3. Ticks \in SUBSET Nat
    BY ConstantsAssumption, SMT DEF Ticks
  <2> QED
    BY <2>1, <2>2, <2>3 DEF FutureTimes
<1>4. now' \in Ticks /\ \A e \in future : e.time >= now'
  <2>1. CASE StopAtSlotBoundary
    BY <1>2, <2>1 DEF StopAtSlotBoundary, SlotInv, TypeOK, SlotOwnsThePresent
  <2>2. CASE RunDry
    BY <2>2 DEF RunDry, SlotInv, TypeOK
  <2>3. CASE ReachTimeLimit
    <3>1. FutureTimes # {} /\ now' = until /\ until \in Ticks /\ NextTime > until
      BY <2>3 DEF ReachTimeLimit, FutureTimes, SlotInv, TypeOK
    <3>2. NextTime \in FutureTimes /\ \A u \in FutureTimes : NextTime <= u
      BY <1>3, <3>1, LeastNatural DEF NextTime
    <3>3. ASSUME NEW e \in future PROVE e.time >= now'
      <4>1. e.time \in FutureTimes
        BY DEF FutureTimes
      <4>2. e.time \in Nat /\ NextTime \in Nat
        BY <1>3, <3>2, <4>1
      <4>4. until \in Nat
        BY <3>1, ConstantsAssumption, SMT DEF Ticks
      <4>3. NextTime <= e.time
        BY <3>2, <4>1
      <4> QED
        BY <3>1, <4>2, <4>3, <4>4, SMT
    <3> QED
      BY <3>1, <3>3
  <2> QED
    BY <2>1, <2>2, <2>3
<1>5. running' = {} /\ pc' = "idle" /\ executed' \in BOOLEAN /\ revised' \in BOOLEAN
  BY <1>1 DEF Return
<1>6. TypeOK'
  <2>1. until' \in Ticks \cup {NoLimit} /\ status' \in Statuses
    BY <1>1 DEF Return
  <2> QED
    BY <1>2, <1>4, <1>5, <2>1 DEF SlotInv, TypeOK, Points
<1>7. queued = {}
  BY <1>2 DEF SlotInv, SlotOwnsThePresent
<1>8. CursorsFit' /\ NoWorkStranded' /\ CycleLimitHolds'
  BY <1>2, <1>5, <1>7 DEF SlotInv, CursorsFit, NoWorkStranded, CycleLimitHolds
<1>9. SlotOwnsThePresent'
  BY <1>2, <1>4, <1>7 DEF SlotOwnsThePresent
<1> QED
  BY <1>6, <1>8, <1>9 DEF SlotInv

(* load_next_slot makes the earliest future slot the current one.          *)
LEMMA LoadNextSlotKeepsSlotInv ==
  ASSUME SlotInv, LoadNextSlot PROVE SlotInv'
<1> USE DEF cursorVars, keyVars, callVars, Step
<1>1. ~has_slot /\ has_slot' = TRUE /\ pc' = "slot_start" /\ pc = "top"
  BY DEF LoadNextSlot, AtSlotBoundary, Goto
<1>2. FutureTimes \in SUBSET Ticks /\ FutureTimes \in SUBSET Nat /\ FutureTimes # {}
  <2>1. future \in SUBSET Entry /\ future # {}
    BY DEF LoadNextSlot, SlotInv, TypeOK
  <2>2. \A e \in Entry : e.time \in Ticks
    BY DEF Entry
  <2>3. Ticks \in SUBSET Nat
    BY ConstantsAssumption, SMT DEF Ticks
  <2> QED
    BY <2>1, <2>2, <2>3 DEF FutureTimes
<1>3. NextTime \in FutureTimes /\ \A u \in FutureTimes : NextTime <= u
  BY <1>2, LeastNatural DEF NextTime
<1>4. now' = NextTime /\ now' \in Ticks /\ now' \in Nat
  BY <1>2, <1>3 DEF LoadNextSlot
<1>5. /\ queued' = {e \in future : e.time = now'}
      /\ future' = {e \in future : e.time # now'}
  BY <1>4 DEF LoadNextSlot
<1>6. running = {} /\ running' = {}
  BY <1>1 DEF LoadNextSlot, SlotInv, CursorsFit
<1>7. TypeOK'
  <2>1. has_slot' \in BOOLEAN
    BY <1>1
  <2>2. /\ UNCHANGED <<cursorVars, executing_eos, callVars, finished, keyVars,
                        stop, status, until>>
    BY DEF LoadNextSlot, Goto
  <2> QED
    BY <1>1, <1>4, <1>5, <2>1, <2>2 DEF SlotInv, TypeOK, Points
<1>8. CursorsFit'
  <2>1. UNCHANGED <<cursorVars, executing_eos>>
    BY DEF LoadNextSlot
  <2> QED
    BY <1>1, <1>5, <1>6, <2>1 DEF SlotInv, CursorsFit
<1>9. SlotOwnsThePresent'
  <2>1. ASSUME NEW e \in future' PROVE e.time >= now' /\ e.time > now'
    <3>1. e.time \in FutureTimes /\ e.time \in Nat
      BY <1>2, <1>5 DEF FutureTimes
    <3>2. now' <= e.time /\ e.time # now'
      BY <1>3, <1>4, <1>5, <3>1
    <3> QED
      BY <1>4, <3>1, <3>2, SMT
  <2>2. \A e \in queued' : has_slot' /\ e.time = now'
    BY <1>1, <1>5
  <2> QED
    BY <2>1, <2>2 DEF SlotOwnsThePresent
<1>10. NoWorkStranded'
  <2>1. phase' = 0 /\ \A e \in queued' : e.phase >= 0
    <3>1. phase' = phase /\ phase = 0
      BY <1>1 DEF LoadNextSlot, SlotInv, CursorsFit
    <3>2. queued' \subseteq Entry
      BY <1>5 DEF SlotInv, TypeOK
    <3>3. \A e \in Entry : e.phase >= 0
      BY PhaseFacts, SMT DEF Entry
    <3> QED
      BY <3>1, <3>2, <3>3
  <2>2. \A e \in queued' : e.bucket # "systemverilog_running"
    BY <1>5 DEF SlotInv, CursorsFit
  <2> QED
    BY <1>6, <2>1, <2>2 DEF NoWorkStranded
<1>11. CycleLimitHolds'
  BY DEF LoadNextSlot, SlotInv, CycleLimitHolds
<1> QED
  BY <1>7, <1>8, <1>9, <1>10, <1>11 DEF SlotInv

(* The region a batch begins in is one with pending work.                  *)
LEMMA LowestPhaseOf ==
  ASSUME NEW S \in SUBSET Phases, S # {}
  PROVE  LowestPhase(S) \in S
<1>1. S \in SUBSET Nat
  BY PhaseFacts, SMT
<1> QED
  BY <1>1, LeastNatural DEF LowestPhase

(* begin_systemverilog_batch freezes one bucket of the round.              *)
LEMMA BeginBatchKeepsSlotInv ==
  ASSUME SlotInv, BeginSystemVerilogBatch PROVE SlotInv'
<1> USE DEF slotVars, cursorVars, keyVars, Step
<1> DEFINE p == LowestPhase(SvCandidates)
           round == RoundAfterPendingPhase(p)
<1>0. pc = "top" /\ has_slot /\ sv_phase = NoPhase
  BY DEF BeginSystemVerilogBatch, Selecting
<1>1. p \in Phases
  <2>1. SvCandidates \in SUBSET Phases /\ SvCandidates # {}
    BY DEF BeginSystemVerilogBatch, SvCandidates, SvPendingPhases
  <2> QED
    BY <2>1, LowestPhaseOf
<1>2. round \in Nat /\ round <= MaxDeltaCycles
  BY ConstantsAssumption, SMT DEF RoundAfterPendingPhase, SlotInv, TypeOK, CycleLimitHolds
<1>3. running = {}
  BY <1>0 DEF SlotInv, CursorsFit
<1>4. CASE round = 0
  <2>1. Return("error") /\ UNCHANGED <<now, future, queued, slotVars, finished>>
    BY <1>4 DEF BeginSystemVerilogBatch
  <2>2. Step /\ "error" \in Statuses /\ "top" \in {"top", "drain"}
    BY DEF BeginSystemVerilogBatch, Statuses
  <2> QED
    BY <1>0, <2>1, <2>2, MoveKeepsSlotInv
<1>5. CASE round # 0
  <2> DEFINE Frozen(e) == IF e \in SvPending(p)
                          THEN [e EXCEPT !.bucket = "systemverilog_running"] ELSE e
  <2>1. /\ queued' = {Frozen(e) : e \in queued}
        /\ sv_phase' = p /\ last_sv_phase' = p /\ sv_round' = round
        /\ executing_eos' = FALSE /\ executed' = FALSE
        /\ pc' = "drain"
        /\ UNCHANGED <<has_slot, phase, delta, now, future, finished, keyVars, stop,
                       status, until, running, revised>>
    BY <1>5 DEF BeginSystemVerilogBatch, Drain, Goto
  <2>2. ASSUME NEW e \in queued
        PROVE  /\ Frozen(e) \in Entry /\ Frozen(e).time = e.time
               /\ Frozen(e).bucket = "current" => Frozen(e).phase >= phase
               /\ Frozen(e).bucket = "systemverilog_running" => Frozen(e).phase = p
    <3>1. e \in Entry /\ "systemverilog_running" \in Buckets
      BY DEF SlotInv, TypeOK, Buckets
    <3>2. e.bucket # "systemverilog_running"
      BY <1>0, <3>1, PhaseFacts, SMT DEF SlotInv, NoWorkStranded, Entry
    <3>3. e.bucket = "current" => e.phase >= phase
      BY DEF SlotInv, NoWorkStranded
    <3> QED
      BY <3>1, <3>2, <3>3 DEF Entry, SvPending
  <2> HIDE DEF Frozen, p, round
  <2>3. TypeOK'
    <3>1. executing_eos' \in BOOLEAN /\ executed' \in BOOLEAN
      BY <2>1
    <3>2. sv_phase' \in 0 .. NoPhase /\ last_sv_phase' \in 0 .. NoPhase
      <4>1. p \in 0 .. NoPhase
        BY <1>1, PhaseFacts, SMT
      <4> QED
        BY <2>1, <4>1
    <3>3. queued' \subseteq Entry
      BY <2>1, <2>2
    <3> QED
      BY <1>2, <2>1, <3>1, <3>2, <3>3 DEF SlotInv, TypeOK, Points
  <2>4. CursorsFit'
    <3>1. sv_phase' # NoPhase
      BY <1>1, <2>1, PhaseFacts, SMT
    <3> QED
      BY <1>0, <1>3, <2>1, <3>1 DEF SlotInv, CursorsFit
  <2>5. SlotOwnsThePresent'
    BY <2>1, <2>2 DEF SlotInv, SlotOwnsThePresent
  <2>6. NoWorkStranded'
    BY <1>3, <2>1, <2>2 DEF NoWorkStranded
  <2>7. CycleLimitHolds'
    BY <1>2, <2>1 DEF SlotInv, CycleLimitHolds
  <2> QED
    BY <2>3, <2>4, <2>5, <2>6, <2>7 DEF SlotInv
<1> QED
  BY <1>4, <1>5

(* begin the next delta cycle: every bucket but the two generic ones keeps *)
(* its entries, and the cursor starts over.                                *)
LEMMA BeginNextDeltaKeepsSlotInv ==
  ASSUME SlotInv, BeginNextDelta PROVE SlotInv'
<1> USE DEF slotVars, cursorVars, keyVars, callVars, Step
<1>0. pc = "top" /\ has_slot /\ sv_phase = NoPhase
  BY DEF BeginNextDelta, CycleDone, Selecting
<1>1. running = {}
  BY <1>0 DEF SlotInv, CursorsFit
<1>2. CASE delta + 1 >= MaxDeltaCycles
  <2>1. Return("error") /\ UNCHANGED <<now, future, queued, slotVars, finished>>
    BY <1>2 DEF BeginNextDelta
  <2>2. Step /\ "error" \in Statuses /\ "top" \in {"top", "drain"}
    BY DEF BeginNextDelta, Statuses
  <2> QED
    BY <1>0, <2>1, <2>2, MoveKeepsSlotInv
<1>3. CASE ~(delta + 1 >= MaxDeltaCycles)
  <2> DEFINE Swapped(e) == [e EXCEPT !.bucket = Swap(e.bucket)]
  <2>1. /\ queued' = {Swapped(e) : e \in queued}
        /\ delta' = delta + 1 /\ phase' = 0 /\ pc' = "top"
        /\ UNCHANGED <<now, future, has_slot, sv_phase, sv_round, last_sv_phase,
                       executing_eos, finished, callVars, keyVars, stop, status,
                       until>>
    BY <1>3 DEF BeginNextDelta, Goto
  <2>2. ASSUME NEW e \in queued
        PROVE  /\ Swapped(e) \in Entry /\ Swapped(e).time = e.time
               /\ Swapped(e).phase >= 0
               /\ Swapped(e).bucket # "systemverilog_running"
    <3>1. e \in Entry
      BY DEF SlotInv, TypeOK
    <3>2. e.bucket # "systemverilog_running"
      BY <1>0, <3>1, PhaseFacts, SMT DEF SlotInv, NoWorkStranded, Entry
    <3>3. Swap(e.bucket) \in Buckets /\ Swap(e.bucket) # "systemverilog_running"
      BY <3>1, <3>2 DEF Swap, Buckets, Entry
    <3> QED
      BY <3>1, <3>3, PhaseFacts, SMT DEF Entry
  <2> HIDE DEF Swapped
  <2>3. TypeOK'
    <3>1. queued' \subseteq Entry
      BY <2>1, <2>2
    <3>2. phase' \in 0 .. PhaseCount
      BY <2>1, PhaseFacts, SMT
    <3>3. delta \in Nat
      BY DEF SlotInv, TypeOK
    <3>4. delta' \in Nat
      BY <2>1, <3>3, SMT
    <3>5. /\ pc' \in Points
          /\ executed' = executed /\ revised' = revised /\ running' = running
      BY <2>1 DEF Points
    <3>6. /\ has_slot' \in BOOLEAN /\ executing_eos' \in BOOLEAN
          /\ stop' \in BOOLEAN /\ executed' \in BOOLEAN /\ revised' \in BOOLEAN
      BY <2>1, <3>5 DEF SlotInv, TypeOK
    <3>7. /\ now' \in Ticks /\ until' \in Ticks \cup {NoLimit}
          /\ future' \subseteq Entry /\ running' \subseteq Entry
          /\ status' \in Statuses /\ finished' \subseteq Nat
      BY <2>1, <3>5 DEF SlotInv, TypeOK
    <3>8. /\ sv_phase' \in 0 .. NoPhase /\ last_sv_phase' \in 0 .. NoPhase
          /\ sv_round' \in Nat /\ next_sequence' \in 0 .. MaxSequence
          /\ epoch' \in Nat /\ reserved' \subseteq OrderKey
      BY <2>1 DEF SlotInv, TypeOK
    <3> QED
      BY <3>1, <3>2, <3>4, <3>5, <3>6, <3>7, <3>8, Zenon DEF TypeOK
  <2>4. CursorsFit'
    BY <1>0, <1>1, <2>1 DEF SlotInv, CursorsFit
  <2>5. SlotOwnsThePresent'
    BY <2>1, <2>2 DEF SlotInv, SlotOwnsThePresent
  <2>6. NoWorkStranded'
    <3>1. \A e \in queued' : e.phase >= 0 /\ e.bucket # "systemverilog_running"
      BY <2>1, <2>2
    <3>2. phase' = 0 /\ running' = {}
      BY <1>1, <2>1
    <3> QED
      BY <3>1, <3>2 DEF NoWorkStranded
  <2>7. CycleLimitHolds'
    <3>1. delta \in Nat /\ MaxDeltaCycles \in Nat /\ sv_round <= MaxDeltaCycles
      BY ConstantsAssumption DEF SlotInv, TypeOK, CycleLimitHolds
    <3>2. delta' < MaxDeltaCycles /\ sv_round' = sv_round
      BY <1>3, <2>1, <3>1, SMT
    <3> QED
      BY <3>1, <3>2 DEF CycleLimitHolds
  <2> QED
    BY <2>3, <2>4, <2>5, <2>6, <2>7 DEF SlotInv
<1> QED
  BY <1>2, <1>3

(* Choosing the queue to drain.                                            *)
LEMMA DrainKeepsSlotInv ==
  ASSUME SlotInv, ResumeSystemVerilogBatch \/ SelectGenericPhase \/ SelectEndOfSlot
  PROVE  SlotInv'
<1> USE DEF cursorVars, keyVars, Step
<1>1. /\ pc = "top" /\ has_slot /\ pc' = "drain"
      /\ UNCHANGED <<now, future, queued, has_slot, cursorVars, finished, keyVars,
                     stop, status, until, running, revised>>
  BY DEF ResumeSystemVerilogBatch, SelectGenericPhase, SelectEndOfSlot, Quiescent,
     CycleDone, Selecting, Drain, Goto
<1>2. executed' \in BOOLEAN /\ executing_eos' \in BOOLEAN
  BY DEF ResumeSystemVerilogBatch, SelectGenericPhase, SelectEndOfSlot, Drain
<1>3. running = {}
  BY <1>1 DEF SlotInv, CursorsFit
<1>4. /\ executing_eos' => sv_phase = NoPhase
      /\ sv_phase = NoPhase /\ ~executing_eos' => phase < PhaseCount
  BY DEF ResumeSystemVerilogBatch, SelectGenericPhase, SelectEndOfSlot, Quiescent,
     CycleDone, Drain
<1>5. TypeOK'
  BY <1>1, <1>2 DEF SlotInv, TypeOK, Points
<1>6. CursorsFit'
  BY <1>1, <1>3, <1>4 DEF SlotInv, CursorsFit
<1>7. SlotOwnsThePresent' /\ NoWorkStranded' /\ CycleLimitHolds'
  BY <1>1 DEF SlotInv, SlotOwnsThePresent, NoWorkStranded, CycleLimitHolds
<1> QED
  BY <1>5, <1>6, <1>7 DEF SlotInv

(* Entering the quiet-point hook, and finishing the slot after it.         *)
LEMMA QuietKeepsSlotInv ==
  ASSUME SlotInv, QuietHook \/ FinishSlot PROVE SlotInv'
<1> USE DEF slotVars, cursorVars, keyVars, callVars, Step
<1>1. CASE QuietHook
  <2>1. has_slot /\ pc = "top" /\ pc' = "quiet"
    BY <1>1 DEF QuietHook, Quiescent, CycleDone, Selecting, Goto
  <2>2. UNCHANGED <<now, future, queued, slotVars, callVars, finished, keyVars,
                    stop, status, until>>
    BY <1>1 DEF QuietHook, Goto
  <2> QED
    BY <2>1, <2>2 DEF SlotInv, TypeOK, CursorsFit, SlotOwnsThePresent,
       NoWorkStranded, CycleLimitHolds, Points
<1>2. CASE FinishSlot
  <2>1. pc = "quiet" /\ pc' = "top"
    BY <1>2 DEF FinishSlot, Goto
  <2>2. UNCHANGED <<now, future, queued, callVars, finished, keyVars, stop, status,
                    until>>
    BY <1>2 DEF FinishSlot, Goto
  <2>3. running = {} /\ has_slot
    BY <2>1 DEF SlotInv, CursorsFit
  <2>4. CASE queued # {}
    BY <1>2, <2>1, <2>2, <2>4 DEF FinishSlot, SlotInv, TypeOK, CursorsFit,
       SlotOwnsThePresent, NoWorkStranded, CycleLimitHolds, Points
  <2>5. CASE queued = {}
    <3>1. DropSlot
      BY <1>2, <2>5 DEF FinishSlot
    <3>2. has_slot' \in BOOLEAN /\ executing_eos' \in BOOLEAN
      BY <3>1 DEF DropSlot
    <3>3. /\ phase' \in 0 .. PhaseCount /\ sv_phase' \in 0 .. NoPhase
          /\ last_sv_phase' \in 0 .. NoPhase /\ delta' \in Nat /\ sv_round' \in Nat
      BY <3>1, SMT DEF DropSlot, PhaseCount, NoPhase
    <3>4. TypeOK'
      BY <2>1, <2>2, <3>2, <3>3 DEF SlotInv, TypeOK, Points
    <3>5. CursorsFit'
      BY <2>1, <2>2, <2>3, <3>1 DEF SlotInv, CursorsFit, DropSlot
    <3>6. SlotOwnsThePresent' /\ NoWorkStranded'
      BY <2>2, <2>3, <2>5, <3>1 DEF SlotInv, SlotOwnsThePresent, NoWorkStranded,
         DropSlot
    <3>7. CycleLimitHolds'
      BY <3>1, ConstantsAssumption, SMT DEF DropSlot, CycleLimitHolds
    <3> QED
      BY <3>4, <3>5, <3>6, <3>7 DEF SlotInv
  <2> QED
    BY <2>4, <2>5
<1> QED
  BY <1>1, <1>2

(* Selecting what to do next keeps the slot invariant.                     *)
LEMMA SelectKeepsSlotInv ==
  ASSUME SlotInv, Select PROVE SlotInv'
<1>1. CASE StopInSlot
  <2>1. /\ Return("stopped") /\ Step /\ has_slot
        /\ UNCHANGED <<now, future, queued, slotVars, finished>>
    BY <1>1 DEF StopInSlot
  <2>2. "stopped" \in Statuses /\ "top" \in {"top", "drain"}
    BY DEF Statuses
  <2> QED
    BY <2>1, <2>2, MoveKeepsSlotInv
<1> QED
  BY <1>1, SlotBoundaryKeepsSlotInv, LoadNextSlotKeepsSlotInv,
     BeginBatchKeepsSlotInv, BeginNextDeltaKeepsSlotInv, DrainKeepsSlotInv,
     QuietKeepsSlotInv DEF Select

-----------------------------------------------------------------------------
(* Handing a part of the drained queue to a callback.                      *)
LEMMA StartKeepsSlotInv ==
  ASSUME SlotInv, NEW Q \in SUBSET queued, Q # {}, NEW p \in {"task", "batch"},
         pc = "drain", queued' = queued \ Q, running' = Q, Goto(p),
         executed' = TRUE, revised' = FALSE, Step,
         UNCHANGED <<now, future, slotVars, finished>>
  PROVE  SlotInv'
<1> USE DEF slotVars, cursorVars, keyVars, Step, Goto
<1>1. executed' \in BOOLEAN /\ revised' \in BOOLEAN
  OBVIOUS
<1>2. TypeOK'
  BY <1>1 DEF SlotInv, TypeOK, Points
<1>3. CursorsFit'
  BY DEF SlotInv, CursorsFit, SlotOwnsThePresent
<1>4. SlotOwnsThePresent' /\ NoWorkStranded' /\ CycleLimitHolds'
  BY DEF SlotInv, SlotOwnsThePresent, NoWorkStranded, CycleLimitHolds
<1> QED
  BY <1>2, <1>3, <1>4 DEF SlotInv

(* The queue being drained holds entries of the current slot only.         *)
LEMMA RunQueueQueued ==
  /\ RunQueue \subseteq queued
  /\ BatchRun(RunQueue) \subseteq RunQueue
BY DEF RunQueue, BatchRun, InBucket, GenericQueue

(* The entry a task completes, and the members a batch has left.           *)
LEMMA RestProperties ==
  ASSUME SlotInv, pc \in {"task", "batch"}
  PROVE  First(running) \in running /\ Rest = running \ {First(running)}
<1>1. running \in SUBSET Entry /\ running # {}
  BY DEF SlotInv, TypeOK, CursorsFit
<1> QED
  BY <1>1, FirstProperties DEF Rest

(* A callback ends: what it did not consume goes back to the queue.        *)
LEMMA EndKeepsSlotInv ==
  ASSUME SlotInv, pc \in {"task", "batch"}, NEW B \in SUBSET running,
         queued' = queued \cup B, finished' \subseteq Nat, Step,
         UNCHANGED <<now, future, slotVars>>,
         \/ Return("error")
         \/ Goto("drain") /\ running' = {} /\ revised' = FALSE /\ UNCHANGED executed
  PROVE  SlotInv'
<1> USE DEF slotVars, cursorVars, keyVars, Step
<1>1. /\ running' = {} /\ pc' \in {"idle", "drain"}
      /\ until' \in Ticks \cup {NoLimit} /\ status' \in Statuses
  BY DEF Return, Goto, SlotInv, TypeOK, Statuses
<1>2. executed' \in BOOLEAN /\ revised' \in BOOLEAN
  BY DEF Return, SlotInv, TypeOK
<1>3. has_slot
  BY DEF SlotInv, CursorsFit
<1>4. TypeOK'
  BY <1>1, <1>2 DEF SlotInv, TypeOK, Points
<1>5. CursorsFit'
  BY <1>1, <1>3 DEF SlotInv, CursorsFit
<1>6. SlotOwnsThePresent' /\ NoWorkStranded' /\ CycleLimitHolds'
  BY <1>1, <1>3 DEF SlotInv, CursorsFit, SlotOwnsThePresent, NoWorkStranded,
     CycleLimitHolds
<1> QED
  BY <1>4, <1>5, <1>6 DEF SlotInv

(* The end of a pass moves the cursor over an empty queue only.            *)
LEMMA EndPassKeepsSlotInv ==
  ASSUME SlotInv, EndPass PROVE SlotInv'
<1> USE DEF keyVars, Step, Goto
<1>0. pc = "drain" /\ has_slot /\ running = {} /\ running' = {} /\ pc' = "safe_point"
  BY DEF EndPass, SlotInv, CursorsFit
<1>1. executing_eos' = FALSE /\ executed' = FALSE /\ sv_phase' = NoPhase
  BY DEF EndPass
<1>2. executing_eos' \in BOOLEAN /\ executed' \in BOOLEAN
  BY <1>1
<1>3. phase' \in 0 .. PhaseCount
  <2>1. phase \in 0 .. 8 /\ (sv_phase = NoPhase /\ ~executing_eos => phase < 8)
    BY <1>0, PhaseFacts DEF SlotInv, TypeOK, CursorsFit
  <2>2. phase' = IF sv_phase = NoPhase /\ ~executing_eos THEN phase + 1 ELSE phase
    BY DEF EndPass
  <2> QED
    BY <2>1, <2>2, PhaseFacts, SMT
<1>4. UNCHANGED <<now, future, queued, has_slot, delta, sv_round, last_sv_phase,
                  revised, finished, keyVars, stop, status, until>>
  BY DEF EndPass
<1>5. TypeOK'
  <2>1. pc' \in Points /\ sv_phase' \in 0 .. NoPhase /\ running' \subseteq Entry
    BY <1>0, <1>1, PhaseFacts, SMT DEF Points
  <2>2. /\ has_slot' \in BOOLEAN /\ stop' \in BOOLEAN /\ revised' \in BOOLEAN
    BY <1>4 DEF SlotInv, TypeOK
  <2>3. /\ now' \in Ticks /\ until' \in Ticks \cup {NoLimit}
        /\ future' \subseteq Entry /\ queued' \subseteq Entry
        /\ status' \in Statuses /\ finished' \subseteq Nat
    BY <1>4 DEF SlotInv, TypeOK
  <2>4. /\ last_sv_phase' \in 0 .. NoPhase /\ delta' \in Nat
        /\ sv_round' \in Nat /\ next_sequence' \in 0 .. MaxSequence
        /\ epoch' \in Nat /\ reserved' \subseteq OrderKey
    BY <1>4 DEF SlotInv, TypeOK
  <2> QED
    BY <1>2, <1>3, <2>1, <2>2, <2>3, <2>4, Zenon DEF TypeOK
<1>6. CursorsFit'
  BY <1>0, <1>1, <1>4 DEF SlotInv, CursorsFit
<1>7. SlotOwnsThePresent' /\ CycleLimitHolds'
  BY <1>4 DEF SlotInv, SlotOwnsThePresent, CycleLimitHolds
<1>8. ASSUME NEW e \in queued
      PROVE  /\ e.bucket = "current" => e.phase >= phase'
             /\ e.bucket # "systemverilog_running"
  <2>1. /\ e.phase \in 0 .. 7 /\ phase \in 0 .. 8
        /\ e.bucket = "current" => e.phase >= phase
        /\ e.bucket = "systemverilog_running" => e.phase = sv_phase
    BY PhaseFacts DEF SlotInv, TypeOK, Entry, NoWorkStranded
  <2>2. CASE sv_phase = NoPhase /\ ~executing_eos
    <3>1. GenericQueue(phase) = {} /\ phase' = phase + 1
      BY <2>2 DEF EndPass, PassDone, RunQueue
    <3>2. e.bucket = "current" => e.phase # phase
      BY <3>1 DEF GenericQueue
    <3> QED
      BY <2>1, <2>2, <3>1, <3>2, PhaseFacts, SMT
  <2>3. CASE sv_phase = NoPhase /\ executing_eos
    <3>1. phase' = phase
      BY <2>3 DEF EndPass
    <3> QED
      BY <2>1, <2>3, <3>1, PhaseFacts, SMT
  <2>4. CASE sv_phase # NoPhase
    <3>1. InBucket("systemverilog_running") = {} /\ phase' = phase
      BY <2>4 DEF EndPass, PassDone, RunQueue, SlotInv, CursorsFit
    <3> QED
      BY <2>1, <3>1 DEF InBucket
  <2> QED
    BY <2>2, <2>3, <2>4
<1>9. NoWorkStranded'
  BY <1>0, <1>4, <1>8 DEF NoWorkStranded
<1> QED
  BY <1>5, <1>6, <1>7, <1>9 DEF SlotInv

(* Draining a queue keeps the slot invariant.                              *)
LEMMA DispatchKeepsSlotInv ==
  ASSUME SlotInv, Dispatch PROVE SlotInv'
<1>0. /\ "stopped" \in Statuses /\ "error" \in Statuses
      /\ "top" \in {"top", "drain"} /\ running \subseteq Entry
      /\ queued \in SUBSET Entry
  BY DEF Statuses, SlotInv, TypeOK
<1>1. CASE StopInDrain \/ BatchThrows \/ HookThrows
  <2>1. /\ Return("stopped") \/ Return("error")
        /\ Step /\ UNCHANGED <<now, future, queued, slotVars, finished>>
    BY <1>1 DEF StopInDrain, BatchThrows, HookThrows
  <2>2. has_slot
    BY <1>1 DEF StopInDrain, BatchThrows, HookThrows, SlotInv, CursorsFit
  <2> QED
    BY <1>0, <2>1, <2>2, MoveKeepsSlotInv
<1>2. CASE EndHook
  <2>1. /\ Goto("top") /\ Step /\ UNCHANGED callVars
        /\ UNCHANGED <<now, future, queued, slotVars, finished>>
    BY <1>2 DEF EndHook
  <2>2. has_slot /\ running' = {} /\ executed' \in BOOLEAN /\ revised' \in BOOLEAN
    BY <1>2, <2>1 DEF EndHook, SlotInv, CursorsFit, TypeOK, callVars
  <2> QED
    BY <1>0, <2>1, <2>2, MoveKeepsSlotInv
<1>3. CASE StartTask
  <2>1. RunQueue \in SUBSET Entry /\ RunQueue # {}
    BY <1>0, <1>3, RunQueueQueued DEF StartTask, PassDone
  <2>2. {First(RunQueue)} \in SUBSET queued /\ {First(RunQueue)} # {}
    BY <2>1, FirstProperties, RunQueueQueued
  <2>3. "task" \in {"task", "batch"}
    OBVIOUS
  <2> QED
    BY <1>3, <2>2, <2>3, StartKeepsSlotInv DEF StartTask
<1>4. CASE StartBatch
  <2>1. BatchRun(RunQueue) \in SUBSET queued /\ "batch" \in {"task", "batch"}
    BY RunQueueQueued
  <2> QED
    BY <1>4, <2>1, StartKeepsSlotInv DEF StartBatch
<1>5. CASE EndTask \/ TaskThrows \/ \E failure \in BOOLEAN : EndMember(failure)
  <2>1. pc \in {"task", "batch"} /\ Complete /\ Step
    BY <1>5 DEF EndTask, TaskThrows, EndMember
  <2>2. First(running) \in running /\ Rest = running \ {First(running)}
    BY <2>1, RestProperties
  <2>3. finished' \subseteq Nat
    BY <1>0, <2>1, <2>2 DEF Complete, SlotInv, TypeOK, Entry
  <2>4. CASE EndTask \/ TaskThrows
    <3>1. /\ {} \in SUBSET running /\ queued' = queued \cup {}
          /\ UNCHANGED <<now, future, slotVars>>
          /\ \/ Return("error")
             \/ /\ Goto("drain") /\ running' = {} /\ revised' = FALSE
                /\ UNCHANGED executed
      BY <2>4 DEF EndTask, TaskThrows
    <3> QED
      BY <2>1, <2>3, <3>1, EndKeepsSlotInv
  <2>5. ASSUME NEW failure \in BOOLEAN, EndMember(failure) PROVE SlotInv'
    <3>1. CASE MemberEndsBatch(failure)
      <4>1. Rest \in SUBSET running /\ queued' = queued \cup Rest
        BY <2>2, <2>5, <3>1 DEF EndMember, PushBackSuffix
      <4>2. /\ UNCHANGED <<now, future, slotVars>>
            /\ \/ Return("error")
               \/ /\ Goto("drain") /\ running' = {} /\ revised' = FALSE
                  /\ UNCHANGED executed
        BY <2>5, <3>1 DEF EndMember
      <4> QED
        BY <2>1, <2>3, <4>1, <4>2, EndKeepsSlotInv
    <3>2. CASE ~MemberEndsBatch(failure)
      <4>1. /\ pc = "batch" /\ pc' = "batch" /\ running' = Rest /\ Rest # {}
            /\ UNCHANGED <<queued, revised, executed, now, future, slotVars, keyVars,
                           stop, status, until>>
        BY <2>5, <3>2 DEF EndMember, Goto, Step, MemberEndsBatch
      <4>2. running' \subseteq running
        BY <2>2, <4>1
      <4> QED
        BY <2>3, <4>1, <4>2 DEF SlotInv, TypeOK, CursorsFit, SlotOwnsThePresent,
           NoWorkStranded, CycleLimitHolds, slotVars, cursorVars, keyVars, Points
    <3> QED
      BY <3>1, <3>2
  <2> QED
    BY <1>5, <2>4, <2>5
<1>6. CASE EndPass
  BY <1>6, EndPassKeepsSlotInv
<1> QED
  BY <1>1, <1>2, <1>3, <1>4, <1>5, <1>6 DEF Dispatch

(* The slot invariant holds of a new scheduler ...                         *)
LEMMA InitSlotInv == Init => SlotInv
<1> SUFFICES ASSUME Init PROVE SlotInv
  OBVIOUS
<1>1. /\ now \in Ticks /\ phase \in 0 .. PhaseCount /\ sv_phase \in 0 .. NoPhase
      /\ last_sv_phase \in 0 .. NoPhase /\ next_sequence \in 0 .. MaxSequence
  BY ConstantsAssumption, SMT DEF Init, Ticks, PhaseCount, NoPhase
<1>2. TypeOK
  BY <1>1 DEF Init, TypeOK, Points, Statuses
<1>3. CursorsFit /\ SlotOwnsThePresent /\ NoWorkStranded
  BY DEF Init, CursorsFit, SlotOwnsThePresent, NoWorkStranded
<1>4. CycleLimitHolds
  BY ConstantsAssumption, SMT DEF Init, CycleLimitHolds
<1> QED
  BY <1>2, <1>3, <1>4 DEF SlotInv

(* ... and every step of the scheduler or of a client keeps it.            *)
LEMMA NextSlotInv == SlotInv /\ [Next]_vars => SlotInv'
<1> SUFFICES ASSUME SlotInv, [Next]_vars PROVE SlotInv'
  OBVIOUS
<1>1. CASE UNCHANGED vars
  BY <1>1 DEF SlotInv, TypeOK, CursorsFit, SlotOwnsThePresent, NoWorkStranded,
     CycleLimitHolds, vars, clockVars, slotVars, cursorVars, keyVars, callVars
<1>2. CASE Next
  BY <1>2, ClientCalls, ClientKeepsSlotInv, SelectKeepsSlotInv, DispatchKeepsSlotInv
     DEF Next
<1> QED
  BY <1>1, <1>2

(* The scheduler keeps its types and its slot discipline for all orders,   *)
(* times, cycle limits and calls: the current slot holds exactly the       *)
(* present, no work is left behind the cursor or in a batch that does not  *)
(* run, and the cycle limit holds.                                         *)
THEOREM SlotCorrect ==
  Spec => [](TypeOK /\ SlotOwnsThePresent /\ NoWorkStranded /\ CycleLimitHolds)
<1>1. SlotInv => TypeOK /\ SlotOwnsThePresent /\ NoWorkStranded /\ CycleLimitHolds
  BY DEF SlotInv
<1> QED
  BY <1>1, InitSlotInv, NextSlotInv, PTL DEF Spec

(* The current slot of run() owns the present: work for the current time   *)
(* is never put among the future slots.                                    *)
THEOREM PresentIsOwned == Spec => []SlotOwnsThePresent
  BY SlotCorrect, PTL

(* run() never lets a delta or a round pass the configured cycle limit.    *)
THEOREM LimitHolds == Spec => []CycleLimitHolds
  BY SlotCorrect, PTL

-----------------------------------------------------------------------------
(* The books of EveryTaskAccountedFor: a set N of numbers is split in live *)
(* ones S, finished ones D and keys T; the same for live entries L, keys K *)
(* and next sequence number n; and with L split in the queues Q and F and  *)
(* the running entries R.                                                  *)
Ledger(S, D, T, N) ==
  /\ (S \cup D) \cup T = N
  /\ S \cap D = {} /\ T \cap (S \cup D) = {}

Balanced(L, D, K, n) ==
  /\ \A e, f \in L : e.sequence = f.sequence => e = f
  /\ Ledger(SequencesOf(L), D, SequencesOf(K), 0 .. n - 1)

Accounted(Q, F, R, D, K, n) ==
  /\ Q \cap F = {} /\ (Q \cup F) \cap R = {}
  /\ Balanced((Q \cup F) \cup R, D, K, n)

(* What EveryTaskAccountedFor needs to be inductive: no key is ahead of    *)
(* the epoch, a sequence number belongs to one key at most, and an         *)
(* ordinary callback runs one entry.                                       *)
KeysFit ==
  /\ \A k \in reserved : k.epoch <= epoch
  /\ \A k, l \in UsableKeys : k.sequence = l.sequence => k = l
  /\ pc = "task" => \A e, f \in running : e = f

AccountInv == EveryTaskAccountedFor /\ KeysFit

(* EveryTaskAccountedFor in terms of the books, before and after a step.   *)
LEMMA AccountedFor ==
  EveryTaskAccountedFor <=>
    Accounted(queued, future, running, finished, UsableKeys, next_sequence)
BY DEF EveryTaskAccountedFor, Accounted, Balanced, Ledger, LiveEntries

(* The same for the next state.                                            *)
LEMMA AccountedForNext ==
  EveryTaskAccountedFor' <=>
    Accounted(queued', future', running', finished', UsableKeys', next_sequence')
BY DEF EveryTaskAccountedFor, Accounted, Balanced, Ledger, LiveEntries

(* A step that leaves the queues and the keys alone leaves the books alone. *)
LEMMA SameBooks ==
  ASSUME AccountInv, pc' = "task" => pc = "task",
         UNCHANGED <<queued, future, running, finished, next_sequence>>,
         UNCHANGED <<reserved, epoch>>
  PROVE  AccountInv'
<1>1. UsableKeys' = UsableKeys
  BY DEF UsableKeys
<1>2. EveryTaskAccountedFor'
  BY <1>1, AccountedFor, AccountedForNext DEF AccountInv
<1>3. KeysFit'
  BY <1>1 DEF AccountInv, KeysFit
<1> QED
  BY <1>2, <1>3 DEF AccountInv

-----------------------------------------------------------------------------
(* The moves of one number in the ledger: a new entry or key, a key that   *)
(* gets an entry, and an entry that is no longer live.                     *)
LEMMA LedgerNew ==
  ASSUME NEW S, NEW D, NEW T, NEW N, Ledger(S, D, T, N), NEW s, s \notin N
  PROVE  s \notin S /\ Ledger(S \cup {s}, D, T, N \cup {s})
BY DEF Ledger

(* A reservation takes the new sequence.                                   *)
LEMMA LedgerReserve ==
  ASSUME NEW S, NEW D, NEW T, NEW N, Ledger(S, D, T, N), NEW s, s \notin N
  PROVE  s \notin T /\ Ledger(S, D, T \cup {s}, N \cup {s})
BY DEF Ledger

(* A task scheduled under a reservation takes its sequence over.           *)
LEMMA LedgerKeyed ==
  ASSUME NEW S, NEW D, NEW T, NEW N, Ledger(S, D, T, N), NEW s \in T
  PROVE  s \notin S /\ Ledger(S \cup {s}, D, T \ {s}, N)
BY DEF Ledger

(* A task that ends moves its sequence to the finished ones.               *)
LEMMA LedgerDone ==
  ASSUME NEW S, NEW D, NEW T, NEW N, Ledger(S, D, T, N), NEW s \in S
  PROVE  /\ s \notin T
         /\ Ledger(S \ {s}, D \cup {s}, T, N)
         /\ Ledger(S \ {s}, D, T \cup {s}, N)
BY DEF Ledger

(* The books stay balanced when a new entry takes the next sequence        *)
(* number.                                                                 *)
LEMMA BalanceNew ==
  ASSUME NEW L, NEW D, NEW K, NEW n \in Nat, Balanced(L, D, K, n),
         NEW e, e.sequence = n
  PROVE  e \notin L /\ Balanced(L \cup {e}, D, K, n + 1)
<1> DEFINE S == SequencesOf(L)
           T == SequencesOf(K)
           N == 0 .. n - 1
<1>0. Ledger(S, D, T, N)
  BY DEF Balanced
<1>1. 0 .. (n + 1) - 1 = N \cup {n} /\ n \notin N
  BY SMT
<1>2. n \notin S /\ Ledger(S \cup {n}, D, T, N \cup {n})
  <2> HIDE DEF S, T, N
  <2> QED
    BY <1>0, <1>1, LedgerNew
<1>3. SequencesOf(L \cup {e}) = S \cup {n}
  BY DEF SequencesOf
<1>4. \A f \in L : f.sequence # n
  BY <1>2 DEF SequencesOf
<1>5. \A f, g \in L \cup {e} : f.sequence = g.sequence => f = g
  BY <1>4 DEF Balanced
<1>6. Ledger(SequencesOf(L \cup {e}), D, T, 0 .. (n + 1) - 1)
  BY <1>1, <1>2, <1>3
<1> QED
  BY <1>4, <1>5, <1>6 DEF Balanced

(* An entry takes the sequence number of a reserved key.                   *)
LEMMA BalanceKeyed ==
  ASSUME NEW L, NEW D, NEW K, NEW n, Balanced(L, D, K, n), NEW k \in K,
         \A l \in K : l.sequence = k.sequence => l = k,
         NEW e, e.sequence = k.sequence
  PROVE  e \notin L /\ Balanced(L \cup {e}, D, K \ {k}, n)
<1> DEFINE S == SequencesOf(L)
           T == SequencesOf(K)
           N == 0 .. n - 1
<1>0. Ledger(S, D, T, N)
  BY DEF Balanced
<1>1. k.sequence \in T
  BY DEF SequencesOf
<1>2. /\ k.sequence \notin S
      /\ Ledger(S \cup {k.sequence}, D, T \ {k.sequence}, N)
  <2> HIDE DEF S, T, N
  <2> QED
    BY <1>0, <1>1, LedgerKeyed
<1>3. SequencesOf(K \ {k}) = T \ {k.sequence}
  BY DEF SequencesOf
<1>4. SequencesOf(L \cup {e}) = S \cup {k.sequence}
  BY DEF SequencesOf
<1>5. \A f \in L : f.sequence # k.sequence
  BY <1>2 DEF SequencesOf
<1>6. \A f, g \in L \cup {e} : f.sequence = g.sequence => f = g
  BY <1>5 DEF Balanced
<1>7. Ledger(SequencesOf(L \cup {e}), D, SequencesOf(K \ {k}), N)
  BY <1>2, <1>3, <1>4
<1> QED
  BY <1>5, <1>6, <1>7 DEF Balanced

(* A key takes the next sequence number.                                   *)
LEMMA BalanceReserve ==
  ASSUME NEW L, NEW D, NEW K, NEW n \in Nat, Balanced(L, D, K, n),
         NEW k, k.sequence = n
  PROVE  /\ Balanced(L, D, K \cup {k}, n + 1)
         /\ \A l \in K : l.sequence # n
<1> DEFINE S == SequencesOf(L)
           T == SequencesOf(K)
           N == 0 .. n - 1
<1>0. Ledger(S, D, T, N)
  BY DEF Balanced
<1>1. 0 .. (n + 1) - 1 = N \cup {n} /\ n \notin N
  BY SMT
<1>2. n \notin T /\ Ledger(S, D, T \cup {n}, N \cup {n})
  <2> HIDE DEF S, T, N
  <2> QED
    BY <1>0, <1>1, LedgerReserve
<1>3. SequencesOf(K \cup {k}) = T \cup {n}
  BY DEF SequencesOf
<1>4. \A l \in K : l.sequence # n
  BY <1>2 DEF SequencesOf
<1>5. Ledger(S, D, SequencesOf(K \cup {k}), 0 .. (n + 1) - 1)
  BY <1>1, <1>2, <1>3
<1> QED
  BY <1>4, <1>5 DEF Balanced

(* An entry is finished, or goes back to its key.                          *)
LEMMA BalanceDone ==
  ASSUME NEW L, NEW D, NEW K, NEW n, Balanced(L, D, K, n), NEW e \in L,
         NEW k, k.sequence = e.sequence
  PROVE  /\ Balanced(L \ {e}, D \cup {e.sequence}, K, n)
         /\ Balanced(L \ {e}, D, K \cup {k}, n)
         /\ \A l \in K : l.sequence # e.sequence
<1> DEFINE S == SequencesOf(L)
           T == SequencesOf(K)
           N == 0 .. n - 1
<1>0. Ledger(S, D, T, N)
  BY DEF Balanced
<1>1. e.sequence \in S
  BY DEF SequencesOf
<1>2. /\ e.sequence \notin T
      /\ Ledger(S \ {e.sequence}, D \cup {e.sequence}, T, N)
      /\ Ledger(S \ {e.sequence}, D, T \cup {e.sequence}, N)
  <2> HIDE DEF S, T, N
  <2> QED
    BY <1>0, <1>1, LedgerDone
<1>3. SequencesOf(L \ {e}) = S \ {e.sequence}
  BY DEF SequencesOf, Balanced
<1>4. SequencesOf(K \cup {k}) = T \cup {e.sequence}
  BY DEF SequencesOf
<1>5. \A l \in K : l.sequence # e.sequence
  BY <1>2 DEF SequencesOf
<1>6. \A f, g \in L \ {e} : f.sequence = g.sequence => f = g
  BY DEF Balanced
<1>7. /\ Ledger(SequencesOf(L \ {e}), D \cup {e.sequence}, T, N)
      /\ Ledger(SequencesOf(L \ {e}), D, SequencesOf(K \cup {k}), N)
  BY <1>2, <1>3, <1>4
<1> QED
  BY <1>5, <1>6, <1>7 DEF Balanced

(* A queue's entries change, but not their sequence numbers.               *)
LEMMA AccountedImage ==
  ASSUME NEW Q, NEW F, NEW D, NEW K, NEW n,
         Accounted(Q, F, {}, D, K, n), NEW m,
         \A e \in Q : m[e].sequence = e.sequence
  PROVE  Accounted({m[e] : e \in Q}, F, {}, D, K, n)
<1> DEFINE P == {m[e] : e \in Q}
<1>1. SequencesOf((P \cup F) \cup {}) = SequencesOf((Q \cup F) \cup {})
  BY SMT DEF SequencesOf
<1>2. \A f, g \in (P \cup F) \cup {} : f.sequence = g.sequence => f = g
  BY SMT DEF Accounted, Balanced
<1>3. P \cap F = {}
  BY SMT DEF Accounted, Balanced
<1> HIDE DEF P
<1>4. Accounted(P, F, {}, D, K, n)
  BY <1>1, <1>2, <1>3 DEF Accounted, Balanced
<1> QED
  BY <1>4 DEF P

-----------------------------------------------------------------------------
(* A client call that pushes an entry keeps the books.                     *)
LEMMA PushKeepsAccounts ==
  ASSUME AccountInv, NEW e, PushEntry(e), NEW K, NEW n,
         e \notin (queued \cup future) \cup running,
         Balanced(((queued \cup future) \cup running) \cup {e}, finished, K, n)
  PROVE  Accounted(queued', future', running, finished, K, n)
<1>1. queued \cap future = {} /\ (queued \cup future) \cap running = {}
  BY AccountedFor DEF AccountInv, Accounted
<1>2. /\ queued' \cap future' = {} /\ (queued' \cup future') \cap running = {}
      /\ (queued' \cup future') \cup running
           = ((queued \cup future) \cup running) \cup {e}
  BY <1>1 DEF PushEntry
<1> QED
  BY <1>2 DEF Accounted

(* The scheduling calls give a sequence number, or a key's, to one entry.  *)
LEMMA NewTaskKeepsAccounts ==
  ASSUME SlotInv, AccountInv, NewTask PROVE AccountInv'
<1>1. PICK e : e.sequence = next_sequence /\ PushEntry(e)
  BY DEF NewTask
<1>2. /\ UNCHANGED <<running, finished, pc, epoch, reserved>>
      /\ next_sequence' = next_sequence + 1 /\ next_sequence \in Nat
  BY SMT DEF NewTask, Scheduled, SlotInv, TypeOK
<1>3. UsableKeys' = UsableKeys
  BY <1>2 DEF UsableKeys
<1>4. Balanced((queued \cup future) \cup running, finished, UsableKeys, next_sequence)
  BY AccountedFor DEF AccountInv, Accounted
<1>5. Accounted(queued', future', running, finished, UsableKeys, next_sequence + 1)
  BY <1>1, <1>2, <1>4, BalanceNew, PushKeepsAccounts
<1>6. EveryTaskAccountedFor'
  BY <1>2, <1>3, <1>5, AccountedForNext
<1>7. KeysFit'
  BY <1>2, <1>3 DEF AccountInv, KeysFit
<1> QED
  BY <1>6, <1>7 DEF AccountInv

(* A task under a reserved key: the reservation becomes an entry.          *)
LEMMA KeyedTaskKeepsAccounts ==
  ASSUME SlotInv, AccountInv, NEW k \in reserved, KeyedTask(k) PROVE AccountInv'
<1>1. PICK e : e.sequence = k.sequence /\ PushEntry(e)
  BY DEF KeyedTask
<1>2. /\ UNCHANGED <<running, finished, pc, epoch, next_sequence>>
      /\ reserved' = reserved \ {k} /\ k.epoch = epoch
  BY DEF KeyedTask, Scheduled, ValidKey
<1>3. UsableKeys' = UsableKeys \ {k} /\ k \in UsableKeys
  BY <1>2 DEF UsableKeys
<1>4. Balanced((queued \cup future) \cup running, finished, UsableKeys, next_sequence)
  BY AccountedFor DEF AccountInv, Accounted
<1>5. \A l \in UsableKeys : l.sequence = k.sequence => l = k
  BY <1>3 DEF AccountInv, KeysFit
<1>6. Accounted(queued', future', running, finished, UsableKeys \ {k}, next_sequence)
  <2> DEFINE L == (queued \cup future) \cup running
             K == UsableKeys
  <2>1. Balanced(L, finished, K, next_sequence) /\ k \in K
    BY <1>3, <1>4
  <2>2. \A l \in K : l.sequence = k.sequence => l = k
    BY <1>5
  <2> HIDE DEF L, K
  <2>3. e \notin L /\ Balanced(L \cup {e}, finished, K \ {k}, next_sequence)
    BY <1>1, <2>1, <2>2, BalanceKeyed
  <2> QED
    BY <1>1, <2>3, PushKeepsAccounts DEF L, K
<1>7. EveryTaskAccountedFor'
  BY <1>2, <1>3, <1>6, AccountedForNext
<1>8. KeysFit'
  BY <1>2, <1>3 DEF AccountInv, KeysFit
<1> QED
  BY <1>7, <1>8 DEF AccountInv

(* A reservation gives the next sequence number to a key.                  *)
LEMMA ReserveKeepsAccounts ==
  ASSUME SlotInv, AccountInv, NEW o \in Orders, ReserveOrderKey(o)
  PROVE  AccountInv'
<1> DEFINE k == [order |-> o, sequence |-> next_sequence, epoch |-> epoch]
<1>1. /\ UNCHANGED <<running, finished, pc, epoch, queued, future>>
      /\ next_sequence' = next_sequence + 1 /\ next_sequence \in Nat
      /\ reserved' = reserved \cup {k} /\ epoch \in Nat
  BY SMT DEF ReserveOrderKey, MakeEntry, Scheduled, SlotInv, TypeOK
<1>2. UsableKeys' = UsableKeys \cup {k}
  BY <1>1, SMT DEF UsableKeys
<1>3. Balanced((queued \cup future) \cup running, finished, UsableKeys, next_sequence)
  BY AccountedFor DEF AccountInv, Accounted
<1>4. k.sequence = next_sequence /\ k.epoch = epoch
  OBVIOUS
<1> HIDE DEF k
<1>5. /\ Balanced((queued \cup future) \cup running, finished, UsableKeys \cup {k},
                  next_sequence + 1)
      /\ \A l \in UsableKeys : l.sequence # next_sequence
  BY <1>1, <1>3, <1>4, BalanceReserve
<1>6. Accounted(queued', future', running', finished', UsableKeys', next_sequence')
  BY <1>1, <1>2, <1>5, AccountedFor DEF AccountInv, Accounted
<1>7. \A l \in reserved' : l.epoch <= epoch'
  BY <1>1, <1>4, SMT DEF AccountInv, KeysFit
<1>8. KeysFit'
  BY <1>1, <1>2, <1>4, <1>5, <1>7 DEF AccountInv, KeysFit
<1> QED
  BY <1>6, <1>8, AccountedForNext DEF AccountInv

(* Cancelling finishes a task, or gives its number back to its key.        *)
LEMMA CancelKeepsAccounts ==
  ASSUME SlotInv, AccountInv, NEW e \in LiveEntries, Cancel(e)
  PROVE  AccountInv'
<1> DEFINE k == [order |-> e.order, sequence |-> e.sequence, epoch |-> epoch]
           L == (queued \cup future) \cup running
<1>1. /\ UNCHANGED <<running, pc, epoch, next_sequence>>
      /\ queued' = queued \ {e} /\ future' = future \ {e} /\ epoch \in Nat
  BY DEF Cancel, callVars, SlotInv, TypeOK
<1>2. k.sequence = e.sequence /\ k.epoch = epoch
  OBVIOUS
<1>3. Balanced(L, finished, UsableKeys, next_sequence)
  BY AccountedFor DEF AccountInv, Accounted
<1>4. /\ queued \cap future = {} /\ (queued \cup future) \cap running = {}
      /\ e \in queued \cup future
  BY AccountedFor DEF AccountInv, Accounted, LiveEntries
<1>5. /\ queued' \cap future' = {} /\ (queued' \cup future') \cap running' = {}
      /\ (queued' \cup future') \cup running' = L \ {e}
  BY <1>1, <1>4
<1>6. e \in L
  BY <1>4
<1> HIDE DEF k, L
<1>7. /\ Balanced(L \ {e}, finished \cup {e.sequence}, UsableKeys, next_sequence)
      /\ Balanced(L \ {e}, finished, UsableKeys \cup {k}, next_sequence)
      /\ \A l \in UsableKeys : l.sequence # e.sequence
  BY <1>2, <1>3, <1>6, BalanceDone
<1>8. CASE e.kind = "reserved"
  <2>1. reserved' = reserved \cup {k} /\ UNCHANGED finished
    BY <1>8 DEF Cancel, k
  <2>2. UsableKeys' = UsableKeys \cup {k}
    BY <1>1, <1>2, <2>1 DEF UsableKeys
  <2>3. \A l \in reserved' : l.epoch <= epoch'
    BY <1>1, <1>2, <2>1, SMT DEF AccountInv, KeysFit
  <2>4. KeysFit'
    BY <1>1, <1>2, <1>7, <2>2, <2>3 DEF AccountInv, KeysFit
  <2>5. Accounted(queued', future', running', finished', UsableKeys', next_sequence')
    BY <1>1, <1>5, <1>7, <2>1, <2>2 DEF Accounted
  <2> QED
    BY <2>4, <2>5, AccountedForNext DEF AccountInv
<1>9. CASE e.kind # "reserved"
  <2>1. finished' = finished \cup {e.sequence} /\ UNCHANGED reserved
    BY <1>9 DEF Cancel
  <2>2. UsableKeys' = UsableKeys
    BY <1>1, <2>1 DEF UsableKeys
  <2>3. KeysFit'
    BY <1>1, <2>1, <2>2 DEF AccountInv, KeysFit
  <2>4. Accounted(queued', future', running', finished', UsableKeys', next_sequence')
    BY <1>1, <1>5, <1>7, <2>1, <2>2 DEF Accounted
  <2> QED
    BY <2>3, <2>4, AccountedForNext DEF AccountInv
<1> QED
  BY <1>8, <1>9

(* Discarding finishes every task, or starts the numbers over; the keys    *)
(* belong to an earlier epoch.                                             *)
LEMMA DiscardKeepsAccounts ==
  ASSUME SlotInv, AccountInv, DiscardPending \/ Reset PROVE AccountInv'
<1>1. DiscardQueued
  BY DEF DiscardPending, Reset
<1>2. /\ queued' = {} /\ future' = {} /\ epoch' = epoch + 1 /\ epoch \in Nat
      /\ reserved' = reserved /\ pc' = "idle"
  BY <1>1 DEF DiscardQueued, SlotInv, TypeOK
<1>3. running' = {}
  BY <1>1 DEF DiscardQueued, callVars, SlotInv, CursorsFit
<1>4. \A k \in reserved : k.epoch \in Nat /\ k.epoch <= epoch
  BY DEF SlotInv, TypeOK, OrderKey, AccountInv, KeysFit
<1>5. UsableKeys' = {}
  BY <1>2, <1>4, SMT DEF UsableKeys
<1>6. finished' = 0 .. next_sequence' - 1
  <2>1. CASE DiscardPending
    BY <2>1 DEF DiscardPending
  <2>2. CASE Reset
    BY <2>2, SMT DEF Reset
  <2> QED
    BY <2>1, <2>2
<1>7. EveryTaskAccountedFor'
  BY <1>2, <1>3, <1>5, <1>6 DEF EveryTaskAccountedFor, LiveEntries, SequencesOf
<1>8. KeysFit'
  BY <1>2, <1>4, <1>5, SMT DEF KeysFit
<1> QED
  BY <1>7, <1>8 DEF AccountInv

(* Client calls keep the books.                                            *)
LEMMA ClientKeepsAccounts ==
  ASSUME SlotInv, AccountInv, ClientCall PROVE AccountInv'
<1>1. CASE RequestStop \/ ClearStop
           \/ \E limit \in Ticks \cup {NoLimit} : RunBegin(limit)
  <2>1. /\ UNCHANGED <<queued, future, running, finished, reserved, epoch,
                        next_sequence>>
        /\ pc' = "task" => pc = "task"
    BY <1>1 DEF RequestStop, ClearStop, RunBegin, keyVars, callVars
  <2> QED
    BY <2>1, SameBooks
<1> QED
  BY <1>1, NewTaskKeepsAccounts, KeyedTaskKeepsAccounts, ReserveKeepsAccounts,
     CancelKeepsAccounts, DiscardKeepsAccounts DEF ClientCall

-----------------------------------------------------------------------------
(* Steps of run outside callbacks that leave the queues as they are.       *)
LEMMA QuietStepKeepsAccounts ==
  ASSUME SlotInv, AccountInv, pc \notin {"task", "batch"}, running' = {},
         pc' # "task", UNCHANGED <<queued, future, keyVars, finished>>
  PROVE  AccountInv'
<1>1. UNCHANGED <<running, reserved, epoch, next_sequence>>
  BY DEF SlotInv, CursorsFit, keyVars
<1> QED
  BY <1>1, SameBooks

(* Loading a slot splits the future.                                       *)
LEMMA LoadNextSlotKeepsAccounts ==
  ASSUME SlotInv, AccountInv, LoadNextSlot PROVE AccountInv'
<1>1. /\ queued = {} /\ running = {} /\ running' = {} /\ pc' = "slot_start"
      /\ UNCHANGED <<finished, reserved, epoch, next_sequence>>
  BY DEF LoadNextSlot, AtSlotBoundary, SlotInv, SlotOwnsThePresent, CursorsFit,
     callVars, Goto, Step, keyVars
<1>2. queued' \cup future' = future /\ queued' \cap future' = {}
  BY DEF LoadNextSlot
<1>3. (queued' \cup future') \cup running' = (queued \cup future) \cup running
  BY <1>1, <1>2
<1>4. UsableKeys' = UsableKeys
  BY <1>1 DEF UsableKeys
<1>5. Accounted(queued', future', running', finished', UsableKeys', next_sequence')
  BY <1>1, <1>2, <1>3, <1>4, AccountedFor DEF AccountInv, Accounted
<1> QED
  BY <1>1, <1>4, <1>5, AccountedForNext DEF AccountInv, KeysFit

(* Freezing a region and swapping the delta queues move entries to another *)
(* queue of the slot.                                                      *)
LEMMA RequeueKeepsAccounts ==
  ASSUME SlotInv, AccountInv, running = {}, running' = {}, pc' # "task",
         UNCHANGED <<future, keyVars, finished>>,
         NEW m, \A e \in queued : m[e].sequence = e.sequence,
         queued' = {m[e] : e \in queued}
  PROVE  AccountInv'
<1>1. UNCHANGED <<reserved, epoch, next_sequence>>
  BY DEF keyVars
<1>2. UsableKeys' = UsableKeys
  BY <1>1 DEF UsableKeys
<1>3. Accounted(queued, future, {}, finished, UsableKeys, next_sequence)
  BY AccountedFor DEF AccountInv
<1>4. Accounted(queued', future, {}, finished, UsableKeys, next_sequence)
  BY <1>3, AccountedImage, SMT
<1>5. EveryTaskAccountedFor'
  <2>1. future' = future /\ finished' = finished
    OBVIOUS
  <2> QED
    BY <1>1, <1>2, <1>4, <2>1, AccountedForNext
<1>6. KeysFit'
  BY <1>1, <1>2 DEF AccountInv, KeysFit
<1> QED
  BY <1>5, <1>6 DEF AccountInv

(* Freezing a batch moves entries between buckets.                         *)
LEMMA BeginBatchKeepsAccounts ==
  ASSUME SlotInv, AccountInv, BeginSystemVerilogBatch PROVE AccountInv'
<1> DEFINE p == LowestPhase(SvCandidates)
           m == [e \in queued |->
                  IF e \in SvPending(p)
                  THEN [e EXCEPT !.bucket = "systemverilog_running"] ELSE e]
<1>1. pc = "top" /\ running = {} /\ UNCHANGED <<future, keyVars, finished>>
  BY DEF BeginSystemVerilogBatch, Selecting, SlotInv, CursorsFit, Step
<1>2. CASE RoundAfterPendingPhase(p) = 0
  <2>1. running' = {} /\ pc' = "idle" /\ UNCHANGED queued
    BY <1>2 DEF BeginSystemVerilogBatch, Return
  <2> QED
    BY <1>1, <2>1, QuietStepKeepsAccounts
<1>3. CASE RoundAfterPendingPhase(p) # 0
  <2>1. /\ queued' = {IF e \in SvPending(p)
                      THEN [e EXCEPT !.bucket = "systemverilog_running"]
                      ELSE e : e \in queued}
        /\ running' = {} /\ pc' = "drain"
    BY <1>1, <1>3 DEF BeginSystemVerilogBatch, Drain, Goto
  <2>2. queued' = {m[e] : e \in queued}
    BY <2>1
  <2>3. \A e \in queued : m[e].sequence = e.sequence
    BY DEF SlotInv, TypeOK, Entry
  <2> HIDE DEF m
  <2> QED
    BY <1>1, <2>1, <2>2, <2>3, RequeueKeepsAccounts
<1> QED
  BY <1>2, <1>3

(* So does the swap of the next-delta buckets.                             *)
LEMMA BeginNextDeltaKeepsAccounts ==
  ASSUME SlotInv, AccountInv, BeginNextDelta PROVE AccountInv'
<1> DEFINE m == [e \in queued |-> [e EXCEPT !.bucket = Swap(e.bucket)]]
<1>1. pc = "top" /\ running = {} /\ UNCHANGED <<future, keyVars, finished>>
  BY DEF BeginNextDelta, CycleDone, Selecting, SlotInv, CursorsFit, Step
<1>2. CASE delta + 1 >= MaxDeltaCycles
  <2>1. running' = {} /\ pc' = "idle" /\ UNCHANGED queued
    BY <1>2 DEF BeginNextDelta, Return
  <2> QED
    BY <1>1, <2>1, QuietStepKeepsAccounts
<1>3. CASE ~(delta + 1 >= MaxDeltaCycles)
  <2>1. /\ queued' = {[e EXCEPT !.bucket = Swap(e.bucket)] : e \in queued}
        /\ running' = {} /\ pc' = "top"
    BY <1>1, <1>3 DEF BeginNextDelta, Goto, callVars
  <2>2. queued' = {m[e] : e \in queued}
    BY <2>1
  <2>3. \A e \in queued : m[e].sequence = e.sequence
    BY DEF SlotInv, TypeOK, Entry
  <2> HIDE DEF m
  <2> QED
    BY <1>1, <2>1, <2>2, <2>3, RequeueKeepsAccounts
<1> QED
  BY <1>2, <1>3

(* Selecting what to do next keeps the books.                              *)
LEMMA SelectKeepsAccounts ==
  ASSUME SlotInv, AccountInv, Select PROVE AccountInv'
<1>1. CASE \/ StopAtSlotBoundary \/ RunDry \/ ReachTimeLimit \/ StopInSlot
           \/ ResumeSystemVerilogBatch \/ SelectGenericPhase \/ SelectEndOfSlot
           \/ QuietHook \/ FinishSlot
  <2>1. /\ pc \in {"top", "quiet"} /\ pc' # "task"
        /\ running' = {} \/ running' = running
    BY <1>1 DEF StopAtSlotBoundary, RunDry, ReachTimeLimit, AtSlotBoundary,
       StopInSlot, ResumeSystemVerilogBatch, SelectGenericPhase, SelectEndOfSlot,
       QuietHook, FinishSlot, Quiescent, CycleDone, Selecting, Return, Drain, Goto,
       callVars
  <2>2. UNCHANGED <<queued, future, keyVars, finished>>
    BY <1>1 DEF StopAtSlotBoundary, RunDry, ReachTimeLimit, StopInSlot,
       ResumeSystemVerilogBatch, SelectGenericPhase, SelectEndOfSlot, QuietHook,
       FinishSlot, Step
  <2>3. running' = {}
    BY <2>1 DEF SlotInv, CursorsFit
  <2> QED
    BY <2>1, <2>2, <2>3, QuietStepKeepsAccounts
<1> QED
  BY <1>1, LoadNextSlotKeepsAccounts, BeginBatchKeepsAccounts,
     BeginNextDeltaKeepsAccounts DEF Select

-----------------------------------------------------------------------------
(* Popping entries hands them to the callback.                             *)
LEMMA StartKeepsAccounts ==
  ASSUME SlotInv, AccountInv, NEW Q \in SUBSET queued, pc = "drain",
         queued' = queued \ Q, running' = Q, UNCHANGED <<future, keyVars, finished>>,
         pc' = "task" => \A e, f \in Q : e = f
  PROVE  AccountInv'
<1>1. running = {} /\ UNCHANGED <<reserved, epoch, next_sequence>>
  BY DEF SlotInv, CursorsFit, keyVars
<1>2. UsableKeys' = UsableKeys
  BY <1>1 DEF UsableKeys
<1>3. queued \cap future = {}
  BY AccountedFor DEF AccountInv, Accounted
<1>4. /\ queued' \cap future' = {} /\ (queued' \cup future') \cap running' = {}
      /\ (queued' \cup future') \cup running' = (queued \cup future) \cup running
  BY <1>1, <1>3
<1>5. Accounted(queued', future', running', finished', UsableKeys', next_sequence')
  BY <1>1, <1>2, <1>4, AccountedFor DEF AccountInv, Accounted
<1> QED
  BY <1>1, <1>2, <1>5, AccountedForNext DEF AccountInv, KeysFit

(* A callback, or a member of a batch, is done: the entry is finished, and *)
(* the others stay with the batch or go back to the queue.                 *)
LEMMA EndKeepsAccounts ==
  ASSUME SlotInv, AccountInv, pc \in {"task", "batch"}, Complete, pc' # "task",
         UNCHANGED <<future, keyVars>>,
         \/ queued' = queued /\ running' = Rest
         \/ queued' = queued \cup Rest /\ running' = {}
  PROVE  AccountInv'
<1> DEFINE e == First(running)
           L == (queued \cup future) \cup running
<1>1. e \in running /\ Rest = running \ {e} /\ finished' = finished \cup {e.sequence}
  BY RestProperties DEF Complete
<1>2. UNCHANGED <<reserved, epoch, next_sequence>>
  BY DEF keyVars
<1>3. UsableKeys' = UsableKeys
  BY <1>2 DEF UsableKeys
<1>4. /\ queued \cap future = {} /\ (queued \cup future) \cap running = {}
      /\ Balanced(L, finished, UsableKeys, next_sequence)
  BY AccountedFor DEF AccountInv, Accounted
<1> HIDE DEF e
<1>5. /\ queued' \cap future' = {} /\ (queued' \cup future') \cap running' = {}
      /\ (queued' \cup future') \cup running' = L \ {e}
  BY <1>1, <1>4
<1>6. e \in L
  BY <1>1
<1> HIDE DEF L
<1>7. Balanced(L \ {e}, finished \cup {e.sequence}, UsableKeys, next_sequence)
  BY <1>4, <1>6, BalanceDone
<1>8. Accounted(queued', future', running', finished', UsableKeys', next_sequence')
  BY <1>1, <1>2, <1>3, <1>5, <1>7 DEF Accounted
<1> QED
  BY <1>2, <1>3, <1>8, AccountedForNext DEF AccountInv, KeysFit

(* Draining a queue keeps the books.                                       *)
LEMMA DispatchKeepsAccounts ==
  ASSUME SlotInv, AccountInv, Dispatch PROVE AccountInv'
<1>1. CASE StopInDrain \/ BatchThrows \/ HookThrows \/ EndPass \/ EndHook
  <2>1. /\ pc \in {"drain", "slot_start", "safe_point"} /\ pc' # "task"
        /\ running' = {} \/ running' = running
        /\ UNCHANGED <<queued, future, keyVars, finished>>
    BY <1>1 DEF StopInDrain, BatchThrows, HookThrows, EndPass, EndHook, Return, Goto,
       Step, callVars
  <2>2. running' = {}
    BY <2>1 DEF SlotInv, CursorsFit
  <2> QED
    BY <2>1, <2>2, QuietStepKeepsAccounts
<1>2. CASE StartTask
  <2>1. RunQueue \in SUBSET Entry /\ RunQueue # {}
    BY <1>2, RunQueueQueued DEF StartTask, PassDone, SlotInv, TypeOK
  <2>2. {First(RunQueue)} \in SUBSET queued
    BY <2>1, FirstProperties, RunQueueQueued
  <2>3. /\ pc = "drain" /\ queued' = queued \ {First(RunQueue)}
        /\ running' = {First(RunQueue)} /\ UNCHANGED <<future, keyVars, finished>>
    BY <1>2 DEF StartTask, Step
  <2> QED
    BY <2>2, <2>3, StartKeepsAccounts
<1>3. CASE StartBatch
  <2>1. BatchRun(RunQueue) \in SUBSET queued
    BY RunQueueQueued
  <2>2. /\ pc = "drain" /\ queued' = queued \ BatchRun(RunQueue) /\ pc' = "batch"
        /\ running' = BatchRun(RunQueue) /\ UNCHANGED <<future, keyVars, finished>>
    BY <1>3 DEF StartBatch, Step, Goto
  <2> QED
    BY <2>1, <2>2, StartKeepsAccounts
<1>4. CASE EndTask \/ TaskThrows
  <2>1. /\ pc = "task" /\ Complete /\ pc' # "task" /\ running' = {}
        /\ UNCHANGED <<queued, future, keyVars>>
    BY <1>4 DEF EndTask, TaskThrows, Return, Goto, Step
  <2>2. First(running) \in running /\ Rest = running \ {First(running)}
    BY <2>1, RestProperties
  <2>3. Rest = {}
    BY <2>1, <2>2 DEF AccountInv, KeysFit
  <2> QED
    BY <2>1, <2>3, EndKeepsAccounts
<1>5. CASE \E failure \in BOOLEAN : EndMember(failure)
  <2>1. /\ pc = "batch" /\ Complete /\ pc' # "task" /\ UNCHANGED <<future, keyVars>>
        /\ \/ queued' = queued /\ running' = Rest
           \/ queued' = queued \cup Rest /\ running' = {}
    BY <1>5 DEF EndMember, PushBackSuffix, Return, Goto, Step
  <2> QED
    BY <2>1, EndKeepsAccounts
<1> QED
  BY <1>1, <1>2, <1>3, <1>4, <1>5 DEF Dispatch

-----------------------------------------------------------------------------
(* Nothing is scheduled, and no sequence number handed out, at the start.  *)
LEMMA InitAccounts == Init => AccountInv
<1> SUFFICES ASSUME Init PROVE AccountInv
  OBVIOUS
<1>1. UsableKeys = {} /\ 0 .. next_sequence - 1 = {}
  BY SMT DEF Init, UsableKeys
<1>2. EveryTaskAccountedFor
  BY <1>1 DEF Init, EveryTaskAccountedFor, LiveEntries, SequencesOf
<1> QED
  BY <1>1, <1>2 DEF Init, AccountInv, KeysFit

(* Every step keeps the books.                                             *)
LEMMA NextAccounts == SlotInv /\ AccountInv /\ [Next]_vars => AccountInv'
<1> SUFFICES ASSUME SlotInv, AccountInv, [Next]_vars PROVE AccountInv'
  OBVIOUS
<1>1. CASE UNCHANGED vars
  <2>1. /\ UNCHANGED <<queued, future, running, finished, next_sequence>>
        /\ UNCHANGED <<reserved, epoch, pc>>
    BY <1>1 DEF vars, keyVars, callVars, slotVars
  <2> QED
    BY <2>1, SameBooks
<1>2. CASE Next
  BY <1>2, ClientCalls, ClientKeepsAccounts, SelectKeepsAccounts,
     DispatchKeepsAccounts DEF Next
<1> QED
  BY <1>1, <1>2

(* No task is lost or duplicated, whatever the orders, times, limits and   *)
(* calls: through stops, time limits, exceptions, cancellation, frozen     *)
(* regions, delta cycles and cut batches, every sequence number handed out *)
(* has exactly one owner.                                                  *)
THEOREM NoTaskLost == Spec => []EveryTaskAccountedFor
<1>1. AccountInv => EveryTaskAccountedFor
  BY DEF AccountInv
<1> QED
  BY <1>1, InitSlotInv, NextSlotInv, InitAccounts, NextAccounts, PTL DEF Spec

-----------------------------------------------------------------------------
(* A client changes nothing while the run loop is between two callbacks,   *)
(* but for the stop flag.                                                  *)
LEMMA ClientWaits ==
  ASSUME Client
  PROVE  \/ pc \in ClientPoints
         \/ RequestStop \/ ClearStop
BY DEF Client, ScheduleAt, ScheduleAfterCancelable, ScheduleNextDelta,
     ScheduleNextDeltaBatchable, ScheduleSystemVerilogAt,
     ScheduleSystemVerilogAfterCancelable, ScheduleSystemVerilogBatchable,
     ScheduleSystemVerilogRunningActive, ScheduleEndOfTimeSlot, ReserveOrderKey,
     MakeEntry, ScheduleReservedNextDelta, ScheduleReservedCurrent, UseKey, Cancel,
     DiscardPending, Reset, DiscardQueued, RunBegin, ClientPoints, Points

(* What every call leaves alone: the run in progress and its cursors,      *)
(* unless the call discards everything between runs.                       *)
ClientFrame ==
  /\ UNCHANGED <<executed, running>>
  /\ \/ UNCHANGED <<now, slotVars, pc, status, until>>
     \/ /\ pc = "idle" /\ pc' = "idle" /\ ~has_slot' /\ executing_eos' = FALSE
        /\ delta' = 0 /\ sv_phase' = NoPhase /\ queued' = {} /\ future' = {}
     \/ /\ pc = "idle" /\ pc' = "top"
        /\ UNCHANGED <<now, future, queued, slotVars>>
(* Every call of the interface keeps to it.                                *)
LEMMA ClientKeepsFrame ==
  ASSUME SlotInv, Client PROVE ClientFrame
<1>1. ClientCall
  BY ClientCalls
<1>2. CASE NewTask \/ \E k \in reserved : KeyedTask(k)
  <2>1. Scheduled
    BY <1>2 DEF NewTask, KeyedTask
  <2> QED
    BY <2>1 DEF ClientFrame, Scheduled, clockVars
<1>3. CASE \E o \in Orders : ReserveOrderKey(o)
  <2>1. Scheduled
    BY <1>3 DEF ReserveOrderKey
  <2> QED
    BY <2>1 DEF ClientFrame, Scheduled, clockVars
<1>4. CASE \/ \E e \in LiveEntries : Cancel(e)
           \/ RequestStop \/ ClearStop
  BY <1>4 DEF Cancel, RequestStop, ClearStop, ClientFrame, clockVars, callVars
<1>5. CASE DiscardPending \/ Reset
  <2>1. DiscardQueued
    BY <1>5 DEF DiscardPending, Reset
  <2> QED
    BY <2>1 DEF DiscardQueued, DropSlot, ClientFrame, callVars
<1>6. CASE \E limit \in Ticks \cup {NoLimit} : RunBegin(limit)
  BY <1>6 DEF RunBegin, ClientFrame, callVars
<1> QED
  BY <1>1, <1>2, <1>3, <1>4, <1>5, <1>6 DEF ClientCall

-----------------------------------------------------------------------------
(***************************************************************************)
(* Stop requests.                                                          *)
(***************************************************************************)
(* A request_stop is seen before the next task and before the next member  *)
(* of a batch: nothing starts in a step that finds the flag set.           *)
THEOREM StopPrompt == Spec => StopIsPrompt
<1>1. ASSUME SlotInv, [Next]_vars PROVE [Starts => ~stop]_vars
  <2> SUFFICES ASSUME Next, pc' \in {"task", "batch"}, running' # running
               PROVE  ~stop
    BY <1>1 DEF Starts
  <2>1. CASE Client
    BY <1>1, <2>1, ClientKeepsFrame DEF ClientFrame
  <2>2. CASE Select
    <3>1. pc' \notin {"task", "batch"}
      BY <2>2 DEF Select, StopAtSlotBoundary, RunDry, ReachTimeLimit, LoadNextSlot,
         StopInSlot, ResumeSystemVerilogBatch, BeginSystemVerilogBatch,
         SelectGenericPhase, BeginNextDelta, SelectEndOfSlot, QuietHook, FinishSlot,
         Return, Goto, Drain
    <3> QED
      BY <3>1
  <2>3. CASE Dispatch
    <3>1. CASE StartTask \/ StartBatch
      BY <3>1 DEF StartTask, StartBatch
    <3>2. ASSUME NEW failure \in BOOLEAN, EndMember(failure) PROVE ~stop
      <4>1. CASE MemberEndsBatch(failure)
        BY <3>2, <4>1 DEF EndMember, Return, Goto
      <4>2. CASE ~MemberEndsBatch(failure)
        BY <4>2 DEF MemberEndsBatch
      <4> QED
        BY <4>1, <4>2
    <3>3. CASE StopInDrain \/ BatchThrows \/ EndTask \/ TaskThrows \/ EndPass
               \/ EndHook \/ HookThrows
      BY <3>3 DEF StopInDrain, BatchThrows, EndTask, TaskThrows, EndPass, EndHook,
         HookThrows, Return, Goto
    <3> QED
      BY <2>3, <3>1, <3>2, <3>3 DEF Dispatch
  <2> QED
    BY <2>1, <2>2, <2>3 DEF Next
<1> QED
  BY <1>1, InitSlotInv, NextSlotInv, PTL DEF Spec, StopIsPrompt

-----------------------------------------------------------------------------
(***************************************************************************)
(* Delta cycles.                                                           *)
(***************************************************************************)
(* Once the phases of a delta cycle are done, what is left in the slot     *)
(* waits for the next delta cycle, for the end of the slot, or in a        *)
(* SystemVerilog region.                                                   *)
LEMMA CycleDoneLeaves ==
  ASSUME SlotInv, phase = PhaseCount, sv_phase = NoPhase, NEW e \in queued
  PROVE  e.bucket \in {"next_delta", "end_of_slot", "systemverilog"} /\ e.phase \in Phases
<1>1. e \in Entry
  BY DEF SlotInv, TypeOK
<1>2. e.bucket \in Buckets /\ e.phase \in Phases
  BY <1>1 DEF Entry
<1>3. e.bucket # "current"
  BY <1>2, PhaseFacts, SMT DEF SlotInv, NoWorkStranded
<1>4. e.bucket # "systemverilog_running"
  BY <1>2, PhaseFacts, SMT DEF SlotInv, NoWorkStranded
<1> QED
  BY <1>2, <1>3, <1>4 DEF Buckets

(* Only advance_delta moves the delta counter up.                          *)
LEMMA DeltaMoves ==
  ASSUME SlotInv, Next, delta' > delta PROVE BeginNextDelta
<1>1. delta \in Nat /\ ~(delta > delta) /\ ~(0 > delta)
  BY SMT DEF SlotInv, TypeOK
<1>2. CASE Client
  BY <1>1, <1>2, ClientKeepsFrame DEF ClientFrame, slotVars, cursorVars
<1>3. CASE Select
  BY <1>1, <1>3 DEF Select, StopAtSlotBoundary, RunDry, ReachTimeLimit, LoadNextSlot,
     StopInSlot, ResumeSystemVerilogBatch, BeginSystemVerilogBatch,
     SelectGenericPhase, SelectEndOfSlot, QuietHook, FinishSlot,
     DropSlot, slotVars, cursorVars
<1>4. CASE Dispatch
  BY <1>1, <1>4 DEF Dispatch, StopInDrain, StartTask, StartBatch, BatchThrows,
     EndTask, TaskThrows, EndMember, EndPass, EndHook, HookThrows, slotVars, cursorVars
<1> QED
  BY <1>2, <1>3, <1>4 DEF Next

(* run() advances the delta cycle only when its phases have drained, every *)
(* SystemVerilog region but the postponed one is empty, and there is work  *)
(* for the next one.                                                       *)
THEOREM DeltaSettled == Spec => DeltaAdvancesWhenSettled
<1> DEFINE Settled ==
      /\ \A e \in queued :
           \/ e.bucket \in {"next_delta", "end_of_slot"}
           \/ e.bucket = "systemverilog" /\ e.phase = Postponed
      /\ InBucket("current")' # {}
<1>1. ASSUME SlotInv, [Next]_vars PROVE [delta' > delta => Settled]_vars
  <2> SUFFICES ASSUME Next, delta' > delta PROVE Settled
    BY <1>1
  <2>1. BeginNextDelta
    BY <1>1, DeltaMoves
  <2>2. /\ phase = PhaseCount /\ sv_phase = NoPhase /\ SvPendingPhases(Postponed) = {}
        /\ InBucket("next_delta") # {}
    BY <2>1 DEF BeginNextDelta, CycleDone
  <2>3. queued' = {[e EXCEPT !.bucket = Swap(e.bucket)] : e \in queued}
    <3>1. ~(delta > delta)
      BY <1>1, SMT DEF SlotInv, TypeOK
    <3> QED
      BY <2>1, <3>1 DEF BeginNextDelta
  <2>4. ASSUME NEW e \in queued
        PROVE  \/ e.bucket \in {"next_delta", "end_of_slot"}
               \/ e.bucket = "systemverilog" /\ e.phase = Postponed
    <3>1. e.bucket \in {"next_delta", "end_of_slot", "systemverilog"} /\ e.phase \in Phases
      BY <1>1, <2>2, CycleDoneLeaves
    <3>2. CASE e.bucket = "systemverilog"
      <4>1. ~(e.phase < Postponed)
        BY <2>2, <3>1, <3>2 DEF SvPendingPhases, SvPending
      <4> QED
        BY <3>1, <3>2, <4>1, PhaseFacts, SMT
    <3> QED
      BY <3>1, <3>2
  <2>5. InBucket("current")' # {}
    <3>1. PICK e \in queued : e.bucket = "next_delta"
      BY <2>2 DEF InBucket
    <3>2. e \in Entry
      BY <1>1 DEF SlotInv, TypeOK
    <3>3. [e EXCEPT !.bucket = Swap(e.bucket)].bucket = "current"
      BY <3>1, <3>2 DEF Swap, Entry
    <3>4. [e EXCEPT !.bucket = Swap(e.bucket)] \in queued'
      BY <2>3
    <3> QED
      BY <3>3, <3>4 DEF InBucket
  <2> QED
    BY <2>4, <2>5
<1> QED
  BY <1>1, InitSlotInv, NextSlotInv, PTL DEF Spec, DeltaAdvancesWhenSettled

-----------------------------------------------------------------------------
(***************************************************************************)
(* The result of a run.                                                    *)
(***************************************************************************)
(* The future slot that is next comes first.                               *)
LEMMA NextTimeIsLeast ==
  ASSUME SlotInv, future # {} PROVE \A e \in future : e.time >= NextTime /\ NextTime \in Nat
<1>1. FutureTimes \in SUBSET Nat /\ FutureTimes # {}
  BY ConstantsAssumption, SMT DEF SlotInv, TypeOK, FutureTimes, Entry, Ticks
<1>2. PICK t \in FutureTimes : \A u \in FutureTimes : t <= u
  BY <1>1, LeastNatural
<1>3. NextTime \in FutureTimes /\ \A u \in FutureTimes : NextTime <= u
  BY <1>2, Zenon DEF NextTime
<1>4. ASSUME NEW e \in future PROVE e.time \in FutureTimes
  BY DEF FutureTimes
<1> QED
  BY <1>1, <1>3, <1>4

(* run() returns completed only when nothing is pending, time_limit only   *)
(* with the clock at the limit and everything left beyond it, and stopped  *)
(* only after a request.                                                   *)
THEOREM RunResultTrue == Spec => RunResultIsTrue
<1> DEFINE Honest ==
      /\ status' = "completed" => LiveEntries' = {} /\ ~has_slot'
      /\ status' = "time_limit" =>
           now' = until /\ ~has_slot' /\ \A e \in LiveEntries' : e.time > until
      /\ status' = "stopped" => stop
<1>1. ASSUME SlotInv, [Next]_vars PROVE [pc # "idle" /\ pc' = "idle" => Honest]_vars
  <2> SUFFICES ASSUME Next, pc # "idle", pc' = "idle" PROVE Honest
    BY <1>1
  <2>1. CASE Client
    BY <1>1, <2>1, ClientKeepsFrame DEF ClientFrame
  <2>2. CASE \/ StopAtSlotBoundary \/ StopInSlot \/ StopInDrain
    <3>1. status' = "stopped" /\ stop
      BY <2>2 DEF StopAtSlotBoundary, StopInSlot, StopInDrain, Return
    <3> QED
      BY <3>1
  <2>3. CASE \/ BeginSystemVerilogBatch \/ BeginNextDelta \/ BatchThrows \/ TaskThrows
             \/ HookThrows \/ \E failure \in BOOLEAN : EndMember(failure)
    <3>1. status' = "error"
      BY <2>3 DEF BeginSystemVerilogBatch, BeginNextDelta, BatchThrows, TaskThrows,
         HookThrows, EndMember, Return, Goto, Drain
    <3> QED
      BY <3>1
  <2>4. CASE RunDry
    <3>1. ~has_slot /\ future = {} /\ UNCHANGED <<future, queued, has_slot>>
      BY <2>4 DEF RunDry, AtSlotBoundary, slotVars
    <3>2. LiveEntries' = {} /\ ~has_slot'
      BY <1>1, <3>1 DEF LiveEntries, SlotInv, SlotOwnsThePresent
    <3>3. \/ status' = "time_limit" /\ now' = until
          \/ status' = "completed"
      BY <2>4 DEF RunDry, Return
    <3> QED
      BY <3>2, <3>3
  <2>5. CASE ReachTimeLimit
    <3>1. /\ ~has_slot /\ future # {} /\ NextTime > until /\ until # NoLimit
          /\ now' = until /\ status' = "time_limit"
          /\ UNCHANGED <<future, queued, has_slot>>
      BY <2>5 DEF ReachTimeLimit, AtSlotBoundary, slotVars, Return
    <3>2. LiveEntries' = future
      BY <1>1, <3>1 DEF LiveEntries, SlotInv, SlotOwnsThePresent
    <3>3. until \in Nat
      BY <1>1, <3>1, ConstantsAssumption, SMT DEF SlotInv, TypeOK, Ticks
    <3>4. \A e \in future : e.time > until
      <4> TAKE e \in future
      <4>1. e.time >= NextTime /\ NextTime \in Nat
        BY <1>1, <3>1, NextTimeIsLeast
      <4>2. e.time \in Nat
        BY <1>1, ConstantsAssumption, SMT DEF SlotInv, TypeOK, Entry, Ticks
      <4> QED
        BY <3>1, <3>3, <4>1, <4>2, SMT
    <3> QED
      BY <3>1, <3>2, <3>4
  <2>6. CASE \/ LoadNextSlot \/ ResumeSystemVerilogBatch \/ SelectGenericPhase
             \/ SelectEndOfSlot \/ QuietHook \/ FinishSlot \/ StartTask \/ StartBatch
             \/ EndTask \/ EndPass \/ EndHook
    BY <2>6 DEF LoadNextSlot, ResumeSystemVerilogBatch, SelectGenericPhase,
       SelectEndOfSlot, QuietHook, FinishSlot, StartTask, StartBatch, EndTask, EndPass,
       EndHook, Goto, Drain
  <2> QED
    BY <2>1, <2>2, <2>3, <2>4, <2>5, <2>6 DEF Next, Select, Dispatch
<1> QED
  BY <1>1, InitSlotInv, NextSlotInv, PTL DEF Spec, RunResultIsTrue

-----------------------------------------------------------------------------
(***************************************************************************)
(* Frozen batches.                                                         *)
(***************************************************************************)
(* A frozen SystemVerilog batch runs to its end, across stops, exceptions  *)
(* and resumed runs, before another region begins; and only work pushed    *)
(* into a running Active batch joins it.                                   *)
THEOREM FrozenBatchCompletes == Spec => FrozenBatchRunsToCompletion
<1> DEFINE Frozen == InBucket("systemverilog_running")
           Goes == /\ sv_phase' = sv_phase
                   /\ sv_phase = Active \/ Frozen' \subseteq Frozen \cup running
<1>1. ASSUME SlotInv, [Next]_vars
      PROVE  [sv_phase # NoPhase /\ has_slot' =>
                 Goes \/ (Frozen = {} /\ running = {})]_vars
  <2> SUFFICES ASSUME Next, sv_phase # NoPhase, has_slot'
               PROVE  Goes \/ (Frozen = {} /\ running = {})
    BY <1>1
  <2>1. has_slot
    BY <1>1 DEF SlotInv, CursorsFit
  <2>2. ASSUME UNCHANGED sv_phase, queued' \subseteq queued \cup running PROVE Goes
    BY <2>2 DEF InBucket
  <2>3. CASE Client
    <3>1. ClientCall /\ ClientFrame
      BY <1>1, <2>3, ClientCalls, ClientKeepsFrame
    <3>2. sv_phase' = sv_phase
      BY <3>1 DEF ClientFrame, slotVars, cursorVars
    <3>3. CASE NewTask \/ \E k \in reserved : KeyedTask(k)
      <4>1. PICK e : Placed(e) /\ PushEntry(e)
        BY <3>3 DEF NewTask, KeyedTask
      <4>2. CASE Here(e.time)
        <5>1. queued' = queued \cup {e}
          BY <4>1, <4>2 DEF PushEntry
        <5>2. e.bucket = "systemverilog_running" => sv_phase = Active
          BY <4>1, <4>2 DEF Placed
        <5> QED
          BY <3>2, <5>1, <5>2 DEF InBucket
      <4>3. CASE ~Here(e.time)
        BY <2>2, <3>2, <4>1, <4>3 DEF PushEntry
      <4> QED
        BY <4>2, <4>3
    <3>4. queued' \subseteq queued \/ NewTask \/ \E k \in reserved : KeyedTask(k)
      BY <3>1 DEF ClientCall, ReserveOrderKey, Cancel, RequestStop, ClearStop,
         DiscardPending, Reset, DiscardQueued, RunBegin
    <3> QED
      BY <2>2, <3>2, <3>3, <3>4
  <2>4. CASE Select
    <3>1. UNCHANGED <<sv_phase, queued>>
      BY <2>1, <2>4 DEF Select, StopAtSlotBoundary, RunDry, ReachTimeLimit,
         LoadNextSlot, AtSlotBoundary, StopInSlot, ResumeSystemVerilogBatch,
         BeginSystemVerilogBatch, SelectGenericPhase, BeginNextDelta, CycleDone,
         SelectEndOfSlot, QuietHook, Quiescent, FinishSlot, DropSlot, slotVars,
         cursorVars
    <3> QED
      BY <2>2, <3>1
  <2>5. CASE EndPass
    <3>1. PassDone /\ pc = "drain"
      BY <2>5 DEF EndPass
    <3>2. Frozen = {}
      BY <1>1, <3>1 DEF PassDone, RunQueue, SlotInv, CursorsFit
    <3>3. running = {}
      BY <1>1, <3>1 DEF SlotInv, CursorsFit
    <3> QED
      BY <3>2, <3>3
  <2>6. CASE \E failure \in BOOLEAN : EndMember(failure)
    <3>1. UNCHANGED sv_phase /\ queued' \subseteq queued \cup running
      BY <2>6 DEF EndMember, PushBackSuffix, Rest, slotVars, cursorVars
    <3> QED
      BY <2>2, <3>1
  <2>7. CASE \/ StopInDrain \/ StartTask \/ StartBatch \/ BatchThrows \/ EndTask
             \/ TaskThrows \/ EndHook \/ HookThrows
    <3>1. UNCHANGED sv_phase /\ queued' \subseteq queued
      BY <2>7 DEF StopInDrain, StartTask, StartBatch, BatchThrows, EndTask, TaskThrows,
         EndHook, HookThrows, slotVars, cursorVars
    <3> QED
      BY <2>2, <3>1
  <2> QED
    BY <2>3, <2>4, <2>5, <2>6, <2>7 DEF Next, Dispatch
<1> QED
  BY <1>1, InitSlotInv, NextSlotInv, PTL DEF Spec, FrozenBatchRunsToCompletion

-----------------------------------------------------------------------------
(***************************************************************************)
(* Postponed work and receipts.  An end-of-slot pass that has not run its  *)
(* callback yet has the slot to itself, and what waits for the Active      *)
(* region was promised the next round.                                     *)
(***************************************************************************)
EndOfSlotAlone ==
  /\ pc = "drain" /\ executing_eos /\ ~executed => queued \subseteq InBucket("end_of_slot")
  /\ pc \in {"task", "batch"} => executed
ForActive(e) == e.bucket = "systemverilog" /\ e.phase = Active
ReceiptsFit ==
  /\ \A e \in queued : ForActive(e) => e.round \in {0, sv_round + 1}
  /\ \A e \in future : ForActive(e) => e.round \in {0, 1}
  /\ \A e \in running : e.bucket # "systemverilog"

(* What is left when a slot is quiescent.                                  *)
LEMMA QuiescentLeaves ==
  ASSUME SlotInv, Quiescent PROVE queued \subseteq InBucket("end_of_slot")
<1> SUFFICES ASSUME NEW e \in queued PROVE e.bucket = "end_of_slot"
  BY DEF InBucket
<1>1. /\ phase = PhaseCount /\ sv_phase = NoPhase
      /\ SvPendingPhases(Postponed) = {} /\ SvPending(Postponed) = {}
      /\ InBucket("next_delta") = {}
  BY DEF Quiescent, CycleDone
<1>2. e.bucket \in {"next_delta", "end_of_slot", "systemverilog"} /\ e.phase \in Phases
  BY <1>1, CycleDoneLeaves
<1>3. e.bucket # "next_delta"
  BY <1>1 DEF InBucket
<1>4. CASE e.bucket = "systemverilog"
  <2>1. ~(e.phase < Postponed)
    BY <1>1, <1>2, <1>4 DEF SvPendingPhases, SvPending
  <2>2. e.phase # Postponed
    BY <1>1, <1>4 DEF SvPending
  <2> QED
    BY <1>2, <2>1, <2>2, PhaseFacts, SMT
<1> QED
  BY <1>2, <1>3, <1>4

(* EndOfSlotAlone is kept by every step.                                   *)
LEMMA EndOfSlotKept ==
  ASSUME SlotInv, EndOfSlotAlone, [Next]_vars PROVE EndOfSlotAlone'
<1> DEFINE Alone == queued \subseteq InBucket("end_of_slot")
<1>1. CASE UNCHANGED vars
  BY <1>1 DEF EndOfSlotAlone, vars, slotVars, callVars, InBucket
<1>2. CASE Client
  <2>1. ClientFrame
    BY <1>2, ClientKeepsFrame
  <2>2. CASE RequestStop \/ ClearStop
    BY <2>2, SMT DEF RequestStop, ClearStop, EndOfSlotAlone, slotVars, callVars, InBucket
  <2>3. CASE pc \in ClientPoints
    BY <2>1, <2>3 DEF ClientFrame, EndOfSlotAlone, ClientPoints
  <2> QED
    BY <1>2, <2>2, <2>3, ClientWaits
<1>3. CASE SelectEndOfSlot
  <2>1. Alone /\ pc' = "drain" /\ queued' = queued
    BY <1>3, QuiescentLeaves DEF SelectEndOfSlot, Drain, Goto
  <2> QED
    BY <2>1 DEF EndOfSlotAlone, InBucket
<1>4. CASE \/ ResumeSystemVerilogBatch \/ BeginSystemVerilogBatch \/ SelectGenericPhase
  <2>1. pc' = "idle" \/ (pc' = "drain" /\ executing_eos' = FALSE)
    BY <1>4 DEF ResumeSystemVerilogBatch, BeginSystemVerilogBatch, SelectGenericPhase,
       Drain, Goto, Return
  <2> QED
    BY <2>1 DEF EndOfSlotAlone
<1>5. CASE \/ StopAtSlotBoundary \/ RunDry \/ ReachTimeLimit \/ LoadNextSlot
           \/ StopInSlot \/ BeginNextDelta \/ QuietHook \/ FinishSlot
           \/ StopInDrain \/ BatchThrows \/ TaskThrows \/ EndPass \/ EndHook \/ HookThrows
  <2>1. pc' \notin {"drain", "task", "batch"}
    BY <1>5 DEF StopAtSlotBoundary, RunDry, ReachTimeLimit, LoadNextSlot, StopInSlot,
       BeginNextDelta, QuietHook, FinishSlot, StopInDrain, BatchThrows, TaskThrows,
       EndPass, EndHook, HookThrows, Goto, Return
  <2> QED
    BY <2>1 DEF EndOfSlotAlone
<1>6. CASE StartTask \/ StartBatch
  <2>1. pc' # "drain" /\ executed'
    BY <1>6 DEF StartTask, StartBatch, Goto
  <2> QED
    BY <2>1 DEF EndOfSlotAlone
<1>7. CASE EndTask \/ \E failure \in BOOLEAN : EndMember(failure)
  <2>1. pc \in {"task", "batch"} /\ (executed' = executed \/ pc' = "idle")
    BY <1>7 DEF EndTask, EndMember, Return
  <2> QED
    BY <2>1, SMT DEF EndOfSlotAlone
<1> QED
  BY <1>1, <1>2, <1>3, <1>4, <1>5, <1>6, <1>7 DEF Next, Select, Dispatch

(* The region that begins is the lowest candidate.                         *)
LEMMA LowestIsLeast ==
  ASSUME NEW S \in SUBSET Phases, S # {}
  PROVE  LowestPhase(S) \in S /\ \A q \in S : LowestPhase(S) <= q
<1>1. S \in SUBSET Nat
  BY PhaseFacts, SMT
<1>2. PICK p \in S : \A q \in S : p <= q
  BY <1>1, LeastNatural
<1> QED
  BY <1>2, Zenon DEF LowestPhase

(* Only begin_systemverilog_batch enters a region, the lowest candidate.   *)
LEMMA RegionBegins ==
  ASSUME SlotInv, Next, sv_phase = NoPhase, sv_phase' # NoPhase
  PROVE  /\ BeginSystemVerilogBatch /\ SvCandidates # {}
         /\ sv_phase' = LowestPhase(SvCandidates)
         /\ RoundAfterPendingPhase(sv_phase') # 0
         /\ sv_round' = RoundAfterPendingPhase(sv_phase')
         /\ queued' = {IF e \in SvPending(sv_phase')
                       THEN [e EXCEPT !.bucket = "systemverilog_running"]
                       ELSE e : e \in queued}
<1>1. ~Client
  BY ClientKeepsFrame DEF ClientFrame, slotVars, cursorVars
<1>2. ~Dispatch
  BY DEF Dispatch, StopInDrain, StartTask, StartBatch, BatchThrows,
     EndTask, TaskThrows, EndMember, EndPass, EndHook, HookThrows, slotVars, cursorVars
<1>3. BeginSystemVerilogBatch
  BY <1>1, <1>2 DEF Next, Select, StopAtSlotBoundary, RunDry, ReachTimeLimit,
     LoadNextSlot, StopInSlot, ResumeSystemVerilogBatch, SelectGenericPhase,
     BeginNextDelta, SelectEndOfSlot, QuietHook, FinishSlot, DropSlot, slotVars,
     cursorVars
<1>4. RoundAfterPendingPhase(LowestPhase(SvCandidates)) # 0
  BY <1>3 DEF BeginSystemVerilogBatch, slotVars, cursorVars
<1> QED
  BY <1>3, <1>4 DEF BeginSystemVerilogBatch

(* The candidates of run() for the next batch are regions.                 *)
LEMMA CandidatesArePhases == SvCandidates \in SUBSET Phases
BY DEF SvCandidates, SvPendingPhases

(* The postponed region begins when only end-of-slot work is left.         *)
LEMMA PostponedBegins ==
  ASSUME SlotInv, Next, sv_phase = NoPhase, sv_phase' = Postponed
  PROVE  queued \subseteq InBucket("end_of_slot") \cup SvPending(Postponed)
<1>1. sv_phase' # NoPhase
  BY PhaseFacts, SMT
<1>2. SvCandidates # {} /\ Postponed = LowestPhase(SvCandidates)
  BY <1>1, RegionBegins
<1>3. Postponed \in SvCandidates /\ \A q \in SvCandidates : Postponed <= q
  BY <1>2, LowestIsLeast, CandidatesArePhases
<1>4. Postponed \notin SvPendingPhases(Postponed)
  BY PhaseFacts, SMT DEF SvPendingPhases
<1>5. /\ phase = PhaseCount /\ InBucket("next_delta") = {}
      /\ SvCandidates = SvPendingPhases(PhaseCount)
  BY <1>3, <1>4 DEF SvCandidates
<1> SUFFICES ASSUME NEW e \in queued
             PROVE  \/ e.bucket = "end_of_slot"
                    \/ e.bucket = "systemverilog" /\ e.phase = Postponed
  BY DEF InBucket, SvPending
<1>6. e.bucket \in {"next_delta", "end_of_slot", "systemverilog"} /\ e.phase \in Phases
  BY <1>5, CycleDoneLeaves
<1>7. e.bucket # "next_delta"
  BY <1>5 DEF InBucket
<1>8. CASE e.bucket = "systemverilog"
  <2>1. SvPending(e.phase) # {}
    BY <1>8 DEF SvPending
  <2>2. e.phase \in SvCandidates
    BY <1>5, <1>6, <2>1, PhaseFacts, SMT DEF SvPendingPhases
  <2>3. Postponed <= e.phase
    BY <1>3, <2>2
  <2> QED
    BY <1>6, <1>8, <2>3, PhaseFacts, SMT
<1> QED
  BY <1>6, <1>7, <1>8

(* End-of-slot and generic postponed work starts only when nothing else of *)
(* its time slot is pending, SystemVerilog postponed work only when        *)
(* everything but end-of-slot work has run.                                *)
THEOREM PostponedLast == Spec => PostponedWorkRunsLast
<1>1. Init => EndOfSlotAlone
  BY DEF Init, EndOfSlotAlone
<1>2. SlotInv /\ EndOfSlotAlone /\ [Next]_vars => EndOfSlotAlone'
  BY EndOfSlotKept
<1>3. ASSUME SlotInv, EndOfSlotAlone, [Next]_vars
      PROVE  [/\ Starts /\ pc = "drain" /\ executing_eos =>
                   queued' \subseteq InBucket("end_of_slot")
              /\ sv_phase = NoPhase /\ sv_phase' = Postponed =>
                   queued \subseteq InBucket("end_of_slot") \cup SvPending(Postponed)]_vars
  <2> SUFFICES ASSUME Next
               PROVE  /\ Starts /\ pc = "drain" /\ executing_eos =>
                            queued' \subseteq InBucket("end_of_slot")
                      /\ sv_phase = NoPhase /\ sv_phase' = Postponed =>
                            queued \subseteq InBucket("end_of_slot") \cup SvPending(Postponed)
    BY <1>3
  <2>1. ASSUME Starts, pc = "drain", executing_eos
        PROVE  queued' \subseteq InBucket("end_of_slot")
    <3>1. ~Client
      BY <1>3, <2>1, ClientKeepsFrame DEF ClientFrame, Starts
    <3>2. ~Select
      BY <2>1 DEF Starts, Select, StopAtSlotBoundary, RunDry, ReachTimeLimit, LoadNextSlot,
         StopInSlot, ResumeSystemVerilogBatch, BeginSystemVerilogBatch,
         SelectGenericPhase, BeginNextDelta, SelectEndOfSlot, QuietHook, FinishSlot,
         Return, Goto, Drain
    <3>3. StartTask \/ StartBatch
      BY <2>1, <3>1, <3>2 DEF Starts, Next, Dispatch, StopInDrain, BatchThrows, EndTask,
         TaskThrows, EndMember, EndPass, EndHook, HookThrows, Return, Goto
    <3>4. ~executed /\ queued' \subseteq queued
      BY <2>1, <3>3 DEF StartTask, StartBatch, PassDone
    <3> QED
      BY <1>3, <2>1, <3>4 DEF EndOfSlotAlone
  <2>2. ASSUME sv_phase = NoPhase, sv_phase' = Postponed
        PROVE  queued \subseteq InBucket("end_of_slot") \cup SvPending(Postponed)
    BY <1>3, <2>2, PostponedBegins
  <2> QED
    BY <2>1, <2>2
<1> QED
  BY <1>1, <1>2, <1>3, InitSlotInv, NextSlotInv, PTL DEF Spec, PostponedWorkRunsLast

-----------------------------------------------------------------------------
(* Entries that stay where they are keep their receipts.                   *)
LEMMA ReceiptsStay ==
  ASSUME ReceiptsFit, queued' \subseteq queued \cup running, future' \subseteq future,
         running' \subseteq running \cup RunQueue, UNCHANGED sv_round
  PROVE  ReceiptsFit'
<1>1. \A e \in RunQueue : e.bucket # "systemverilog"
  BY DEF RunQueue, InBucket, GenericQueue
<1> QED
  BY <1>1 DEF ReceiptsFit, ForActive

(* Calls of the interface give receipts that fit ...                       *)
LEMMA ClientKeepsReceipts ==
  ASSUME SlotInv, ReceiptsFit, Client PROVE ReceiptsFit'
<1>1. ClientCall /\ ClientFrame
  BY ClientCalls, ClientKeepsFrame
<1>2. CASE NewTask \/ \E k \in reserved : KeyedTask(k)
  <2>1. PICK e : Placed(e) /\ PushEntry(e) /\ Scheduled
    BY <1>2 DEF NewTask, KeyedTask
  <2>2. UNCHANGED <<sv_round, running>>
    BY <2>1 DEF Scheduled, slotVars, cursorVars
  <2>3. CASE Here(e.time)
    <3>1. queued' = queued \cup {e} /\ future' = future
      BY <2>1, <2>3 DEF PushEntry
    <3>2. ForActive(e) => e.round \in {0, sv_round + 1}
      BY <2>1, <2>3 DEF Placed, ForActive
    <3> QED
      BY <2>2, <3>1, <3>2 DEF ReceiptsFit, ForActive
  <2>4. CASE ~Here(e.time)
    <3>1. future' = future \cup {e} /\ queued' = queued
      BY <2>1, <2>4 DEF PushEntry
    <3>2. ForActive(e) => e.round \in {0, 1}
      BY <2>1, <2>4 DEF Placed, ForActive
    <3> QED
      BY <2>2, <3>1, <3>2 DEF ReceiptsFit, ForActive
  <2> QED
    BY <2>3, <2>4
<1>3. CASE DiscardPending \/ Reset
  <2>1. queued' = {} /\ future' = {} /\ running' = running
    BY <1>3 DEF DiscardPending, Reset, DiscardQueued, callVars
  <2> QED
    BY <2>1 DEF ReceiptsFit
<1>4. CASE \/ \E o \in Orders : ReserveOrderKey(o)
           \/ \E e \in LiveEntries : Cancel(e)
           \/ RequestStop \/ ClearStop
           \/ \E limit \in Ticks \cup {NoLimit} : RunBegin(limit)
  <2>1. /\ queued' \subseteq queued /\ future' \subseteq future
        /\ UNCHANGED <<running, sv_round>>
    BY <1>4 DEF ReserveOrderKey, Scheduled, Cancel, RequestStop, ClearStop, RunBegin,
       callVars, slotVars, cursorVars
  <2> QED
    BY <2>1, ReceiptsStay
<1> QED
  BY <1>1, <1>2, <1>3, <1>4 DEF ClientCall

(* Work that waits for the Active region makes it the next to begin.       *)
LEMMA ActiveFirst ==
  ASSUME NEW e \in queued, ForActive(e)
  PROVE  SvCandidates # {} /\ LowestPhase(SvCandidates) = Active
<1>1. SvPending(Active) # {}
  BY DEF ForActive, SvPending
<1>2. Active \in SvCandidates
  BY <1>1, PhaseFacts, SMT DEF SvCandidates, SvPendingPhases
<1>3. LowestPhase(SvCandidates) \in SvCandidates /\ LowestPhase(SvCandidates) <= Active
  BY <1>2, LowestIsLeast, CandidatesArePhases
<1> QED
  <2>1. LowestPhase(SvCandidates) \in Phases
    BY <1>3, CandidatesArePhases, Zenon
  <2>2. LowestPhase(SvCandidates) = Active
    BY <1>3, <2>1, PhaseFacts, SMT
  <2> QED
    BY <1>2, <2>2

(* ... selecting work keeps them ...                                       *)
LEMMA SelectKeepsReceipts ==
  ASSUME SlotInv, ReceiptsFit, Select PROVE ReceiptsFit'
<1>1. CASE LoadNextSlot
  <2>1. /\ queued' \subseteq future /\ future' \subseteq future
        /\ UNCHANGED <<running, sv_round>> /\ ~has_slot
    BY <1>1 DEF LoadNextSlot, AtSlotBoundary, callVars, cursorVars
  <2>2. sv_round' + 1 = 1
    BY <2>1, SMT DEF SlotInv, CursorsFit
  <2> QED
    BY <2>1, <2>2 DEF ReceiptsFit, ForActive
<1>2. CASE BeginSystemVerilogBatch
  <2> DEFINE p == LowestPhase(SvCandidates)
  <2>1. CASE UNCHANGED queued /\ UNCHANGED sv_round
    <3>1. /\ queued' \subseteq queued \cup running /\ future' \subseteq future
          /\ running' \subseteq running \cup RunQueue
      BY <1>2, <2>1 DEF BeginSystemVerilogBatch, Return, Drain
    <3> QED
      BY <2>1, <3>1, ReceiptsStay
  <2>2. CASE queued' = {IF e \in SvPending(p)
                        THEN [e EXCEPT !.bucket = "systemverilog_running"]
                        ELSE e : e \in queued}
    <3>1. ASSUME NEW f \in queued', ForActive(f) PROVE FALSE
      <4>1. PICK e \in queued : f = IF e \in SvPending(p)
                                   THEN [e EXCEPT !.bucket = "systemverilog_running"]
                                   ELSE e
        BY <2>2
      <4>2. e \in Entry
        BY DEF SlotInv, TypeOK
      <4>3. CASE e \in SvPending(p)
        <5>1. f.bucket = "systemverilog_running"
          BY <4>1, <4>2, <4>3 DEF Entry
        <5> QED
          BY <3>1, <5>1 DEF ForActive
      <4>4. CASE e \notin SvPending(p)
        <5>1. f = e
          BY <4>1, <4>4
        <5>2. p = Active
          BY <3>1, <5>1, ActiveFirst
        <5> QED
          BY <3>1, <4>4, <5>1, <5>2 DEF ForActive, SvPending
      <4> QED
        BY <4>3, <4>4
    <3>2. future' = future /\ running' \subseteq running
      BY <1>2 DEF BeginSystemVerilogBatch, Return, Drain
    <3> QED
      BY <3>1, <3>2 DEF ReceiptsFit, ForActive
  <2> QED
    BY <1>2, <2>1, <2>2 DEF BeginSystemVerilogBatch, slotVars, cursorVars
<1>3. CASE BeginNextDelta
  <2>1. future' = future /\ running' \subseteq running /\ sv_round' = sv_round
    BY <1>3 DEF BeginNextDelta, Return, callVars
  <2>2. CASE queued' = queued
    BY <2>1, <2>2, ReceiptsStay
  <2>3. CASE queued' = {[e EXCEPT !.bucket = Swap(e.bucket)] : e \in queued}
    <3>1. ASSUME NEW f \in queued', ForActive(f) PROVE f.round \in {0, sv_round + 1}
      <4>1. PICK e \in queued : f = [e EXCEPT !.bucket = Swap(e.bucket)]
        BY <2>3
      <4>2. e \in Entry
        BY DEF SlotInv, TypeOK
      <4>3. f.phase = e.phase /\ f.round = e.round /\ f.bucket = Swap(e.bucket)
        BY <4>1, <4>2 DEF Entry
      <4>4. e.bucket = "systemverilog"
        BY <3>1, <4>3 DEF ForActive, Swap
      <4> QED
        BY <3>1, <4>3, <4>4 DEF ReceiptsFit, ForActive
    <3> QED
      BY <2>1, <3>1 DEF ReceiptsFit, ForActive
  <2> QED
    BY <1>3, <2>2, <2>3 DEF BeginNextDelta
<1>4. CASE FinishSlot
  <2>1. UNCHANGED <<queued, future, running>> /\ (queued = {} \/ sv_round' = sv_round)
    BY <1>4 DEF FinishSlot, slotVars, cursorVars, callVars
  <2> QED
    BY <2>1 DEF ReceiptsFit, ForActive
<1>5. CASE \/ StopAtSlotBoundary \/ RunDry \/ ReachTimeLimit \/ StopInSlot
           \/ ResumeSystemVerilogBatch \/ SelectGenericPhase \/ SelectEndOfSlot
           \/ QuietHook
  <2>1. UNCHANGED <<queued, future, sv_round>> /\ running' \subseteq running
    BY <1>5 DEF StopAtSlotBoundary, RunDry, ReachTimeLimit, StopInSlot,
       ResumeSystemVerilogBatch, SelectGenericPhase, SelectEndOfSlot, QuietHook,
       Return, Drain, slotVars, cursorVars, callVars
  <2> QED
    BY <2>1, ReceiptsStay
<1> QED
  BY <1>1, <1>2, <1>3, <1>4, <1>5 DEF Select

(* ... and so does running it.                                             *)
LEMMA DispatchKeepsReceipts ==
  ASSUME SlotInv, ReceiptsFit, Dispatch PROVE ReceiptsFit'
<1>1. UNCHANGED <<future, sv_round>>
  BY DEF Dispatch, StopInDrain, StartTask, StartBatch, BatchThrows,
     EndTask, TaskThrows, EndMember, EndPass, EndHook, HookThrows, slotVars, cursorVars
<1>2. CASE StartTask \/ StartBatch
  <2>1. queued' \subseteq queued /\ running' \subseteq RunQueue
    <3>1. CASE StartTask
      <4>1. RunQueue \in SUBSET Entry /\ RunQueue # {}
        BY <3>1, RunQueueQueued DEF StartTask, PassDone, SlotInv, TypeOK
      <4>2. First(RunQueue) \in RunQueue
        BY <4>1, FirstProperties
      <4> QED
        BY <3>1, <4>2 DEF StartTask
    <3>2. CASE StartBatch
      BY <3>2 DEF StartBatch, BatchRun
    <3> QED
      BY <1>2, <3>1, <3>2
  <2> QED
    BY <1>1, <2>1, ReceiptsStay
<1>3. CASE \E failure \in BOOLEAN : EndMember(failure)
  <2>1. queued' \subseteq queued \cup running /\ running' \subseteq running
    BY <1>3 DEF EndMember, PushBackSuffix, Rest, Return
  <2> QED
    BY <1>1, <2>1, ReceiptsStay
<1>4. CASE \/ StopInDrain \/ BatchThrows \/ EndTask \/ TaskThrows \/ EndPass \/ EndHook
           \/ HookThrows
  <2>1. queued' = queued /\ running' \subseteq running
    BY <1>4 DEF StopInDrain, BatchThrows, EndTask, TaskThrows, EndPass, EndHook,
       HookThrows, Return, callVars
  <2> QED
    BY <1>1, <2>1, ReceiptsStay
<1> QED
  BY <1>2, <1>3, <1>4 DEF Dispatch

(* The receipt of schedule_systemverilog_batchable for the Active region   *)
(* names the round its batch runs in, whatever runs, stops or resumes in   *)
(* between.                                                                *)
THEOREM ActiveReceiptTrue == Spec => ActiveReceiptExact
<1>1. Init => ReceiptsFit
  BY DEF Init, ReceiptsFit
<1>2. SlotInv /\ ReceiptsFit /\ [Next]_vars => ReceiptsFit'
  <2> SUFFICES ASSUME SlotInv, ReceiptsFit, [Next]_vars PROVE ReceiptsFit'
    OBVIOUS
  <2>1. CASE UNCHANGED vars
    BY <2>1 DEF ReceiptsFit, ForActive, vars, slotVars, cursorVars, callVars
  <2> QED
    BY <2>1, ClientKeepsReceipts, SelectKeepsReceipts, DispatchKeepsReceipts DEF Next
<1>3. ASSUME SlotInv, ReceiptsFit, [Next]_vars
      PROVE  [sv_phase = NoPhase /\ sv_phase' = Active =>
                \A e \in InBucket("systemverilog_running")' : e.round \in {0, sv_round'}]_vars
  <2> SUFFICES ASSUME Next, sv_phase = NoPhase, sv_phase' = Active,
                      NEW f \in InBucket("systemverilog_running")'
               PROVE  f.round \in {0, sv_round'}
    BY <1>3
  <2>1. sv_phase' # NoPhase
    BY PhaseFacts, SMT
  <2>2. /\ RoundAfterPendingPhase(Active) # 0 /\ sv_round' = RoundAfterPendingPhase(Active)
        /\ queued' = {IF e \in SvPending(Active)
                      THEN [e EXCEPT !.bucket = "systemverilog_running"]
                      ELSE e : e \in queued}
    BY <1>3, <2>1, RegionBegins
  <2>3. sv_round' = sv_round + 1
    <3>1. last_sv_phase \in Nat /\ Active = 0
      BY <1>3, PhaseFacts, SMT DEF SlotInv, TypeOK
    <3> QED
      BY <2>2, <3>1, SMT DEF RoundAfterPendingPhase
  <2>4. PICK e \in queued : f = IF e \in SvPending(Active)
                               THEN [e EXCEPT !.bucket = "systemverilog_running"]
                               ELSE e
    BY <2>2 DEF InBucket
  <2>5. e \in Entry /\ f.bucket = "systemverilog_running"
    BY <1>3 DEF SlotInv, TypeOK, InBucket
  <2>6. CASE e \in SvPending(Active)
    <3>1. f.round = e.round /\ ForActive(e)
      BY <2>4, <2>5, <2>6 DEF Entry, SvPending, ForActive
    <3> QED
      BY <1>3, <2>3, <3>1 DEF ReceiptsFit
  <2>7. CASE e \notin SvPending(Active)
    <3>1. e.bucket = "systemverilog_running" /\ e.phase \in Phases
      BY <2>4, <2>5, <2>7 DEF Entry
    <3>2. e.phase = sv_phase
      BY <1>3, <3>1 DEF SlotInv, NoWorkStranded
    <3> QED
      BY <3>1, <3>2, PhaseFacts, SMT
  <2> QED
    BY <2>6, <2>7
<1> QED
  BY <1>1, <1>2, <1>3, InitSlotInv, NextSlotInv, PTL DEF Spec, ActiveReceiptExact
=============================================================================
