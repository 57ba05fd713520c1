----------------------------- MODULE Scheduler -----------------------------
(***************************************************************************)
(* The event scheduler of the simulator: Scheduler, Scheduler::Impl and    *)
(* Scheduler::run (src/runtime/scheduler*.cpp, scheduler_internal.hpp).    *)
(*                                                                         *)
(* A WorkQueue is modelled by the set of its live entries, popped in key   *)
(* order; module WorkQueue shows that the queue's representation           *)
(* implements that set.  A callback is opaque: while one runs (and between *)
(* runs, and in the hooks) the client may make any sequence of calls of    *)
(* the scheduler's interface, one action per call, and then returns or     *)
(* throws.                                                                 *)
(***************************************************************************)
EXTENDS Integers, FiniteSets

CONSTANTS
  Orders,          (* StableOrder values the clients use                   *)
  MaxTick,         (* largest SimulationTick                               *)
  MaxSequence,     (* the insertion sequence number that overflows         *)
  MaxDeltaCycles,  (* SchedulerOptions::max_delta_cycles                   *)
  MaxEpoch,        (* bound on discard_pending / reset calls               *)
  BatchChunk,      (* maximum_scheduler_batch_chunk                        *)
  UsedPhases,      (* the regions the clients schedule into                *)
  Calls            (* the part of the interface the clients use            *)

ASSUME ConstantsAssumption ==
  /\ Orders \subseteq Nat
  /\ MaxTick \in Nat
  /\ MaxSequence \in Nat
  /\ MaxDeltaCycles \in Nat \ {0}
  /\ MaxEpoch \in Nat
  /\ BatchChunk \in Nat \ {0}
  /\ UsedPhases \subseteq 0 .. 7

(***************************************************************************)
(* Regions.  PhaseCount doubles as the empty std::optional<SchedulerPhase>.*)
(***************************************************************************)
PhaseCount == 8
Phases == 0 .. PhaseCount - 1
NoPhase == PhaseCount
Active == 0
Inactive == 1
Update == 2
Reactive == 4
ReInactive == 5
ReUpdate == 6
Postponed == 7

Ticks == 0 .. MaxTick
NoLimit == MaxTick + 1

(* The queues of a CurrentSlot.                                            *)
Buckets == {"current", "next_delta", "systemverilog",
            "systemverilog_running", "end_of_slot"}
(* "reserved" entries carry a key of reserve_order_key and are cancelable.  *)
Kinds == {"task", "cancelable", "reserved", "batch"}

(* A queue entry: its key (order, sequence), the time and the queue it was *)
(* put in, and the round its receipt names (0: no valid receipt).          *)
Entry == [order : Orders, sequence : Nat, kind : Kinds, time : Ticks,
          bucket : Buckets, phase : Phases, round : Nat]
OrderKey == [order : Orders, sequence : Nat, epoch : Nat]

VARIABLES
  now,             (* current simulation time                              *)
  future,          (* entries of the future slots                          *)
  has_slot,        (* Impl::current holds a slot (its time is now)         *)
  queued,          (* entries of the current slot                          *)
  phase,           (* CurrentSlot::phase, the generic phase cursor         *)
  delta,           (* CurrentSlot::delta                                   *)
  sv_phase,        (* CurrentSlot::systemverilog_phase                     *)
  sv_round,        (* CurrentSlot::systemverilog_round                     *)
  last_sv_phase,   (* CurrentSlot::last_systemverilog_phase                *)
  executing_eos,   (* CurrentSlot::executing_end_of_slot                   *)
  next_sequence,   (* next insertion sequence number                       *)
  epoch,           (* reservation_epoch                                    *)
  reserved,        (* keys of reserve_order_key their clients may still use*)
  stop,            (* the atomic stop flag                                 *)
  until,           (* the time limit of the run in progress                *)
  pc,              (* where Scheduler::run is                              *)
  status,          (* how the last run ended                               *)
  executed,        (* a callback ran since the queue was selected          *)
  running,         (* entries handed to the running callback, not yet done *)
  revised,         (* current_phase_revision changed since it began        *)
  finished         (* history: sequences executed, cancelled or discarded  *)

cursorVars == <<phase, delta, sv_phase, sv_round, last_sv_phase>>
slotVars == <<has_slot, executing_eos, cursorVars>>
clockVars == <<now, until>>
keyVars == <<next_sequence, epoch, reserved>>
callVars == <<executed, running, revised>>
vars == <<clockVars, future, queued, slotVars, keyVars, callVars, pc, status,
          stop, finished>>

(* Points of Scheduler::run: outside it, at the loop head, draining the    *)
(* selected queue, in a task, in a batch, and in the three kinds of hook.  *)
Points == {"idle", "top", "drain", "task", "batch", "slot_start",
           "safe_point", "quiet"}
(* Where client code runs and may call the scheduler.                      *)
ClientPoints == Points \ {"top", "drain"}
Statuses == {"none", "completed", "stopped", "time_limit", "error"}

Init ==
  /\ now = 0 /\ until = NoLimit
  /\ future = {} /\ queued = {}
  /\ has_slot = FALSE /\ phase = 0 /\ delta = 0
  /\ sv_phase = NoPhase /\ sv_round = 0 /\ last_sv_phase = NoPhase
  /\ executing_eos = FALSE
  /\ next_sequence = 0 /\ epoch = 0 /\ reserved = {}
  /\ stop = FALSE /\ pc = "idle" /\ status = "none"
  /\ executed = FALSE /\ running = {} /\ revised = FALSE
  /\ finished = {}

-----------------------------------------------------------------------------
(***************************************************************************)
(* Keys and queues.                                                        *)
(***************************************************************************)
KeyLess(a, b) == \/ a.order < b.order
                 \/ a.order = b.order /\ a.sequence < b.sequence

InBucket(b) == {e \in queued : e.bucket = b}
GenericQueue(p) == {e \in queued : e.bucket = "current" /\ e.phase = p}
SvPending(p) == {e \in queued : e.bucket = "systemverilog" /\ e.phase = p}

(* The queue Scheduler::run drains.                                        *)
RunQueue == IF sv_phase # NoPhase THEN InBucket("systemverilog_running")
            ELSE IF executing_eos THEN InBucket("end_of_slot")
            ELSE GenericQueue(phase)

(* The entries of queue Q ahead of e, and the one that is popped first.    *)
Before(e, Q) == {f \in Q : KeyLess(f, e)}
First(Q) == CHOOSE e \in Q : Before(e, Q) = {}

(* Batch entries popped with the first one: the run of batch entries at    *)
(* the front of the queue, cut at the chunk limit.                         *)
BatchRun(Q) == {e \in Q : /\ \A f \in Before(e, Q) \cup {e} : f.kind = "batch"
                          /\ Cardinality(Before(e, Q)) < BatchChunk}

(* Work scheduled from a reactive region stays in the reactive region set. *)
ReactiveRegion(p, executing) ==
  IF executing \in Reactive .. ReUpdate
  THEN CASE p = Inactive -> ReInactive [] p = Update -> ReUpdate [] OTHER -> p
  ELSE p

NewEntry(o, s, k, t, b, p, r) ==
  [order |-> o, sequence |-> s, kind |-> k, time |-> t, bucket |-> b,
   phase |-> p, round |-> r]

(* Faulty variant: takes the present for the slot.                         *)
HereWithoutSlot(t) == t = now

(* push_entry into the current slot or the future slot of its time.        *)
Here(t) == has_slot /\ t = now
PushEntry(e) ==
  IF Here(e.time)
  THEN queued' = queued \cup {e} /\ UNCHANGED future
  ELSE future' = future \cup {e} /\ UNCHANGED queued

(* ++current_phase_revision, as far as the running callback can tell.      *)
ReviseIf(entered) == revised' = (revised \/ (entered /\ pc \in {"task", "batch"}))

(* Faulty variant: work for a completed phase stays in this delta cycle.   *)
EnqueueAtCompletedPhase(t, requested, adjust, o, s, k) ==
  LET p == IF adjust /\ Here(t) THEN ReactiveRegion(requested, phase)
           ELSE requested
      b == IF p = Postponed THEN "end_of_slot" ELSE "current"
  IN /\ t >= now
     /\ PushEntry(NewEntry(o, s, k, t, b, p, 0))
     /\ ReviseIf(Here(t) /\ p # Postponed /\ p = phase)

EnqueueAt(t, requested, adjust, o, s, k) ==
  LET p == IF adjust /\ Here(t) THEN ReactiveRegion(requested, phase)
           ELSE requested
      b == IF p = Postponed THEN "end_of_slot"
           ELSE IF Here(t) /\ p < phase THEN "next_delta" ELSE "current"
  IN /\ t >= now
     /\ PushEntry(NewEntry(o, s, k, t, b, p, 0))
     /\ ReviseIf(Here(t) /\ p # Postponed /\ p = phase)

EnqueueNextDelta(p, o, s, k) ==
  LET b == IF p = Postponed THEN "end_of_slot"
           ELSE IF has_slot THEN "next_delta" ELSE "current"
  IN /\ PushEntry(NewEntry(o, s, k, now, b, p, 0))
     /\ UNCHANGED revised

(* systemverilog_round_after_pending_phase; 0 is std::nullopt.             *)
RoundAfterPendingPhase(p) ==
  IF last_sv_phase # NoPhase /\ p > last_sv_phase THEN sv_round
  ELSE IF sv_round >= MaxDeltaCycles THEN 0 ELSE sv_round + 1

(* Faulty variant: the receipt names the round in progress.                *)
ReceiptRoundInProgress(t, p) == IF Here(t) THEN sv_round ELSE IF t = now THEN 1 ELSE 0

(* systemverilog_key_receipt: the round the receipt promises.              *)
ReceiptRound(t, p) ==
  IF Here(t) THEN RoundAfterPendingPhase(p) ELSE IF t = now THEN 1 ELSE 0

EnqueueSystemVerilogAt(t, requested, o, s, k) ==
  LET p == IF Here(t) /\ sv_phase # NoPhase
           THEN ReactiveRegion(requested, sv_phase) ELSE requested
  IN /\ t >= now
     /\ PushEntry(NewEntry(o, s, k, t, "systemverilog", p,
                           IF k = "batch" THEN ReceiptRound(t, p) ELSE 0))
     /\ ReviseIf(Here(t) /\ p = sv_phase)

-----------------------------------------------------------------------------
(***************************************************************************)
(* The client interface: calls made between runs, in callbacks and hooks.  *)
(***************************************************************************)
MakeEntry == pc \in ClientPoints /\ next_sequence < MaxSequence
             /\ next_sequence' = next_sequence + 1
Scheduled == UNCHANGED <<clockVars, slotVars, pc, status, stop, finished,
                         executed, running>>
NewlyScheduled == Scheduled /\ UNCHANGED <<epoch, reserved>>

(* schedule, schedule_at, schedule_after and their internal forms          *)
ScheduleAt(t, p, o) ==
  /\ MakeEntry /\ EnqueueAt(t, p, TRUE, o, next_sequence, "task")
  /\ NewlyScheduled

ScheduleAfterCancelable(t, p, o) ==
  /\ MakeEntry /\ EnqueueAt(t, p, FALSE, o, next_sequence, "cancelable")
  /\ NewlyScheduled

ScheduleNextDelta(p, o) ==
  /\ MakeEntry /\ EnqueueNextDelta(p, o, next_sequence, "task")
  /\ NewlyScheduled

ScheduleNextDeltaBatchable(p, o) ==
  /\ MakeEntry /\ EnqueueNextDelta(p, o, next_sequence, "batch")
  /\ NewlyScheduled

(* schedule_systemverilog, _at, _after, _next_delta                        *)
ScheduleSystemVerilogAt(t, p, o) ==
  /\ MakeEntry /\ EnqueueSystemVerilogAt(t, p, o, next_sequence, "task")
  /\ NewlyScheduled

ScheduleSystemVerilogAfterCancelable(t, p, o) ==
  /\ MakeEntry /\ EnqueueSystemVerilogAt(t, p, o, next_sequence, "cancelable")
  /\ NewlyScheduled

(* schedule_systemverilog_batchable and its group form with a receipt      *)
ScheduleSystemVerilogBatchable(p, o) ==
  /\ MakeEntry /\ EnqueueSystemVerilogAt(now, p, o, next_sequence, "batch")
  /\ NewlyScheduled

ScheduleSystemVerilogRunningActive(o) ==
  /\ MakeEntry
  /\ IF has_slot /\ sv_phase = Active
     THEN /\ PushEntry(NewEntry(o, next_sequence, "task", now,
                                "systemverilog_running", Active, 0))
          /\ UNCHANGED revised
     ELSE EnqueueSystemVerilogAt(now, Active, o, next_sequence, "task")
  /\ NewlyScheduled

ScheduleEndOfTimeSlot(o) ==
  /\ MakeEntry
  /\ PushEntry(NewEntry(o, next_sequence, "task", now, "end_of_slot",
                        Postponed, 0))
  /\ UNCHANGED revised /\ NewlyScheduled

ReserveOrderKey(o) ==
  /\ MakeEntry
  /\ reserved' = reserved \cup
       {[order |-> o, sequence |-> next_sequence, epoch |-> epoch]}
  /\ Scheduled /\ UNCHANGED <<future, queued, epoch, revised>>

(* A reserved key is accepted only in the epoch that issued it; its client *)
(* keeps at most one live entry per key.                                   *)
ValidKey(k) == k.epoch = epoch /\ k.sequence < next_sequence
UseKey(k) ==
  /\ pc \in ClientPoints /\ ValidKey(k)
  /\ reserved' = reserved \ {k}
  /\ Scheduled /\ UNCHANGED <<next_sequence, epoch>>

ScheduleReservedNextDelta(p, k) ==
  /\ UseKey(k) /\ EnqueueNextDelta(p, k.order, k.sequence, "reserved")

(* Only from an ordinary callback of the generic phase it names.           *)
ScheduleReservedCurrent(k) ==
  /\ pc = "task" /\ sv_phase = NoPhase /\ ~executing_eos /\ phase < PhaseCount
  /\ UseKey(k) /\ EnqueueAt(now, phase, TRUE, k.order, k.sequence, "reserved")

(* Faulty variant: only the current slot is searched.                      *)
CancelCurrentSlot(e) ==
  /\ pc \in ClientPoints /\ e.kind \in {"cancelable", "reserved"}
  /\ queued' = queued \ {e}
  /\ finished' = finished \cup {e.sequence}
  /\ UNCHANGED <<clockVars, future, slotVars, callVars, pc, status, stop, keyVars>>

(* Scheduler::cancel of a live handle.  The key of a reserved entry may be *)
(* used again.                                                             *)
Cancelable(e) == e.kind \in {"cancelable", "reserved"}
Cancel(e) ==
  /\ pc \in ClientPoints /\ Cancelable(e)
  /\ queued' = queued \ {e}
  /\ future' = future \ {e}
  /\ IF e.kind = "reserved"
     THEN /\ reserved' = reserved \cup {[order |-> e.order,
                             sequence |-> e.sequence, epoch |-> epoch]}
          /\ UNCHANGED finished
     ELSE /\ finished' = finished \cup {e.sequence}
          /\ UNCHANGED reserved
  /\ UNCHANGED <<clockVars, slotVars, callVars, pc, status, stop,
                 next_sequence, epoch>>

(* request_stop and clear_stop come from any thread, at any moment.        *)
RequestStop == ~stop /\ stop' = TRUE
               /\ UNCHANGED <<clockVars, future, queued, slotVars, keyVars,
                              callVars, pc, status, finished>>
ClearStop == stop /\ stop' = FALSE
             /\ UNCHANGED <<clockVars, future, queued, slotVars, keyVars,
                            callVars, pc, status, finished>>

(* discard_queued: the slot and every queue go, the time stays.            *)
DropSlot ==
  /\ has_slot' = FALSE /\ phase' = 0 /\ delta' = 0
  /\ sv_phase' = NoPhase /\ sv_round' = 0 /\ last_sv_phase' = NoPhase
  /\ executing_eos' = FALSE
DiscardQueued ==
  /\ pc = "idle" /\ epoch < MaxEpoch
  /\ queued' = {} /\ future' = {} /\ DropSlot
  /\ epoch' = epoch + 1
  /\ UNCHANGED <<until, callVars, pc, status, reserved>>

DiscardPending ==
  /\ DiscardQueued
  /\ finished' = 0 .. next_sequence - 1
  /\ UNCHANGED <<now, stop, next_sequence>>

Reset ==
  /\ DiscardQueued
  /\ now' = 0 /\ next_sequence' = 0 /\ stop' = FALSE
  /\ finished' = {}

-----------------------------------------------------------------------------
(***************************************************************************)
(* Scheduler::run.                                                         *)
(***************************************************************************)
RunBegin(limit) ==
  /\ pc = "idle" /\ limit >= now
  /\ until' = limit /\ pc' = "top" /\ status' = "none"
  /\ UNCHANGED <<now, future, queued, slotVars, keyVars, callVars, stop,
                 finished>>

(* The run returns or throws; its parameter and locals go.                 *)
Return(s) ==
  /\ pc' = "idle" /\ status' = s /\ until' = NoLimit
  /\ executed' = FALSE /\ running' = {} /\ revised' = FALSE
Goto(p) == pc' = p /\ UNCHANGED <<status, until>>
Step == UNCHANGED <<keyVars, stop>>

(* No current slot: stop, run dry, meet the time limit or load a slot.     *)
FutureTimes == {e.time : e \in future}
NextTime == CHOOSE t \in FutureTimes : \A u \in FutureTimes : t <= u
AtSlotBoundary == pc = "top" /\ ~has_slot

StopAtSlotBoundary ==
  /\ AtSlotBoundary /\ stop /\ Return("stopped")
  /\ Step /\ UNCHANGED <<now, future, queued, slotVars, finished>>

RunDry ==
  /\ AtSlotBoundary /\ ~stop /\ future = {}
  /\ IF until # NoLimit /\ now < until
     THEN now' = until /\ Return("time_limit")
     ELSE UNCHANGED now /\ Return("completed")
  /\ Step /\ UNCHANGED <<future, queued, slotVars, finished>>

(* Faulty variant: the limit itself is not part of the run.                *)
ReachTimeLimitExclusive ==
  /\ AtSlotBoundary /\ ~stop /\ future # {} /\ until # NoLimit /\ NextTime >= until
  /\ now' = until /\ Return("time_limit")
  /\ Step /\ UNCHANGED <<future, queued, slotVars, finished>>

ReachTimeLimit ==
  /\ AtSlotBoundary /\ ~stop /\ future # {} /\ until # NoLimit /\ NextTime > until
  /\ now' = until /\ Return("time_limit")
  /\ Step /\ UNCHANGED <<future, queued, slotVars, finished>>

LoadNextSlot ==
  /\ AtSlotBoundary /\ ~stop /\ future # {}
  /\ until = NoLimit \/ NextTime <= until
  /\ now' = NextTime /\ has_slot' = TRUE
  /\ queued' = {e \in future : e.time = NextTime}
  /\ future' = {e \in future : e.time # NextTime}
  /\ Goto("slot_start")
  /\ Step /\ UNCHANGED <<cursorVars, executing_eos, callVars, finished>>

(* With a current slot: select the queue to drain.                         *)
StopInSlot ==
  /\ pc = "top" /\ has_slot /\ stop /\ Return("stopped")
  /\ Step /\ UNCHANGED <<now, future, queued, slotVars, finished>>

Selecting == pc = "top" /\ has_slot /\ ~stop
Drain(end_of_slot) == /\ Goto("drain") /\ executed' = FALSE
                      /\ executing_eos' = end_of_slot
                      /\ UNCHANGED <<running, revised>>

(* The lowest region with pending SystemVerilog work, below limit.         *)
SvPendingPhases(limit) == {p \in Phases : p < limit /\ SvPending(p) # {}}
LowestPhase(S) == CHOOSE p \in S : \A q \in S : p <= q

(* Faulty variant: the postponed region is like any other.                 *)
SvCandidatesAll == SvPendingPhases(PhaseCount)

(* Postponed SystemVerilog work waits for the last delta cycle.            *)
SvCandidates ==
  IF phase = PhaseCount /\ InBucket("next_delta") = {}
  THEN SvPendingPhases(PhaseCount) ELSE SvPendingPhases(Postponed)

ResumeSystemVerilogBatch ==
  /\ Selecting /\ sv_phase # NoPhase /\ Drain(FALSE)
  /\ Step /\ UNCHANGED <<now, future, queued, has_slot, cursorVars, finished>>

(* begin_systemverilog_batch: freeze the region's queue.                   *)
BeginSystemVerilogBatch ==
  /\ Selecting /\ sv_phase = NoPhase /\ SvCandidates # {}
  /\ LET p == LowestPhase(SvCandidates)
         round == RoundAfterPendingPhase(p)
     IN IF round = 0
        THEN Return("error") /\ UNCHANGED <<queued, slotVars>>
        ELSE /\ queued' = {IF e \in SvPending(p)
                           THEN [e EXCEPT !.bucket = "systemverilog_running"]
                           ELSE e : e \in queued}
             /\ sv_phase' = p /\ last_sv_phase' = p /\ sv_round' = round
             /\ Drain(FALSE)
             /\ UNCHANGED <<has_slot, phase, delta>>
  /\ Step /\ UNCHANGED <<now, future, finished>>

SelectGenericPhase ==
  /\ Selecting /\ sv_phase = NoPhase /\ SvCandidates = {} /\ phase < PhaseCount
  /\ Drain(FALSE)
  /\ Step /\ UNCHANGED <<now, future, queued, has_slot, cursorVars, finished>>

(* Faulty variant: the SystemVerilog queues are forgotten.                 *)
CycleDoneGeneric == Selecting /\ sv_phase = NoPhase /\ phase = PhaseCount

(* All phases of the delta cycle are done and no SystemVerilog work is     *)
(* left outside the postponed region.                                      *)
CycleDone == Selecting /\ sv_phase = NoPhase /\ phase = PhaseCount
             /\ SvPendingPhases(Postponed) = {}

Swap(b) == CASE b = "next_delta" -> "current" [] b = "current" -> "next_delta"
             [] OTHER -> b
(* Faulty variant: the limit is off by one.                                *)
BeginNextDeltaLate ==
  /\ CycleDone /\ InBucket("next_delta") # {} /\ delta < MaxDeltaCycles
  /\ queued' = {[e EXCEPT !.bucket = Swap(e.bucket)] : e \in queued}
  /\ delta' = delta + 1 /\ phase' = 0
  /\ Goto("top") /\ UNCHANGED callVars
  /\ Step /\ UNCHANGED <<now, future, has_slot, sv_phase, sv_round,
                         last_sv_phase, executing_eos, finished>>
BeginNextDelta ==
  /\ CycleDone /\ InBucket("next_delta") # {}
  /\ IF delta + 1 >= MaxDeltaCycles
     THEN Return("error") /\ UNCHANGED <<queued, phase, delta>>
     ELSE /\ queued' = {[e EXCEPT !.bucket = Swap(e.bucket)] : e \in queued}
          /\ delta' = delta + 1 /\ phase' = 0
          /\ Goto("top") /\ UNCHANGED callVars
  /\ Step /\ UNCHANGED <<now, future, has_slot, sv_phase, sv_round,
                         last_sv_phase, executing_eos, finished>>

Quiescent == /\ CycleDone /\ InBucket("next_delta") = {}
             /\ SvPending(Postponed) = {}

SelectEndOfSlot ==
  /\ Quiescent /\ InBucket("end_of_slot") # {} /\ Drain(TRUE)
  /\ Step /\ UNCHANGED <<now, future, queued, has_slot, cursorVars, finished>>

QuietHook ==
  /\ Quiescent /\ InBucket("end_of_slot") = {} /\ Goto("quiet")
  /\ Step /\ UNCHANGED <<now, future, queued, slotVars, callVars, finished>>

FinishSlot ==
  /\ pc = "quiet" /\ Goto("top")
  /\ IF queued = {} THEN DropSlot ELSE UNCHANGED slotVars
  /\ Step /\ UNCHANGED <<now, future, queued, callVars, finished>>

(***************************************************************************)
(* Draining the selected queue.  An end-of-slot pass runs one callback.    *)
(***************************************************************************)
PassDone == RunQueue = {} \/ (executing_eos /\ executed)

(* Faulty variant: a stop abandons the frozen batch.                       *)
StopInDrainAbandons ==
  /\ pc = "drain" /\ stop
  /\ IF PassDone THEN ~executed ELSE TRUE
  /\ Return("stopped") /\ sv_phase' = NoPhase
  /\ Step /\ UNCHANGED <<now, future, queued, has_slot, phase, delta, sv_round,
                         last_sv_phase, executing_eos, finished>>

StopInDrain ==
  /\ pc = "drain" /\ stop
  /\ IF PassDone THEN ~executed ELSE TRUE
  /\ Return("stopped")
  /\ Step /\ UNCHANGED <<now, future, queued, slotVars, finished>>

(* Pop the first entry.  A batch entry runs alone when its executor        *)
(* declines the offered run, which goes back to the queue.                 *)
StartTask ==
  /\ pc = "drain" /\ ~stop /\ ~PassDone
  /\ LET e == First(RunQueue)
     IN queued' = queued \ {e} /\ running' = {e}
  /\ Goto("task") /\ executed' = TRUE /\ revised' = FALSE
  /\ Step /\ UNCHANGED <<now, future, slotVars, finished>>

StartBatch ==
  /\ pc = "drain" /\ ~stop /\ ~PassDone
  /\ BatchRun(RunQueue) # {}
  /\ queued' = queued \ BatchRun(RunQueue)
  /\ running' = BatchRun(RunQueue)
  /\ Goto("batch") /\ executed' = TRUE /\ revised' = FALSE
  /\ Step /\ UNCHANGED <<now, future, slotVars, finished>>

(* An exception that escapes the executor puts the whole run back.         *)
BatchThrows ==
  /\ pc = "drain" /\ ~stop /\ ~PassDone
  /\ BatchRun(RunQueue) # {}
  /\ Return("error")
  /\ Step /\ UNCHANGED <<now, future, queued, slotVars, finished>>

(* The members of a batch run in key order.                                *)
Complete == finished' = finished \cup {First(running).sequence}
Rest == running \ {First(running)}

EndTask ==
  /\ pc = "task" /\ Complete /\ Goto("drain")
  /\ running' = {} /\ revised' = FALSE
  /\ Step /\ UNCHANGED <<now, future, queued, slotVars, executed>>

TaskThrows ==
  /\ pc = "task" /\ Complete /\ Return("error")
  /\ Step /\ UNCHANGED <<now, future, queued, slotVars>>

(* Faulty variants: the executor does not look at the revision, or at the  *)
(* stop flag.                                                              *)
MemberEndsBatchUnrevised(failure) == failure \/ stop \/ Rest = {}
MemberEndsBatchUnstopped(failure) == failure \/ revised \/ Rest = {}

(* Interpreter::Impl::execute completes one member, then goes on, or ends  *)
(* the batch when it failed, a stop is requested or the phase was revised. *)
MemberEndsBatch(failure) == failure \/ stop \/ revised \/ Rest = {}
PushBackSuffix == queued' = queued \cup Rest

EndMember(failure) ==
  /\ pc = "batch" /\ Complete
  /\ IF ~MemberEndsBatch(failure)
     THEN /\ running' = Rest /\ Goto("batch")
          /\ UNCHANGED <<queued, revised, executed>>
     ELSE /\ PushBackSuffix
          /\ IF failure THEN Return("error")
             ELSE /\ Goto("drain") /\ running' = {} /\ revised' = FALSE
                  /\ UNCHANGED executed
  /\ Step /\ UNCHANGED <<now, future, slotVars>>

(* The cursor moves on before the safe-point hooks run.                    *)
EndPass ==
  /\ pc = "drain" /\ PassDone /\ (executed \/ ~stop)
  /\ sv_phase' = NoPhase
  /\ phase' = IF sv_phase = NoPhase /\ ~executing_eos THEN phase + 1 ELSE phase
  /\ executing_eos' = FALSE /\ executed' = FALSE /\ Goto("safe_point")
  /\ Step /\ UNCHANGED <<now, future, queued, has_slot, delta, sv_round,
                         last_sv_phase, running, revised, finished>>

EndHook ==
  /\ pc \in {"slot_start", "safe_point"} /\ Goto("top")
  /\ Step /\ UNCHANGED <<now, future, queued, slotVars, callVars, finished>>

HookThrows ==
  /\ pc \in {"slot_start", "safe_point"} /\ Return("error")
  /\ Step /\ UNCHANGED <<now, future, queued, slotVars, finished>>

-----------------------------------------------------------------------------
(***************************************************************************)
(* The specification.                                                      *)
(***************************************************************************)
LiveEntries == queued \cup future

Client ==
  \/ "at" \in Calls /\ \E t \in Ticks, p \in UsedPhases, o \in Orders :
       ScheduleAt(t, p, o)
  \/ "after_cancelable" \in Calls
     /\ \E t \in Ticks, p \in UsedPhases, o \in Orders :
          ScheduleAfterCancelable(t, p, o)
  \/ "next_delta" \in Calls /\ \E p \in UsedPhases, o \in Orders :
       ScheduleNextDelta(p, o)
  \/ "next_delta_batchable" \in Calls /\ \E p \in UsedPhases, o \in Orders :
       ScheduleNextDeltaBatchable(p, o)
  \/ "systemverilog_at" \in Calls
     /\ \E t \in Ticks, p \in UsedPhases, o \in Orders :
          ScheduleSystemVerilogAt(t, p, o)
  \/ "systemverilog_after_cancelable" \in Calls
     /\ \E t \in Ticks, p \in UsedPhases, o \in Orders :
          ScheduleSystemVerilogAfterCancelable(t, p, o)
  \/ "systemverilog_batchable" \in Calls
     /\ \E p \in UsedPhases, o \in Orders :
          ScheduleSystemVerilogBatchable(p, o)
  \/ "running_active" \in Calls /\ \E o \in Orders :
       ScheduleSystemVerilogRunningActive(o)
  \/ "end_of_time_slot" \in Calls /\ \E o \in Orders :
       ScheduleEndOfTimeSlot(o)
  \/ "reserve" \in Calls /\ \E o \in Orders : ReserveOrderKey(o)
  \/ "reserve" \in Calls /\ \E p \in UsedPhases, k \in reserved :
       ScheduleReservedNextDelta(p, k)
  \/ "reserve" \in Calls /\ \E k \in reserved : ScheduleReservedCurrent(k)
  \/ "cancel" \in Calls /\ \E e \in LiveEntries : Cancel(e)
  \/ "stop" \in Calls /\ (RequestStop \/ ClearStop)
  \/ "discard" \in Calls /\ (DiscardPending \/ Reset)
  \/ \E limit \in Ticks \cup {NoLimit} : RunBegin(limit)

Select ==
  \/ StopAtSlotBoundary \/ RunDry \/ ReachTimeLimit \/ LoadNextSlot
  \/ StopInSlot \/ ResumeSystemVerilogBatch \/ BeginSystemVerilogBatch
  \/ SelectGenericPhase \/ BeginNextDelta \/ SelectEndOfSlot
  \/ QuietHook \/ FinishSlot

Dispatch ==
  \/ StopInDrain \/ StartTask \/ StartBatch \/ BatchThrows
  \/ EndTask \/ TaskThrows \/ (\E failure \in BOOLEAN : EndMember(failure))
  \/ EndPass \/ EndHook \/ HookThrows

Next == Client \/ Select \/ Dispatch

Spec == Init /\ [][Next]_vars

(* The run loop and the callbacks it calls make progress, and the user     *)
(* runs the simulation without a limit again and again.                    *)
FairSpec == Spec /\ WF_vars(Select) /\ WF_vars(Dispatch)
                 /\ SF_vars(RunBegin(NoLimit))

-----------------------------------------------------------------------------
(***************************************************************************)
(* Properties.                                                             *)
(***************************************************************************)
(* Every variable of the scheduler has its type; the sequence counter      *)
(* never passes the overflow check of make_entry.                          *)
TypeOK ==
  /\ now \in Ticks /\ until \in Ticks \cup {NoLimit}
  /\ future \subseteq Entry /\ queued \subseteq Entry
  /\ has_slot \in BOOLEAN /\ executing_eos \in BOOLEAN
  /\ phase \in 0 .. PhaseCount /\ sv_phase \in 0 .. NoPhase
  /\ last_sv_phase \in 0 .. NoPhase
  /\ delta \in Nat /\ sv_round \in Nat
  /\ next_sequence \in 0 .. MaxSequence /\ epoch \in Nat
  /\ reserved \subseteq OrderKey
  /\ stop \in BOOLEAN /\ pc \in Points /\ status \in Statuses
  /\ executed \in BOOLEAN /\ running \subseteq Entry /\ revised \in BOOLEAN
  /\ finished \subseteq Nat

(* No task is lost and none is duplicated: every sequence number handed    *)
(* out since the last reset belongs to exactly one queued entry, one entry *)
(* of the running callback, one completed, cancelled or discarded task, or *)
(* one reserved key of this epoch.  A key of an earlier epoch, whose       *)
(* number a reset may have handed out again, gets no entry.                *)
SequencesOf(S) == {e.sequence : e \in S}
UsableKeys == {k \in reserved : k.epoch = epoch}
EveryTaskAccountedFor ==
  /\ \A e, f \in LiveEntries \cup running :
       e.sequence = f.sequence => e = f
  /\ queued \cap future = {} /\ LiveEntries \cap running = {}
  /\ LET live == SequencesOf(LiveEntries \cup running)
         keyed == SequencesOf(UsableKeys)
     IN /\ live \cup finished \cup keyed = 0 .. next_sequence - 1
        /\ live \cap finished = {} /\ keyed \cap (live \cup finished) = {}

(* The current slot holds exactly the work of the present: every entry of  *)
(* its queues is due now, every future slot lies strictly later, and       *)
(* without a slot nothing is overdue.                                      *)
SlotOwnsThePresent ==
  /\ \A e \in queued : has_slot /\ e.time = now
  /\ \A e \in future : e.time >= now /\ (has_slot => e.time > now)

(* No work is stranded in a phase the cursor of the delta cycle has passed *)
(* (enqueue_at sends it to the next delta; the cursor moves before the     *)
(* safe-point hooks), nor in a SystemVerilog batch that is not running.    *)
NoWorkStranded ==
  \A e \in queued \cup running :
    /\ e.bucket = "current" => e.phase >= phase
    /\ e.bucket = "systemverilog_running" => e.phase = sv_phase

(* A slot executes at most max_delta_cycles delta cycles and as many       *)
(* SystemVerilog rounds.                                                   *)
CycleLimitHolds == delta < MaxDeltaCycles /\ sv_round <= MaxDeltaCycles

(* A task, or a member of a batch, starts in this step.                    *)
Starts == /\ pc' \in {"task", "batch"} /\ running' # running

(* Key order: whatever starts has the smallest key in the queue being      *)
(* drained, work inserted by the callbacks before it included.  The one    *)
(* exception is a batch executor in the Active region: what                *)
(* schedule_internal_systemverilog_running_active pushes into the running  *)
(* batch does not change the revision the executor watches.                *)
StartsInKeyOrder ==
  [][Starts => \A e \in RunQueue' :
       \/ KeyLess(First(running'), e)
       \/ pc = "batch" /\ sv_phase = Active]_vars

(* After a stop request no task and no further batch member starts.        *)
StopIsPrompt == [][Starts => ~stop]_vars

(* A frozen SystemVerilog batch runs to its end, across stop and resume,   *)
(* before another region begins or the delta advances; and only work       *)
(* pushed into a running Active batch joins it.                            *)
FrozenBatchRunsToCompletion ==
  [][sv_phase # NoPhase /\ has_slot' =>
       \/ /\ sv_phase' = sv_phase
          /\ \/ sv_phase = Active
             \/ InBucket("systemverilog_running")' \subseteq
                  InBucket("systemverilog_running") \cup running
       \/ InBucket("systemverilog_running") = {} /\ running = {}]_vars

(* The delta cycle advances only when all its generic phases have drained, *)
(* every SystemVerilog region but the postponed one is empty, and there is *)
(* next-delta work.                                                        *)
DeltaAdvancesWhenSettled ==
  [][delta' > delta =>
       /\ \A e \in queued :
            \/ e.bucket \in {"next_delta", "end_of_slot"}
            \/ e.bucket = "systemverilog" /\ e.phase = Postponed
       /\ InBucket("current")' # {}]_vars

(* Work of schedule_end_of_time_slot and generic postponed work starts     *)
(* only when nothing else of its time slot is pending (the members of a    *)
(* batch start together); SystemVerilog postponed work only when           *)
(* everything but end-of-slot work has run.                                *)
PostponedWorkRunsLast ==
  [][/\ Starts /\ pc = "drain" /\ executing_eos =>
          queued' \subseteq InBucket("end_of_slot")
     /\ sv_phase = NoPhase /\ sv_phase' = Postponed =>
          queued \subseteq InBucket("end_of_slot") \cup SvPending(Postponed)]_vars

(* What the result of run says is so: completed means nothing is pending;  *)
(* time_limit means the clock stands at the limit, the slot is closed and  *)
(* all that is left is later than the limit.                               *)
RunResultIsTrue ==
  [][pc # "idle" /\ pc' = "idle" =>
       /\ status' = "completed" => LiveEntries' = {} /\ ~has_slot'
       /\ status' = "time_limit" =>
            now' = until /\ ~has_slot' /\ \A e \in LiveEntries' : e.time > until
       /\ status' = "stopped" => stop]_vars

(* A receipt of the Active region names the round its batch runs in.       *)
ActiveReceiptExact ==
  [][sv_phase = NoPhase /\ sv_phase' = Active =>
       \A e \in InBucket("systemverilog_running")' : e.round \in {0, sv_round'}]_vars

(* Every scheduled task is eventually executed, cancelled or discarded.    *)
EveryTaskFinishes ==
  \A s \in 0 .. MaxSequence - 1 :
    s \in SequencesOf(LiveEntries \cup running) ~>
      s \notin SequencesOf(LiveEntries \cup running)

=============================================================================
