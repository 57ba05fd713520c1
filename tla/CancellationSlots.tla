------------------------- MODULE CancellationSlots -------------------------
(***************************************************************************)
(* Cancellable tasks: class CancellationSlots and the life of the queue    *)
(* entries and handles that name its slots (src/runtime/scheduler_internal *)
(* .hpp, Scheduler::cancel and the _cancelable calls of scheduler.cpp).    *)
(*                                                                         *)
(* A slot is recycled as soon as its task is cancelled or taken, while     *)
(* entries and handles that name it stay behind in the queues and with the *)
(* clients.  The generation tells them from the slot's next user; a slot   *)
(* whose generation cannot grow any more is retired.                       *)
(***************************************************************************)
EXTENDS Integers, Sequences, FiniteSets

CONSTANTS
  Tasks,           (* the tasks clients schedule, each at most once        *)
  MaxGeneration,   (* largest generation (2^64 - 1 in the code)            *)
  NoTask           (* an empty std::function                               *)

ASSUME ConstantsAssumption ==
  /\ MaxGeneration \in Nat \ {0}
  /\ NoTask \notin Tasks

VARIABLES
  slots,      (* slots_: generation, active flag and task of each slot     *)
  free,       (* the list from free_head_ along next_free                  *)
  entries,    (* queue entries of cancellable tasks, cancelled ones too    *)
  handles,    (* every ScheduledTaskHandle given out, with its task        *)
  requested,  (* history: tasks whose own handle was cancelled in time     *)
  done        (* history: tasks that were run                              *)

vars == <<slots, free, entries, handles, requested, done>>

Slot == [generation : 1 .. MaxGeneration, active : BOOLEAN,
         task : Tasks \cup {NoTask}]
(* A slot and a generation, with the task they were given out for.         *)
Identity == [slot : Nat \ {0}, generation : 1 .. MaxGeneration, task : Tasks]

Init == /\ slots = <<>> /\ free = <<>>
        /\ entries = {} /\ handles = {}
        /\ requested = {} /\ done = {}

(* Faulty variant of IsActive: the generation is not compared.             *)
IsActiveAnyGeneration(id) == id.slot \in DOMAIN slots /\ slots[id.slot].active

(* CancellationSlots::active *)
IsActive(id) == /\ id.slot \in DOMAIN slots
                /\ slots[id.slot].generation = id.generation
                /\ slots[id.slot].active

(* Faulty variant of Release: without the early return.                    *)
ReleaseTwice(id) ==
  /\ slots' = [slots EXCEPT ![id.slot].active = FALSE,
                            ![id.slot].task = NoTask]
  /\ free' = IF id.generation # MaxGeneration
             THEN <<id.slot>> \o free ELSE free

(* CancellationSlots::release, of an active identity and otherwise.        *)
Release(id) ==
  IF ~IsActive(id) THEN UNCHANGED <<slots, free>>
  ELSE /\ slots' = [slots EXCEPT ![id.slot].active = FALSE,
                                 ![id.slot].task = NoTask]
       /\ free' = IF id.generation # MaxGeneration
                  THEN <<id.slot>> \o free ELSE free

-----------------------------------------------------------------------------
Issue(id) == /\ entries' = entries \cup {id}
             /\ handles' = handles \cup {id}
             /\ UNCHANGED <<requested, done>>
Fresh(t) == t \notin {id.task : id \in handles}

(* Faulty variant of AcquireFreeSlot: the slot keeps its generation.       *)
AcquireSameGeneration(t) ==
  /\ Fresh(t) /\ free # <<>>
  /\ LET i == Head(free)
     IN /\ slots' = [slots EXCEPT ![i].active = TRUE, ![i].task = t]
        /\ free' = Tail(free)
        /\ Issue([slot |-> i, generation |-> slots[i].generation, task |-> t])

(* A _cancelable call: acquire a slot, queue an entry, hand out a handle.  *)
AcquireFreeSlot(t) ==
  /\ Fresh(t) /\ free # <<>>
  /\ LET i == Head(free)
         g == slots[i].generation + 1
     IN /\ slots' = [slots EXCEPT ![i] =
                       [generation |-> g, active |-> TRUE, task |-> t]]
        /\ free' = Tail(free)
        /\ Issue([slot |-> i, generation |-> g, task |-> t])

AcquireNewSlot(t) ==
  /\ Fresh(t) /\ free = <<>>
  /\ slots' = Append(slots, [generation |-> 1, active |-> TRUE, task |-> t])
  /\ UNCHANGED free
  /\ Issue([slot |-> Len(slots) + 1, generation |-> 1, task |-> t])

(* Scheduler::cancel, with a live or a stale handle.                       *)
Cancel(h) ==
  /\ Release(h)
  /\ requested' = IF h.task \in {e.task : e \in entries}
                  THEN requested \cup {h.task} ELSE requested
  /\ UNCHANGED <<entries, handles, done>>

(* Faulty variant of Execute: the cancellation is not looked at.           *)
ExecuteUnchecked(e) ==
  /\ done' = done \cup {slots[e.slot].task}
  /\ Release(e)
  /\ entries' = entries \ {e}
  /\ UNCHANGED <<handles, requested>>

(* The dispatcher pops an entry that is not cancelled and takes its task.  *)
Execute(e) ==
  /\ IsActive(e)
  /\ done' = done \cup {slots[e.slot].task}
  /\ Release(e)
  /\ entries' = entries \ {e}
  /\ UNCHANGED <<handles, requested>>

(* prepare, pop and compact drop entries whose identity is not active.     *)
DropCancelled(e) ==
  /\ ~IsActive(e)
  /\ entries' = entries \ {e}
  /\ UNCHANGED <<slots, free, handles, requested, done>>

(* discard_queued releases the cancellation of each discarded entry.       *)
DiscardEntry(e) ==
  /\ Release(e)
  /\ entries' = entries \ {e}
  /\ UNCHANGED <<handles, requested, done>>

Next ==
  \/ \E t \in Tasks : AcquireFreeSlot(t) \/ AcquireNewSlot(t)
  \/ \E h \in handles : Cancel(h)
  \/ \E e \in entries : Execute(e) \/ DropCancelled(e) \/ DiscardEntry(e)

Spec == Init /\ [][Next]_vars

-----------------------------------------------------------------------------
(* The slots, the free list, the entries and the handles have their types. *)
TypeOK ==
  /\ slots \in Seq(Slot) /\ free \in Seq(DOMAIN slots)
  /\ entries \subseteq handles /\ handles \subseteq Identity
  /\ requested \subseteq Tasks /\ done \subseteq Tasks

(* A queued entry is cancelled exactly when its own handle was cancelled:  *)
(* a stale handle never cancels the task that reuses its slot, and a slot  *)
(* recycled under a cancelled entry does not bring that entry back.        *)
CancelledIffRequested ==
  \A e \in entries : IsActive(e) <=> e.task \notin requested

(* An entry that is not cancelled finds its own task in its slot, so the   *)
(* dispatcher never runs another task in its place nor an empty one.       *)
EntryFindsItsTask ==
  \A e \in entries : IsActive(e) => slots[e.slot].task = e.task

(* No task runs after its handle was cancelled.                            *)
CancelledNeverRuns == requested \cap done = {}

(* The free list holds each slot that may be reused exactly once, and no   *)
(* slot that is in use or retired.                                         *)
FreeListExact ==
  /\ \A i, j \in DOMAIN free : free[i] = free[j] => i = j
  /\ {free[i] : i \in DOMAIN free} =
       {s \in DOMAIN slots : /\ ~slots[s].active
                             /\ slots[s].generation # MaxGeneration}
=============================================================================
