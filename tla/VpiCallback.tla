---------------------------- MODULE VpiCallback ----------------------------
(***************************************************************************)
(* The VPI callback manager (src/runtime/vpi_callback.cpp): registrations, *)
(* their dispatch by the scheduler, by value changes and by the simulator, *)
(* and what callbacks do to the manager while they run: its lock is not    *)
(* held then, so they register, remove and dispatch again.                 *)
(*                                                                         *)
(* One watched object (objects have indexes of their own).  "timed" stands *)
(* for the kinds that a scheduler task of their own dispatches, "end" for  *)
(* EndOfTimeSlot, whose task schedules another one, "next" and "slot" for  *)
(* cbNextSimTime and delays that end at a slot start, "life" for a         *)
(* lifecycle kind, "assert" for an assertion kind.  Calls fail when the    *)
(* scheduler refuses a task or memory runs out; that a change could not be *)
(* kept for dispatch_pending is left out.                                  *)
(***************************************************************************)
EXTENDS Naturals, Sequences, FiniteSetsExt

CONSTANTS
  Kinds,        (* the kinds that are registered                           *)
  Nested,       (* the operations that callbacks call                      *)
  MaxIds,       (* bound on the registrations                              *)
  MaxChanges,   (* bound on the observed changes                           *)
  MaxDepth      (* bound on the nesting of dispatches                      *)

ASSUME KindsAssumption == Kinds \subseteq 
  {"value", "timed", "end", "next", "slot", "life", "assert"}

VARIABLES
  records,              (* active registrations: kind, keeps_pending_values,*)
                        (* delivered_through                               *)
  next_id,
  indexed,              (* value_change_callbacks_by_object                *)
  pending_value_count,  (* pending_value_objects                           *)
  pending_values,       (* the changes kept for dispatch_pending           *)
  next_change,
  slot_start_waiting,
  scheduled,            (* the tasks the scheduler holds                   *)
  dispatching,          (* the kinds with a dispatch in progress           *)
  calls,                (* dispatches that have not returned               *)
  history               (* per id: kind, whether it was registered, first  *)
                        (* change, changes seen, runs of a one-shot kind   *)

values == <<indexed, pending_value_count, pending_values>>
vars == <<records, next_id, values, next_change, slot_start_waiting, scheduled,
          dispatching, calls, history>>

Ids == 1 .. MaxIds
Active == DOMAIN records
OneShot(kind) == kind \notin {"value", "assert"}

Init ==
  /\ records = <<>> /\ next_id = 1
  /\ indexed = {} /\ pending_value_count = 0 /\ pending_values = {}
  /\ next_change = 1 /\ slot_start_waiting = {} /\ scheduled = {}
  /\ dispatching = {} /\ calls = <<>> /\ history = <<>>

(* The dispatch on top runs the callback of its first item, or is about    *)
(* to.  An item is a registration and the change it is told, 0 if none;    *)
(* they come in the order of registrations, and of changes.                *)
Top == calls[Len(calls)]
Below == SubSeq(calls, 1, Len(calls) - 1)
Dispatch(items, guarded) == [items |-> items, running |-> FALSE, guarded |-> guarded]
Items(S, change) == {[id |-> i, change |-> change] : i \in S}
First(item, items) == \A other \in items :
  item.id < other.id \/ (item.id = other.id /\ item.change <= other.change)

(* The manager is called by the simulator, or by the running callback.     *)
CanCall(operation) ==
  calls # <<>> => Top.running /\ operation \in Nested /\ Len(calls) < MaxDepth

Task(kind, id, change, ids) == [kind |-> kind, id |-> id, change |-> change, ids |-> ids]
Own == {"timed", "end"}   (* the tasks a registration cancels when removed   *)
OfKind(kind) == {i \in Active : records[i].kind = kind}
Without(S) == [i \in Active \ S |-> records[i]]

-----------------------------------------------------------------------------
(***************************************************************************)
(* register_callback, remove_callback.                                     *)
(***************************************************************************)
Registered(kind, made) ==
  [kind |-> kind, made |-> made, first |-> next_change, seen |-> <<>>, runs |-> 0]

RegisterCallback(kind, keeps) ==
  /\ CanCall("register") /\ next_id <= MaxIds
  /\ keeps => kind = "value"
  /\ records' = [i \in Active \cup {next_id} |-> IF i # next_id THEN records[i]
       ELSE [kind |-> kind, keeps |-> keeps, delivered_through |-> 0]]
  /\ next_id' = next_id + 1
  /\ indexed' = IF kind = "value" THEN indexed \cup {next_id} ELSE indexed
  /\ pending_value_count' = pending_value_count + IF keeps THEN 1 ELSE 0
  /\ slot_start_waiting' = IF kind \in {"next", "slot"}
                           THEN slot_start_waiting \cup {next_id} ELSE slot_start_waiting
  /\ scheduled' = IF kind \in Own THEN scheduled \cup {Task(kind, next_id, 0, {})}
                  ELSE scheduled
  /\ history' = Append(history, Registered(kind, TRUE))
  /\ UNCHANGED <<pending_values, next_change, dispatching, calls>>

(* A registration that fails takes an id, and its record is erased.  What  *)
(* was done before the failure stays: the index entry, when the count of   *)
(* kept changes cannot be made, and the entry for a slot start, when the   *)
(* scheduler refuses the time of the delay.                                *)
RegisterFails(kind, keeps) ==
  /\ CanCall("register") /\ next_id <= MaxIds
  /\ keeps => kind = "value"
  /\ next_id' = next_id + 1
  /\ history' = Append(history, Registered(kind, FALSE))
  /\ \/ UNCHANGED <<indexed, slot_start_waiting>>
     \/ /\ keeps /\ pending_value_count = 0
        /\ indexed' = indexed \cup {next_id}
        /\ UNCHANGED slot_start_waiting
     \/ /\ kind = "slot"
        /\ slot_start_waiting' = slot_start_waiting \cup {next_id}
        /\ UNCHANGED indexed
  /\ UNCHANGED <<records, pending_value_count, pending_values, next_change, scheduled,
                 dispatching, calls>>

(* retire: the registration leaves the index, and the kept changes go with *)
(* the last registration that keeps them.                                  *)
Retire(id) ==
  LET last == records[id].keeps /\ pending_value_count = 1
  IN /\ records' = Without({id})
     /\ indexed' = indexed \ {id}
     /\ pending_value_count' = pending_value_count - IF records[id].keeps THEN 1 ELSE 0
     /\ pending_values' = IF last THEN {} ELSE pending_values

(* Faulty variant: the registration goes on waiting for a slot start.      *)
RemoveCallbackStillWaiting(id) ==
  /\ CanCall("remove") /\ id \in Active /\ Retire(id)
  /\ scheduled' = {t \in scheduled : t.kind \in Own => t.id # id}
  /\ UNCHANGED <<next_id, next_change, slot_start_waiting, dispatching, calls, history>>

RemoveCallback(id) ==
  /\ CanCall("remove") /\ id \in Active /\ Retire(id)
  /\ slot_start_waiting' = slot_start_waiting \ {id}
  /\ scheduled' = {t \in scheduled : t.kind \in Own => t.id # id}
  /\ UNCHANGED <<next_id, next_change, dispatching, calls, history>>

-----------------------------------------------------------------------------
(***************************************************************************)
(* What makes callbacks due.                                               *)
(***************************************************************************)
(* observe_value_change: a change is numbered, and a task in the active    *)
(* region dispatches it in its turn.                                       *)
ObserveValueChange ==
  /\ CanCall("change") /\ indexed # {} /\ next_change <= MaxChanges
  /\ next_change' = next_change + 1
  /\ pending_values' = IF pending_value_count > 0 THEN pending_values \cup {next_change}
                       ELSE pending_values
  /\ scheduled' = scheduled \cup {Task("value", 0, next_change, {})}
  /\ UNCHANGED <<records, next_id, indexed, pending_value_count, slot_start_waiting,
                 dispatching, calls, history>>

(* Faulty variant: delivered changes are dispatched again in their turn.   *)
DueAgain(change) == indexed

(* The registrations that still have to be told of a change.               *)
Due(change) ==
  {i \in indexed : i \in Active => records[i].delivered_through < change}

(* The scheduler refuses the task: the registrations that would have been  *)
(* told retire, and no kept change is left.                                *)
ObserveFails ==
  LET gone == Due(next_change) \cap Active
  IN /\ CanCall("change") /\ indexed # {} /\ next_change <= MaxChanges
     /\ next_change' = next_change + 1
     /\ records' = Without(gone) /\ indexed' = indexed \ gone
     /\ pending_value_count' = pending_value_count - Cardinality({i \in gone : records[i].keeps})
     /\ pending_values' = {}
     /\ UNCHANGED <<next_id, slot_start_waiting, scheduled, dispatching, calls, history>>

RunValueChange(t) ==
  /\ calls = <<>> /\ t \in scheduled /\ t.kind = "value"
  /\ \A u \in scheduled : u.kind = "value" => t.change <= u.change
  /\ scheduled' = scheduled \ {t}
  /\ pending_values' = {c \in pending_values : c > t.change}
  /\ IF Due(t.change) = {} THEN UNCHANGED <<calls, dispatching>>
     ELSE /\ calls' = <<Dispatch(Items(Due(t.change), t.change), "value")>>
          /\ dispatching' = dispatching \cup {"value"}
  /\ UNCHANGED <<records, next_id, indexed, pending_value_count, next_change,
                 slot_start_waiting, history>>

(* The task of an EndOfTimeSlot registration schedules the one that        *)
(* dispatches it; that one is not cancelled.                               *)
RunEnd(t) ==
  /\ calls = <<>> /\ t \in scheduled /\ t.kind = "end"
  /\ scheduled' = (scheduled \ {t}) \cup {Task("last", t.id, 0, {})}
  /\ UNCHANGED <<records, next_id, values, next_change, slot_start_waiting,
                 dispatching, calls, history>>

RunTimed(t) ==
  /\ calls = <<>> /\ t \in scheduled /\ t.kind \in {"timed", "last"}
  /\ scheduled' = scheduled \ {t}
  /\ calls' = <<Dispatch(Items({t.id}, 0), "none")>>
  /\ UNCHANGED <<records, next_id, values, next_change, slot_start_waiting,
                 dispatching, history>>

(* dispatch_slot_start: a new slot starts when the changes of the last one *)
(* have been dispatched; every cbNextSimTime is due, and the delays that   *)
(* end here.                                                               *)
SlotStart(due) ==
  /\ calls = <<>> /\ \A t \in scheduled : t.kind # "value"
  /\ due \subseteq slot_start_waiting /\ due # {}
  /\ slot_start_waiting \cap OfKind("next") \subseteq due
  /\ slot_start_waiting' = slot_start_waiting \ due
  /\ calls' = <<Dispatch(Items(due, 0), "none")>>
  /\ UNCHANGED <<records, next_id, values, next_change, scheduled, dispatching, history>>

(* dispatch_pending: the kept changes a registration has not seen.         *)
DispatchPending(id) ==
  /\ CanCall("dispatch_pending") /\ id \in Active /\ records[id].keeps
  /\ LET new == {c \in pending_values : c > records[id].delivered_through}
     IN /\ new # {}
        /\ records' = [records EXCEPT ![id].delivered_through = Max(new)]
        /\ calls' = Append(calls, Dispatch({[id |-> id, change |-> c] : c \in new}, "none"))
  /\ UNCHANGED <<next_id, values, next_change, slot_start_waiting, scheduled,
                 dispatching, history>>

(* dispatch_lifecycle: a task dispatches the registrations of now.         *)
DispatchLifecycle ==
  /\ CanCall("dispatch") /\ OfKind("life") # {}
  /\ scheduled' = scheduled \cup {Task("life", 0, 0, OfKind("life"))}
  /\ UNCHANGED <<records, next_id, values, next_change, slot_start_waiting,
                 dispatching, calls, history>>

RunLifecycle(t) ==
  /\ calls = <<>> /\ t \in scheduled /\ t.kind = "life"
  /\ scheduled' = scheduled \ {t}
  /\ calls' = <<Dispatch(Items(t.ids, 0), "life")>>
  /\ dispatching' = dispatching \cup {"life"}
  /\ UNCHANGED <<records, next_id, values, next_change, slot_start_waiting, history>>

(* Faulty variant: a dispatch of the kind may be in progress.              *)
DispatchNowReentrant(kind) ==
  /\ CanCall("dispatch") /\ OfKind(kind) # {}
  /\ calls' = Append(calls, Dispatch(Items(OfKind(kind), 0), kind))
  /\ dispatching' = dispatching \cup {kind}
  /\ UNCHANGED <<records, next_id, values, next_change, slot_start_waiting,
                 scheduled, history>>

(* dispatch_lifecycle_now and dispatch_assertion, refused while the kind   *)
(* is being dispatched.                                                    *)
DispatchNow(kind) ==
  /\ CanCall("dispatch") /\ kind \notin dispatching /\ OfKind(kind) # {}
  /\ calls' = Append(calls, Dispatch(Items(OfKind(kind), 0), kind))
  /\ dispatching' = dispatching \cup {kind}
  /\ UNCHANGED <<records, next_id, values, next_change, slot_start_waiting,
                 scheduled, history>>

-----------------------------------------------------------------------------
(***************************************************************************)
(* dispatch_callbacks and dispatch_callback.                               *)
(***************************************************************************)
StartCallback ==
  /\ calls # <<>> /\ ~Top.running
  /\ \E item \in Top.items :
     /\ First(item, Top.items)
     /\ IF item.id \in Active
        THEN /\ calls' = Append(Below, [Top EXCEPT !.running = TRUE])
             /\ history' = [history EXCEPT ![item.id].runs = @ + IF OneShot(records[item.id].kind) THEN 1 ELSE 0,
                  ![item.id].seen = IF item.change = 0 THEN @ ELSE Append(@, item.change)]
        ELSE /\ calls' = Append(Below, [Top EXCEPT !.items = @ \ {item}])
             /\ UNCHANGED history
  /\ UNCHANGED <<records, next_id, values, next_change, slot_start_waiting,
                 scheduled, dispatching>>

(* A callback that fails, and a one-shot one, retires if it still can.     *)
CallbackReturns(failed) ==
  /\ calls # <<>> /\ Top.running
  /\ \E item \in Top.items :
     /\ First(item, Top.items)
     /\ calls' = Append(Below, [Top EXCEPT !.running = FALSE, !.items = @ \ {item}])
     /\ IF item.id \in Active /\ (failed \/ OneShot(records[item.id].kind))
        THEN Retire(item.id) ELSE UNCHANGED <<records, values>>
  /\ UNCHANGED <<next_id, next_change, slot_start_waiting, scheduled, dispatching, history>>

EndDispatch ==
  /\ calls # <<>> /\ ~Top.running /\ Top.items = {}
  /\ calls' = Below /\ dispatching' = dispatching \ {Top.guarded}
  /\ UNCHANGED <<records, next_id, values, next_change, slot_start_waiting,
                 scheduled, history>>

Next ==
  \/ \E kind \in Kinds, keeps \in BOOLEAN :
       RegisterCallback(kind, keeps) \/ RegisterFails(kind, keeps)
  \/ \E id \in Ids : RemoveCallback(id) \/ DispatchPending(id)
  \/ ObserveValueChange \/ ObserveFails
  \/ \E t \in scheduled : RunValueChange(t) \/ RunTimed(t) \/ RunEnd(t) \/ RunLifecycle(t)
  \/ \E due \in SUBSET slot_start_waiting : SlotStart(due)
  \/ DispatchLifecycle
  \/ \E kind \in {"life", "assert"} : DispatchNow(kind)
  \/ StartCallback \/ EndDispatch \/ \E failed \in BOOLEAN : CallbackReturns(failed)

Spec == Init /\ [][Next]_vars

-----------------------------------------------------------------------------
(* A one-shot callback runs at most once, even when it is due twice or     *)
(* dispatches its own kind again while it runs.                            *)
OneShotOnce == \A i \in DOMAIN history : OneShot(history[i].kind) => history[i].runs <= 1

(* A retired registration leaves nothing behind that could reach it: no    *)
(* index entry, no waiting entry, no task it could still cancel, and kept  *)
(* changes only as long as a registration that keeps them.  The entries of *)
(* ids whose registration failed may stay, and never run a callback.       *)
RetiredLeavesNothing ==
  LET failed == {i \in DOMAIN history : ~history[i].made}
  IN /\ indexed \cap Active = OfKind("value")
     /\ indexed \cup slot_start_waiting \subseteq Active \cup failed
     /\ \A t \in scheduled : t.kind \in Own => t.id \in Active
     /\ pending_value_count = Cardinality({i \in Active : records[i].keeps})
     /\ pending_value_count = 0 => pending_values = {}
     /\ \A i \in failed : history[i].runs = 0 /\ history[i].seen = <<>>

(* A registration is told of changes in their order, of each at most once, *)
(* and once the changes are dispatched has been told of every one since it *)
(* was registered, whether in its turn or ahead of it by dispatch_pending. *)
ChangesDelivered ==
  \A i \in DOMAIN history :
    LET seen == history[i].seen
    IN /\ \A j, k \in DOMAIN seen : j < k => seen[j] < seen[k]
       /\ i \in OfKind("value") /\ calls = <<>> /\ (\A t \in scheduled : t.kind # "value")
            => \A c \in history[i].first .. next_change - 1 : \E j \in DOMAIN seen : seen[j] = c
=============================================================================
