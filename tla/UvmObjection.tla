---------------------------- MODULE UvmObjection ----------------------------
(***************************************************************************)
(* Objections of a UVM task phase (src/runtime/uvm_objection.cpp): counts  *)
(* per source and description and their total at the root; drain times     *)
(* between a source's last drop and its end; and the all-dropped and       *)
(* ready-to-end reports when the last objection is gone.  The counts kept  *)
(* for the components in between, which no decision reads, are left out.   *)
(*                                                                         *)
(* One phase and one root: keys of different phases and roots share        *)
(* nothing.  Callbacks run in the middle of mutate and try_finalize_root   *)
(* and may call the service again, so those calls are frames of a stack.   *)
(* A call the service refuses changes nothing and is not a step.           *)
(***************************************************************************)
EXTENDS Naturals, Sequences, FiniteSets

CONSTANTS
  Sources,              (* objects that raise and drop                     *)
  Descriptions,
  Reentrant,            (* the callbacks that call the service again       *)
  maximum_count,
  maximum_callback_reentries,
  MaxMutations,         (* bound on the mutations of a behaviour           *)
  MaxDepth              (* bound on the nesting of calls                   *)

ASSUME ObjectionAssumption ==
  /\ IsFiniteSet(Sources)
  /\ Reentrant \subseteq {"raised", "dropped", "all_dropped", "ready_to_end"}
  /\ maximum_count \in Nat \ {0} /\ maximum_callback_reentries \in Nat \ {0}

VARIABLES
  entries, source_totals, root_total,
  drain_times,          (* the sources with a drain time                   *)
  pending_drains,       (* generation of the pending drain, 0 if none      *)
  next_drain_generation,
  tasks,                (* the drain tasks the scheduler holds             *)
  reserved_trace_records,
  finalizing, recheck,  (* finalization_depth_, finalization_recheck_      *)
  calls,                (* the calls of the service that have not returned *)
  mutations,
  owed,                 (* history: all dropped, ready to end not reported *)
  ceiling,              (* the re-entry ceiling was reported               *)
  undone                (* history: a raise cancelled the drain that a drop *)
                        (* in its own Raised callback had started          *)

counts == <<entries, source_totals, root_total>>
drains == <<drain_times, pending_drains, next_drain_generation, tasks,
            reserved_trace_records>>
vars == <<counts, drains, finalizing, recheck, calls, mutations, owed, ceiling,
          undone>>

Init ==
  /\ entries = [s \in Sources |-> [d \in Descriptions |-> 0]]
  /\ source_totals = [s \in Sources |-> 0]
  /\ root_total = 0
  /\ drain_times = {} /\ pending_drains = [s \in Sources |-> 0]
  /\ next_drain_generation = 1 /\ tasks = {} /\ reserved_trace_records = 0
  /\ finalizing = FALSE /\ recheck = FALSE /\ calls = <<>>
  /\ mutations = 0 /\ owed = FALSE /\ ceiling = FALSE /\ undone = FALSE

Top == calls[Len(calls)]
Below == SubSeq(calls, 1, Len(calls) - 1)

(* The service is called by a process of the testbench, or by a callback   *)
(* of the call on top.                                                     *)
Callback(c) == IF c.kind # "mutate" THEN c.kind
               ELSE IF c.increasing THEN "raised" ELSE "dropped"
CanCall == calls # <<>> => Len(calls) < MaxDepth /\ Callback(Top) \in Reentrant

PendingIn(pending) == \E s \in Sources : pending[s] # 0

-----------------------------------------------------------------------------
(***************************************************************************)
(* mutate: raise, drop and set of an entry.  The new totals are published, *)
(* then the Raised or Dropped callbacks run.                               *)
(***************************************************************************)
Mutate(s, d, after) ==
  LET before == entries[s][d]
      increasing == after > before
      Moved(total) == total + after - before
  IN /\ CanCall /\ mutations < MaxMutations
     /\ after # before /\ Moved(root_total) <= maximum_count
     /\ entries' = [entries EXCEPT ![s][d] = after]
     /\ source_totals' = [source_totals EXCEPT ![s] = Moved(@)]
     /\ root_total' = Moved(root_total)
     /\ mutations' = mutations + 1
     /\ calls' = Append(calls,
          [kind |-> "mutate", source |-> s, increasing |-> increasing,
           drains |-> ~increasing /\ source_totals'[s] = 0 /\ s \in drain_times,
           all_dropped |-> root_total # 0 /\ root_total' = 0, iterations |-> 0])
     /\ owed' = (owed \/ (root_total # 0 /\ root_total' = 0))
     /\ undone' = (undone /\ ~increasing)
     /\ UNCHANGED <<drains, finalizing, recheck, ceiling>>

Finalization(callback, n) == [kind |-> callback, source |-> "root", increasing |-> FALSE,
                              drains |-> FALSE, all_dropped |-> FALSE, iterations |-> n]

(* try_finalize_root up to its first callback; rest are the calls below.   *)
TryFinalizeRoot(pending, rest) ==
  IF root_total # 0 \/ PendingIn(pending)
  THEN calls' = rest /\ UNCHANGED <<finalizing, recheck>>
  ELSE IF finalizing
  THEN calls' = rest /\ recheck' = TRUE /\ UNCHANGED finalizing
  ELSE /\ calls' = Append(rest, Finalization("all_dropped", 1))
       /\ finalizing' = TRUE /\ recheck' = FALSE

(* The callbacks of mutate have returned: a raise cancels the drain of its *)
(* source, a last drop starts it, the drop of the last objection finalizes.*)
CancelsDrain(c) == c.increasing /\ pending_drains[c.source] # 0

(* Faulty variant: a source that was raised again meanwhile drains.        *)
StartsDrainStale(c) ==
  /\ c.drains /\ c.source \in drain_times /\ pending_drains[c.source] = 0

StartsDrain(c) ==
  /\ c.drains /\ source_totals[c.source] = 0
  /\ c.source \in drain_times /\ pending_drains[c.source] = 0

MutateReturns ==
  /\ calls # <<>> /\ Top.kind = "mutate"
  /\ LET s == Top.source
         task == [source |-> s, generation |-> next_drain_generation]
     IN /\ IF CancelsDrain(Top)
           THEN /\ pending_drains' = [pending_drains EXCEPT ![s] = 0]
                /\ tasks' = {t \in tasks : t.generation # pending_drains[s]}
                /\ reserved_trace_records' = reserved_trace_records - 3
                /\ UNCHANGED next_drain_generation
           ELSE IF StartsDrain(Top)
           THEN /\ pending_drains' = [pending_drains EXCEPT ![s] = next_drain_generation]
                /\ tasks' = tasks \cup {task}
                /\ reserved_trace_records' = reserved_trace_records + 3
                /\ next_drain_generation' = next_drain_generation + 1
           ELSE UNCHANGED <<pending_drains, tasks, reserved_trace_records,
                            next_drain_generation>>
        /\ IF Top.all_dropped THEN TryFinalizeRoot(pending_drains', Below)
           ELSE calls' = Below /\ UNCHANGED <<finalizing, recheck>>
        /\ undone' = (undone \/ (CancelsDrain(Top) /\ root_total = 0))
  /\ UNCHANGED <<counts, drain_times, mutations, owed, ceiling>>

(* The scheduler runs a drain task: finish_pending_drain.                  *)
FinishPendingDrain(t) ==
  /\ calls = <<>> /\ tasks' = tasks \ {t}
  /\ IF pending_drains[t.source] # t.generation
     THEN UNCHANGED <<pending_drains, reserved_trace_records, calls, finalizing, recheck>>
     ELSE /\ pending_drains' = [pending_drains EXCEPT ![t.source] = 0]
          /\ reserved_trace_records' = reserved_trace_records - 3
          /\ TryFinalizeRoot(pending_drains', <<>>)
  /\ UNCHANGED <<counts, drain_times, next_drain_generation, mutations, owed, ceiling,
                 undone>>

(* The rest of try_finalize_root.                                          *)
EndFinalization == calls' = Below /\ finalizing' = FALSE /\ recheck' = FALSE

AllDroppedReturns ==
  /\ calls # <<>> /\ Top.kind = "all_dropped"
  /\ IF root_total # 0 \/ PendingIn(pending_drains)
     THEN EndFinalization /\ UNCHANGED owed
     ELSE /\ calls' = Append(Below, Finalization("ready_to_end", Top.iterations))
          /\ owed' = FALSE /\ UNCHANGED <<finalizing, recheck>>
  /\ UNCHANGED <<counts, drains, mutations, ceiling, undone>>

(* Faulty variant: the reports are not repeated.                           *)
ReadyToEndReturnsOnce ==
  /\ calls # <<>> /\ Top.kind = "ready_to_end" /\ EndFinalization
  /\ UNCHANGED <<counts, drains, mutations, owed, ceiling, undone>>

ReadyToEndReturns ==
  /\ calls # <<>> /\ Top.kind = "ready_to_end"
  /\ IF recheck /\ root_total = 0 /\ ~PendingIn(pending_drains)
     THEN IF Top.iterations >= maximum_callback_reentries
          THEN EndFinalization /\ ceiling' = TRUE
          ELSE /\ calls' = Append(Below, Finalization("all_dropped", Top.iterations + 1))
               /\ recheck' = FALSE /\ UNCHANGED <<finalizing, ceiling>>
     ELSE EndFinalization /\ UNCHANGED ceiling
  /\ UNCHANGED <<counts, drains, mutations, owed, undone>>

-----------------------------------------------------------------------------
SetDrainTime(s, on) ==
  /\ CanCall /\ (s \in drain_times) # on
  /\ drain_times' = IF on THEN drain_times \cup {s} ELSE drain_times \ {s}
  /\ UNCHANGED <<counts, pending_drains, next_drain_generation, tasks,
                 reserved_trace_records, finalizing, recheck, calls, mutations,
                 owed, ceiling, undone>>

(* cancel_phase, and cancel_root, which forgets the drain times too.       *)
Cancel(root) ==
  /\ CanCall
  /\ entries' = [s \in Sources |-> [d \in Descriptions |-> 0]]
  /\ source_totals' = [s \in Sources |-> 0]
  /\ root_total' = 0
  /\ drain_times' = IF root THEN {} ELSE drain_times
  /\ pending_drains' = [s \in Sources |-> 0]
  /\ tasks' = {t \in tasks : pending_drains[t.source] # t.generation}
  /\ reserved_trace_records' =
       reserved_trace_records - 3 * Cardinality({s \in Sources : pending_drains[s] # 0})
  /\ finalizing' = FALSE /\ recheck' = FALSE /\ owed' = FALSE /\ undone' = FALSE
  /\ UNCHANGED <<next_drain_generation, calls, mutations, ceiling>>

CallbackReturns == MutateReturns \/ AllDroppedReturns \/ ReadyToEndReturns

Next ==
  \/ \E s \in Sources, d \in Descriptions, after \in 0 .. maximum_count : Mutate(s, d, after)
  \/ CallbackReturns
  \/ \E t \in tasks : FinishPendingDrain(t)
  \/ \E s \in Sources, on \in BOOLEAN : SetDrainTime(s, on)
  \/ \E root \in BOOLEAN : Cancel(root)

Spec == Init /\ [][Next]_vars

(* Callbacks return, and the scheduler runs every task that is not         *)
(* cancelled.                                                              *)
FairSpec == /\ Spec
            /\ WF_vars(CallbackReturns)
            /\ WF_vars(\E t \in tasks : FinishPendingDrain(t))

-----------------------------------------------------------------------------
(* A pending drain has its one task and its trace reservation, and a drain *)
(* runs only for a source without objections: a raise stops the drain, and *)
(* a drop whose callbacks raise again starts none.                         *)
DrainsExact ==
  /\ tasks = {[source |-> s, generation |-> pending_drains[s]] :
                s \in {r \in Sources : pending_drains[r] # 0}}
  /\ reserved_trace_records = 3 * Cardinality(tasks)
  /\ calls = <<>> => \A t \in tasks : source_totals[t.source] = 0

(* A Raised callback dropped what was being raised, and when it returned   *)
(* the raise cancelled the drain of that drop.                             *)
NothingLeftToEnd == undone /\ calls = <<>> /\ tasks = {}

(* The drop of the last objection is followed by the report that the phase *)
(* is ready to end, unless an objection is raised again.  One case is left *)
(* out, because there the code never ends the phase: mutate cancels the    *)
(* drain of a raise's source whether or not it still objects once the      *)
(* Raised callbacks have returned.                                         *)
LastDropEndsPhase ==
  owed ~> (~owed \/ root_total # 0 \/ ceiling \/ NothingLeftToEnd)
=============================================================================
