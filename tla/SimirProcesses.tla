--------------------------- MODULE SimirProcesses ---------------------------
(***************************************************************************)
(* The processes of the SimIR interpreter (src/runtime/simir_fork.cpp):    *)
(* fork with its three joins, wait fork, disable fork, disable of a block, *)
(* and the process handles' await, kill, suspend and resume.               *)
(*                                                                         *)
(* One process executes at a time and each operation is one step.  What a  *)
(* program does is open: a process executes any operation of its program.  *)
(* Of a program counter the model keeps whether it is inside the one block *)
(* that is disabled, and which instruction a process waits at.             *)
(***************************************************************************)
EXTENDS Naturals, FiniteSets

CONSTANTS
  Processes,     (* process ids, positive; a fork takes the next free ones *)
  Roots,         (* the processes of the design                            *)
  Designs,       (* for each design, the operations of every process       *)
  Branches,      (* how many branches a fork may have                      *)
  MaxEpoch       (* bound on the timers of a process that are abandoned    *)

Operations == {"fork", "detach", "wait_fork", "disable_fork", "block", "disable",
               "await", "kill", "suspend", "delay", "mailbox", "peek", "try",
               "semaphore", "event"}

(* Properties of the text of a program: suspend is called on the handle of *)
(* the process; the block is the whole body of the branch it is in.        *)
Traits == {"suspendable", "whole_body"}

ASSUME ProcessAssumption ==
  /\ Processes \subseteq Nat \ {0} /\ IsFiniteSet(Processes) /\ Roots \subseteq Processes
  /\ Designs \subseteq [Processes -> SUBSET (Operations \cup Traits)]

VARIABLES
  program,               (* the design that is simulated                   *)
  current,               (* the process that executes, 0 if none           *)
  status,                (* ProcessStatus, "unborn" before its fork        *)
  halted,
  wait,                  (* the kind of instruction a process waits at     *)
  queue,                 (* the wakes handed to the scheduler              *)
  timer_epoch,
  parent,                (* fork_parent, 0 for a root                      *)
  detached,              (* fork_detached                                  *)
  fork_groups,
  waiting_for_children,
  waiting_process,       (* what a process awaits, 0 if nothing            *)
  suspended,
  suspended_wake,
  suspended_status,
  inside,                (* the processes whose pc is in the block         *)
  site_inside            (* the processes whose fork_site is in the block  *)

forkVars == <<program, parent, detached, fork_groups, waiting_for_children, site_inside>>
suspendVars == <<suspended, suspended_wake, suspended_status>>
processVars == <<current, status, halted, wait, queue, timer_epoch, forkVars,
                 waiting_process, suspendVars, inside>>

ProcessInit ==
  /\ program \in Designs
  /\ current = 0 /\ halted = {} /\ fork_groups = {} /\ detached = {}
  /\ status = [p \in Processes |-> IF p \in Roots THEN "running" ELSE "unborn"]
  /\ wait = [p \in Processes |-> "none"]
  /\ queue = {[process |-> p, timed |-> FALSE, epoch |-> 0] : p \in Roots}
  /\ timer_epoch = [p \in Processes |-> 0]
  /\ parent = [p \in Processes |-> 0]
  /\ waiting_for_children = {}
  /\ waiting_process = [p \in Processes |-> 0]
  /\ suspended = {} /\ suspended_wake = {}
  /\ suspended_status = [p \in Processes |-> "running"]
  /\ inside = {} /\ site_inside = {}

-----------------------------------------------------------------------------
(***************************************************************************)
(* Queueing.                                                               *)
(***************************************************************************)
Born == {p \in Processes : status[p] # "unborn"}
Live == Born \ halted
Executes(p, operation) == current = p /\ p \in Live /\ operation \in program[p]

(* ProcessState::queued: a timer that a disable abandoned no longer counts.*)
Valid(w) == w.timed => w.epoch = timer_epoch[w.process]
Queued(p) == \E w \in queue : w.process = p /\ Valid(w)

(* queue_current and queue_active_current, which ignore a halted process   *)
(* and one that is queued.  A halted process has nothing left to execute,  *)
(* so its wakes leave with it.                                             *)
Wake(p) == [process |-> p, timed |-> FALSE, epoch |-> 0]
WakesFor(S) == {Wake(p) : p \in {q \in S \cap Live : ~Queued(q)}}

(* The caller goes back to the scheduler, in the current region.           *)
Requeue(p) == queue' = queue \cup WakesFor({p}) /\ current' = 0

(* The scheduler runs a wake; a timer only when nothing is left to do at   *)
(* the current time.  A suspended process keeps the wake for its resume.   *)
Run(w) ==
  /\ current = 0 /\ w \in queue
  /\ w.timed => \A v \in queue : v.timed
  /\ queue' = queue \ {w}
  /\ LET p == w.process
     IN IF ~Valid(w) THEN UNCHANGED <<current, status, wait, suspended_wake>>
        ELSE IF p \in suspended
        THEN /\ suspended_wake' = suspended_wake \cup {p}
             /\ wait' = IF w.timed THEN [wait EXCEPT ![p] = "none"] ELSE wait
             /\ UNCHANGED <<current, status>>
        ELSE /\ current' = p
             /\ status' = [status EXCEPT ![p] = "running"]
             /\ wait' = IF w.timed THEN [wait EXCEPT ![p] = "none"] ELSE wait
             /\ UNCHANGED suspended_wake
  /\ UNCHANGED <<halted, timer_epoch, forkVars, waiting_process, suspended,
                 suspended_status, inside>>

WaitsAt(p, kind) == /\ status' = [status EXCEPT ![p] = "waiting"]
                    /\ wait' = [wait EXCEPT ![p] = kind]
                    /\ current' = 0

Delay(p) ==
  /\ Executes(p, "delay") /\ WaitsAt(p, "delay")
  /\ queue' = IF Queued(p) THEN queue
              ELSE queue \cup {[process |-> p, timed |-> TRUE, epoch |-> timer_epoch[p]]}
  /\ UNCHANGED <<halted, timer_epoch, forkVars, waiting_process, suspendVars, inside>>

-----------------------------------------------------------------------------
(***************************************************************************)
(* Families.                                                               *)
(***************************************************************************)
(* The chain of parents: what every set that holds the parent of p and of  *)
(* its members contains.                                                   *)
Upward(p, S) == \A q \in {p} \cup S : parent[q] \in S \cup {0}
Ancestors(p) == {a \in Processes : \A S \in SUBSET Processes : Upward(p, S) => a \in S}
Root(p) == IF parent[p] = 0 THEN p ELSE CHOOSE q \in Ancestors(p) : parent[q] = 0
LiveChildren(p) == {q \in Live : parent[q] = p}
Descendants(S) == {q \in Live : Ancestors(q) \cap S # {}}
Family(S) == (S \cap Live) \cup Descendants(S)

(* complete_process and complete_fork_child for the processes K, which end *)
(* together: whoever joins, waits for or awaits them is woken.  R are the  *)
(* processes a disable sends to the end of its block, C the caller if it   *)
(* goes back to the scheduler.                                             *)
Over(g, K) == /\ g.children \cap K # {}
              /\ g.join = "any" \/ g.children \subseteq K
Childless(p, K) == LiveChildren(p) \subseteq K \cup detached

Ending(K, terminal, R, C) ==
  LET joined == {g.parent : g \in {h \in fork_groups : Over(h, K)}}
      idle == {p \in waiting_for_children : LiveChildren(p) \cap K # {} /\ Childless(p, K)}
      awaiting == {p \in Live : waiting_process[p] \in K}
      woken == (joined \cup idle \cup awaiting) \ K
      Due(p) == \/ p \in K \cup R
                \/ p \in joined /\ wait[p] = "join"
                \/ p \in idle /\ wait[p] = "children"
                \/ p \in awaiting /\ wait[p] = "process"
      abandoned == {w \in queue : w.timed /\ Valid(w) /\ w.process \in R \ {current}}
      kept == {w \in queue : w.process \notin K}
      queues == {p \in (Live \ K) \cap (woken \cup (R \ {current}) \cup C) :
                   \A w \in kept \ abandoned : w.process = p => ~Valid(w)}
  IN /\ halted' = halted \cup K
     /\ status' = [p \in Processes |-> IF p \in K THEN terminal
                     ELSE IF p \in woken \cup R THEN "running" ELSE status[p]]
     /\ wait' = [p \in Processes |-> IF Due(p) THEN "none" ELSE wait[p]]
     /\ timer_epoch' = [p \in Processes |->
          IF \E w \in abandoned : w.process = p THEN timer_epoch[p] + 1
          ELSE timer_epoch[p]]
     /\ queue' = kept \cup {Wake(p) : p \in queues}
     /\ fork_groups' = {[g EXCEPT !.children = @ \ K] :
                          g \in {h \in fork_groups : ~Over(h, K)}}
     /\ waiting_for_children' = waiting_for_children \ (K \cup idle \cup R)
     /\ waiting_process' = [p \in Processes |->
          IF p \in K \cup awaiting THEN 0 ELSE waiting_process[p]]
     /\ suspended' = suspended \ K /\ suspended_wake' = suspended_wake \ K
     /\ inside' = inside \ (K \cup R)
     /\ UNCHANGED <<program, suspended_status, parent, detached, site_inside>>

-----------------------------------------------------------------------------
(***************************************************************************)
(* handle_fork_boundary.                                                   *)
(***************************************************************************)
(* spawn_fork; no branch also stands for a fork the spawn filter refuses.  *)
Fork(p, n, join, detach) ==
  LET free == Processes \ Born
      children == {q \in free : Cardinality({r \in free : r < q}) < n}
      waits == join # "none" /\ children # {}
  IN /\ Executes(p, "fork") /\ n \in Branches /\ Cardinality(free) >= n
     /\ detach => "detach" \in program[p] /\ join = "none"
     /\ status' = [q \in Processes |-> IF q \in children THEN "running"
                     ELSE IF q = p /\ waits THEN "waiting" ELSE status[q]]
     /\ wait' = IF waits THEN [wait EXCEPT ![p] = "join"] ELSE wait
     /\ queue' = queue \cup {Wake(q) : q \in children}
                       \cup IF waits THEN {} ELSE WakesFor({p})
     /\ parent' = [q \in Processes |-> IF q \in children THEN p ELSE parent[q]]
     /\ detached' = IF detach THEN detached \cup children ELSE detached
     /\ fork_groups' = IF waits
          THEN fork_groups \cup {[parent |-> p, join |-> join, children |-> children]}
          ELSE fork_groups
     /\ LET in == IF p \in inside THEN children ELSE {}
        IN inside' = inside \cup in /\ site_inside' = site_inside \cup in
     /\ current' = 0
     /\ UNCHANGED <<program, halted, timer_epoch, waiting_for_children, waiting_process,
                    suspendVars>>

(* ForkEnd of a child, Halt of a root.                                     *)
Finish(p) == /\ current = p /\ p \in Live
             /\ Ending({p}, "finished", {}, {}) /\ current' = 0

WaitFork(p) ==
  /\ Executes(p, "wait_fork")
  /\ IF Childless(p, {})
     THEN Requeue(p) /\ UNCHANGED <<status, wait, waiting_for_children>>
     ELSE /\ WaitsAt(p, "children") /\ UNCHANGED queue
          /\ waiting_for_children' = waiting_for_children \cup {p}
  /\ UNCHANGED <<program, halted, timer_epoch, parent, detached, fork_groups, site_inside,
                 waiting_process, suspendVars, inside>>

(* disable fork spares detached children, and what finished children left  *)
(* behind if there are any.                                                *)
DisableFork(p) ==
  /\ Executes(p, "disable_fork")
  /\ LET K == IF LiveChildren(p) \cap detached = {} THEN Descendants({p})
              ELSE Family(LiveChildren(p) \ detached)
     IN Ending(K, "killed", {}, {p})
  /\ current' = 0

(* The program counter enters and leaves the block.                        *)
EnterBlock(p) ==
  /\ Executes(p, "block") /\ p \notin inside /\ inside' = inside \cup {p}
  /\ UNCHANGED <<current, status, halted, wait, queue, timer_epoch, forkVars,
                 waiting_process, suspendVars>>

LeaveBlock(p) ==
  /\ Executes(p, "block") /\ p \in inside \ site_inside /\ inside' = inside \ {p}
  /\ UNCHANGED <<current, status, halted, wait, queue, timer_epoch, forkVars,
                 waiting_process, suspendVars>>

(* disable of the block.  It ends in the process that owns it, in the      *)
(* owner's ancestors and their other branches unless that ended the caller *)
(* too, and in the other activations of the same design process.           *)
(* disable_process_interval kills what was forked inside and sends the     *)
(* process itself, whatever it waits for, to the end of the block.         *)
BlockOwner(p) == IF p \notin site_inside THEN p
                 ELSE CHOOSE q \in Ancestors(p) \ site_inside :
                        \A r \in Ancestors(p) \ site_inside : r <= q
Disable(p) ==
  LET owner == BlockOwner(p)
      up == IF p \in Family(LiveChildren(owner) \cap site_inside) THEN {}
            ELSE Ancestors(owner)
      branches == {q \in (UNION {LiveChildren(a) : a \in up}) \ {p} : q \in inside}
      ended == {q \in branches : "whole_body" \in program[q]}
      others == {BlockOwner(q) : q \in {r \in Live \ {p} :
                   Root(r) = Root(p) /\ r \in inside}} \ ({owner} \cup Ancestors(owner))
      disabled == {owner} \cup up \cup (branches \ ended) \cup others
      forked == {q \in UNION {LiveChildren(d) : d \in disabled} : q \in site_inside}
      K == Family(forked \cup ended)
      R == {q \in (disabled \cap Live) \ K : q \in inside}
  IN /\ Executes(p, "disable")
     /\ \A q \in R : timer_epoch[q] < MaxEpoch
     /\ Ending(K, "killed", R, {})
     /\ current' = IF p \in K THEN 0 ELSE p

-----------------------------------------------------------------------------
(***************************************************************************)
(* handle_process_boundary: the methods of a process handle.               *)
(***************************************************************************)
Await(p, target) ==
  /\ Executes(p, "await") /\ target \in Born \ {p}
  /\ IF status[target] \in {"finished", "killed"}
     THEN Requeue(p) /\ UNCHANGED <<status, wait, waiting_process>>
     ELSE /\ WaitsAt(p, "process") /\ UNCHANGED queue
          /\ waiting_process' = [waiting_process EXCEPT ![p] = target]
  /\ UNCHANGED <<halted, timer_epoch, forkVars, suspendVars, inside>>

(* Faulty variant: the process is killed without its descendants.          *)
KillAlone(p, target) ==
  /\ Executes(p, "kill") /\ target \in Born
  /\ Ending({target} \cap Live, "killed", {}, {p}) /\ current' = 0

Kill(p, target) ==
  /\ Executes(p, "kill") /\ target \in Born
  /\ Ending(Family({target}), "killed", {}, {p})
  /\ current' = 0

Suspend(p, target) ==
  /\ Executes(p, "suspend") /\ target \in Born
  /\ "suspendable" \in program[target]
  /\ IF target \in Live \ suspended
     THEN /\ suspended_status' = [suspended_status EXCEPT ![target] = status[target]]
          /\ status' = [status EXCEPT ![target] = "suspended"]
          /\ suspended' = suspended \cup {target}
     ELSE UNCHANGED <<suspended_status, status, suspended>>
  /\ IF target = p THEN current' = 0 /\ UNCHANGED queue ELSE Requeue(p)
  /\ UNCHANGED <<halted, wait, timer_epoch, forkVars, waiting_process,
                 suspended_wake, inside>>

(* Faulty variant: resume queues its caller like kill and suspend.         *)
ResumeRequeues(p, target) ==
  /\ Executes(p, "suspend") /\ target \in suspended
  /\ LET runnable == target \in suspended_wake \/ suspended_status[target] = "running"
     IN /\ status' = [status EXCEPT ![target] = IF runnable THEN "running"
                                                ELSE suspended_status[target]]
        /\ queue' = queue \cup WakesFor({p} \cup IF runnable THEN {target} ELSE {})
  /\ suspended' = suspended \ {target}
  /\ suspended_wake' = suspended_wake \ {target}
  /\ UNCHANGED <<current, halted, wait, timer_epoch, forkVars, waiting_process,
                 suspended_status, inside>>

(* Faulty variant: resume forgets the wake it held.                        *)
ResumeForgetful(p, target) ==
  /\ Executes(p, "suspend") /\ target \in suspended
  /\ LET runnable == suspended_status[target] = "running"
     IN /\ status' = [status EXCEPT ![target] = suspended_status[target]]
        /\ queue' = queue \cup IF runnable THEN WakesFor({target}) ELSE {}
  /\ suspended' = suspended \ {target}
  /\ suspended_wake' = suspended_wake \ {target}
  /\ UNCHANGED <<current, halted, wait, timer_epoch, forkVars, waiting_process,
                 suspended_status, inside>>

(* The caller of resume continues at once.                                 *)
Resume(p, target) ==
  /\ Executes(p, "suspend") /\ target \in suspended
  /\ LET runnable == target \in suspended_wake \/ suspended_status[target] = "running"
     IN /\ status' = [status EXCEPT ![target] = IF runnable THEN "running"
                                                ELSE suspended_status[target]]
        /\ queue' = queue \cup IF runnable THEN WakesFor({target}) ELSE {}
  /\ suspended' = suspended \ {target}
  /\ suspended_wake' = suspended_wake \ {target}
  /\ UNCHANGED <<current, halted, wait, timer_epoch, forkVars, waiting_process,
                 suspended_status, inside>>

ProcessStep(p) ==
  \/ \E n \in Branches, join \in {"all", "any", "none"}, detach \in BOOLEAN :
       Fork(p, n, join, detach)
  \/ Finish(p) \/ WaitFork(p) \/ DisableFork(p) \/ EnterBlock(p) \/ LeaveBlock(p)
  \/ Disable(p) \/ Delay(p)
  \/ \E target \in Processes :
       Await(p, target) \/ Kill(p, target) \/ Suspend(p, target) \/ Resume(p, target)
=============================================================================
