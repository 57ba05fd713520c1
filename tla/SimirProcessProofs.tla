------------------------- MODULE SimirProcessProofs -------------------------
(***************************************************************************)
(* The processes of the SimIR interpreter, for any number of them and any  *)
(* program: families that are killed end, and waits are kept in line with  *)
(* what they wait for.                                                     *)
(*                                                                         *)
(* KilledFamiliesEnd is not inductive: a suspended process hides the       *)
(* status it had, and a wake of a killed process would make it run again.  *)
(* FamilyInv says that neither happens. WaitInv, which module              *)
(* SimirWaitProofs completes, says for every kind of wait where the        *)
(* process is found by what wakes it.                                      *)
(***************************************************************************)
EXTENDS SimirSynchronization, TLAPS

(* The values of ProcessStatus, and "unborn".                              *)
Statuses == {"unborn", "running", "waiting", "suspended", "finished", "killed"}

(* The shape of the process table.                                         *)
ProcessType ==
  /\ status \in [Processes -> Statuses]
  /\ halted \subseteq Processes
  /\ parent \in [Processes -> Processes \cup {0}]
  /\ suspended_status \in [Processes -> Statuses]

(* Nothing of a halted process is left in the scheduler, a live process is *)
(* not marked killed, not even behind a suspension, parents were born      *)
(* before their children, and no killed process has a live descendant.     *)
FamilyInv ==
  /\ ProcessType
  /\ halted \subseteq Born
  /\ current \in Live \cup {0}
  /\ \A w \in queue : w.process \in Live
  /\ suspended \subseteq Live
  /\ \A p \in Live : status[p] # "killed"
  /\ \A p \in suspended : suspended_status[p] \notin {"unborn", "killed"}
  /\ \A p \in Processes : parent[p] \in Born \cup {0}
  /\ \A p \in Processes \ Born : parent[p] = 0
  /\ \A p \in Live : \A a \in Ancestors(p) : status[a] # "killed"

(* What a process can wait at.                                             *)
Kinds == {"none", "delay", "join", "children", "process", "get", "put", "semaphore", "event"}

(* The designs of which the absence of stranded processes is proved: no    *)
(* process disables a block, and none that waits for a dynamic event is    *)
(* suspended.                                                              *)
Undisturbed ==
  \A d \in Designs : \A p \in Processes :
    /\ "disable" \notin d[p]
    /\ ~("event" \in d[p] /\ "suspendable" \in d[p])

(* The scheduler has exactly one wake of every process that is due, which  *)
(* is a timer if the process waits at a delay.                             *)
Waked(p) == \E w \in queue : w.process = p
Runnable(p) == p \in suspended_wake \/ suspended_status[p] = "running"
Scheduled ==
  /\ \A w \in queue : Valid(w) /\ wait[w.process] = IF w.timed THEN "delay" ELSE "none"
  /\ \A v, w \in queue : v.process = w.process => v = w
  /\ current # 0 => /\ wait[current] = "none" /\ status[current] = "running"
                    /\ ~Waked(current) /\ current \notin suspended
  /\ \A p \in Live : wait[p] = "delay" => Waked(p)
  /\ \A p \in Live : wait[p] = "none" =>
       p = current \/ Waked(p) \/ (p \in suspended /\ Runnable(p))

(* The status of a process says running only when it waits for nothing,    *)
(* and a suspension keeps what it was.                                     *)
Marked ==
  /\ \A p \in Live : status[p] = "running" => wait[p] = "none"
  /\ \A p \in halted : status[p] \in {"finished", "killed"}
  /\ \A p \in Processes \ Live : wait[p] = "none"
  /\ \A p \in suspended : "suspendable" \in program[p] /\ (Runnable(p) => wait[p] = "none")
  /\ suspended_wake \subseteq suspended

(* Who joins, waits for or awaits others, and those others are alive.      *)
Groups == [parent : Processes, join : {"all", "any", "none"}, children : SUBSET Processes]
Joining ==
  /\ fork_groups \subseteq Groups
  /\ \A g \in fork_groups : /\ g.parent \in Live /\ wait[g.parent] = "join"
                            /\ g.children # {} /\ g.children \subseteq LiveChildren(g.parent)
  /\ \A g, h \in fork_groups : g.parent = h.parent => g = h
  /\ \A p \in Live : wait[p] = "join" => \E g \in fork_groups : g.parent = p
Outlasting ==
  /\ \A p \in waiting_for_children : p \in Live /\ wait[p] = "children" /\ ~Childless(p, {})
  /\ \A p \in Live : wait[p] = "children" => p \in waiting_for_children
Awaiting ==
  /\ \A p \in Processes : waiting_process[p] # 0 => p \in Live /\ wait[p] = "process"
  /\ \A p \in Live : wait[p] = "process" => waiting_process[p] \in Live

(* The queue seq of a mailbox or semaphore holds every live process that   *)
(* waits at it, each once; B were born, L are alive and w are their waits. *)
Parked(seq, kind, L, B, w) ==
  /\ \A i \in 1 .. Len(seq) : seq[i].process \in B /\ (seq[i].process \in L => w[seq[i].process] = kind)
  /\ \A i, j \in 1 .. Len(seq) : seq[i].process = seq[j].process /\ seq[i].process \in L => i = j
  /\ \A p \in L : w[p] = kind => \E i \in 1 .. Len(seq) : seq[i].process = p

(* The same for the event, which keeps a mark as well.                     *)
Listening ==
  /\ \A p \in pending_dynamic_event : p \in Born /\ (p \in Live => wait[p] = "event")
  /\ \A p \in Live : wait[p] = "event" =>
       /\ status[p] = "waiting" /\ "event" \in program[p] /\ p \in pending_dynamic_event
       /\ \E i \in Positions(event_waiters) : event_waiters[i] = p

WaitType ==
  /\ program \in Designs
  /\ wait \in [Processes -> Kinds]
  /\ waiting_process \in [Processes -> Processes \cup {0}]
  /\ readers \in Seq([process : Processes, peek : BOOLEAN])
  /\ writers \in Seq([process : Processes, value : Nat])
  /\ sent \in Nat
  /\ event_waiters \in Seq(Processes)

WaitInv ==
  /\ WaitType /\ Scheduled /\ Marked /\ Joining /\ Outlasting /\ Awaiting /\ Listening
  /\ Parked(readers, "get", Live, Born, wait)
  /\ Parked(writers, "put", Live, Born, wait)
  /\ Parked(waiters, "semaphore", Live, Born, wait)

Objects == {"get", "put", "semaphore", "event"}

(* Nobody starts or stops waiting at this kind of instruction.             *)
Same(kind) == \A q \in Live : wait'[q] = kind <=> wait[q] = kind

-----------------------------------------------------------------------------

(* A leaf without arithmetic is Zenon's; the others cite SMT.              *)
USE Zenon

(* The ancestors of an ancestor are ancestors.                             *)
LEMMA AncestorsTransitive ==
  ASSUME ProcessType, NEW p \in Processes, NEW q \in Ancestors(p)
  PROVE  Ancestors(q) \subseteq Ancestors(p)
<1> SUFFICES ASSUME NEW a \in Ancestors(q), NEW S \in SUBSET Processes, Upward(p, S)
             PROVE  a \in S
  BY DEF Ancestors
<1>1. q \in S
  BY DEF Ancestors
<1>2. Upward(q, S)
  BY <1>1 DEF Upward
<1> QED
  BY <1>2 DEF Ancestors

(* The chain of parents goes on to its end,                                *)
LEMMA AncestorsUpward ==
  ASSUME ProcessType, NEW p \in Processes
  PROVE  Upward(p, Ancestors(p))
<1> SUFFICES ASSUME NEW q \in {p} \cup Ancestors(p), parent[q] # 0
             PROVE  parent[q] \in Ancestors(p)
  BY DEF Upward
<1>1. q \in Processes /\ parent[q] \in Processes
  BY DEF ProcessType, Ancestors
<1>2. ASSUME NEW S \in SUBSET Processes, Upward(p, S) PROVE parent[q] \in S
  BY <1>2 DEF Upward, Ancestors
<1> QED
  BY <1>1, <1>2 DEF Ancestors

(* leads to processes that exist,                                          *)
LEMMA AncestorsBorn ==
  ASSUME FamilyInv, NEW p \in Processes
  PROVE  Ancestors(p) \subseteq Born
<1>1. Upward(p, Born) /\ Born \in SUBSET Processes
  BY DEF Upward, FamilyInv, Born
<1> QED
  BY <1>1 DEF Ancestors

(* and starts with the parent.                                             *)
LEMMA AncestorsUnfold ==
  ASSUME ProcessType, NEW p \in Processes, NEW a \in Ancestors(p)
  PROVE  parent[p] # 0 /\ (a = parent[p] \/ a \in Ancestors(parent[p]))
<1> DEFINE S == IF parent[p] = 0 THEN {} ELSE {parent[p]} \cup Ancestors(parent[p])
<1>1. parent \in [Processes -> Processes \cup {0}]
  BY DEF ProcessType
<1>2. S \in SUBSET Processes
  BY <1>1 DEF Ancestors
<1>3. ASSUME NEW q \in {p} \cup S PROVE parent[q] \in S \cup {0}
  <2>1. CASE parent[p] = 0
    BY <1>3, <2>1
  <2>2. CASE parent[p] # 0 /\ q = p
    BY <2>2
  <2>3. CASE parent[p] # 0 /\ q \in S
    <3>1. q \in Processes /\ q \in {parent[p]} \cup Ancestors(parent[p])
      BY <1>2, <2>3
    <3>2. ASSUME parent[q] # 0, NEW T \in SUBSET Processes, Upward(parent[p], T)
          PROVE  parent[q] \in T
      BY <3>1, <3>2 DEF Ancestors, Upward
    <3>3. parent[q] # 0 => parent[q] \in Ancestors(parent[p])
      BY <1>1, <3>1, <3>2 DEF Ancestors
    <3> QED
      BY <2>3, <3>3
  <2> QED
    BY <1>3, <2>1, <2>2, <2>3
<1>4. Upward(p, S)
  BY <1>3 DEF Upward
<1>5. a \in S
  BY <1>2, <1>4 DEF Ancestors
<1> QED
  BY <1>5

(* A family is complete: it holds the live descendants of its members.     *)
LEMMA FamilyComplete ==
  ASSUME ProcessType, NEW S, NEW K, K = Descendants(S) \/ K = Family(S)
  PROVE  /\ K \subseteq Live
         /\ \A q \in Live : Ancestors(q) \cap K # {} => q \in K
<1> USE DEF Descendants, Family
<1>1. K \subseteq Live
  OBVIOUS
<1>2. ASSUME NEW q \in Live, NEW a \in Ancestors(q), a \in K PROVE q \in K
  <2>1. q \in Processes
    BY DEF Live, Born
  <2>2. a \in S \/ Ancestors(a) \cap S # {}
    BY <1>2
  <2>3. Ancestors(q) \cap S # {}
    BY <2>1, <2>2, AncestorsTransitive
  <2> QED
    BY <2>3
<1> QED
  BY <1>1, <1>2

-----------------------------------------------------------------------------
(* complete_process keeps the invariant when the processes that are killed *)
(* are a complete family.                                                  *)
LEMMA EndingKeeps ==
  ASSUME FamilyInv, NEW K \in SUBSET Live, NEW terminal \in {"finished", "killed"},
         NEW R, NEW C, Ending(K, terminal, R, C),
         terminal = "killed" => \A q \in Live : Ancestors(q) \cap K # {} => q \in K,
         current' = 0 \/ (current' = current /\ current \notin K)
  PROVE  FamilyInv' /\ Born \subseteq Born' /\ halted \subseteq halted'
<1>1. /\ halted' = halted \cup K
      /\ parent' = parent /\ suspended_status' = suspended_status /\ suspended' = suspended \ K
  BY DEF Ending
<1>2. PICK woken :
        status' = [p \in Processes |-> IF p \in K THEN terminal
                     ELSE IF p \in woken \cup R THEN "running" ELSE status[p]]
  BY DEF Ending
<1>3. ProcessType /\ K \subseteq Processes
  BY DEF FamilyInv, Live, Born
<1>4. \A p \in Processes : \/ status'[p] = status[p] /\ p \notin K
                           \/ status'[p] = "running" /\ p \notin K
                           \/ status'[p] = terminal /\ p \in K
  BY <1>2
<1>5. status' \in [Processes -> Statuses]
  BY <1>2, <1>3 DEF ProcessType, Statuses
<1>6. Born \subseteq Born'
  BY <1>4 DEF Born
<1>7. Live \ K \subseteq Live'
  BY <1>1, <1>6 DEF Live
<1>8. ProcessType'
  BY <1>1, <1>3, <1>5 DEF ProcessType
<1>9. halted' \subseteq Born'
  BY <1>1, <1>6 DEF FamilyInv, Live
<1>10. current' \in Live' \cup {0}
  BY <1>7 DEF FamilyInv
<1>11. ASSUME NEW w \in queue' PROVE w.process \in Live'
  <2>1. \/ w \in queue /\ w.process \notin K
        \/ \E p \in Live \ K : w = Wake(p)
    BY DEF Ending
  <2> QED
    BY <1>7, <2>1, SMT DEF FamilyInv, Wake
<1>12. suspended' \subseteq Live'
  BY <1>1, <1>7 DEF FamilyInv
<1>13. \A p \in Live' : p \in Processes /\ p \notin K /\ p \notin halted
  BY <1>1 DEF Live, Born
<1>14. \A p \in Live' : status'[p] # "killed"
  BY <1>4, <1>13 DEF FamilyInv, Live, Born
<1>15. \A p \in suspended' : suspended_status'[p] \notin {"unborn", "killed"}
  BY <1>1 DEF FamilyInv
<1>16. /\ \A p \in Processes : parent'[p] \in Born' \cup {0}
       /\ \A p \in Processes \ Born' : parent'[p] = 0
  BY <1>1, <1>6 DEF FamilyInv
<1>17. ASSUME NEW p \in Live', NEW a \in Ancestors(p)' PROVE status'[a] # "killed"
  <2>1. a \in Ancestors(p)
    BY <1>1 DEF Ancestors, Upward
  <2>2. a \in Processes /\ p \in Processes
    BY <1>13 DEF Ancestors
  <2>3. p \in Live
    <3>1. p \in Born
      BY <2>1, <2>2, <1>3, AncestorsUnfold DEF FamilyInv
    <3> QED
      BY <1>13, <3>1 DEF Live
  <2>4. status[a] # "killed"
    BY <2>1, <2>3 DEF FamilyInv
  <2>5. terminal = "killed" => a \notin K
    BY <1>13, <2>1, <2>3
  <2> QED
    BY <1>4, <2>2, <2>4, <2>5
<1> QED
  BY <1>1, <1>6, <1>8, <1>9, <1>10, <1>11, <1>12, <1>14, <1>15, <1>16, <1>17 DEF FamilyInv

(* A step that ends and forks nobody keeps it.                             *)
LEMMA CalmKeeps ==
  ASSUME FamilyInv, UNCHANGED <<halted, parent>>,
         status' \in [Processes -> Statuses],
         \A p \in Processes : status'[p] # status[p] =>
            p \in Live /\ status'[p] \notin {"unborn", "killed"},
         current' \in Live \cup {0},
         \A w \in queue' : w.process \in Live,
         suspended' \subseteq Live,
         suspended_status' \in [Processes -> Statuses],
         \A p \in suspended' : suspended_status'[p] \notin {"unborn", "killed"}
  PROVE  FamilyInv' /\ Born \subseteq Born' /\ halted \subseteq halted'
<1>1. Born' = Born /\ Live' = Live
  BY DEF Born, Live
<1>2. ProcessType'
  BY DEF FamilyInv, ProcessType
<1>3. \A p : Ancestors(p)' = Ancestors(p)
  BY DEF Ancestors, Upward
<1>4. \A p \in Processes : status[p] # "killed" => status'[p] # "killed"
  OBVIOUS
<1>5. \A p \in Live : status'[p] # "killed"
  BY <1>4 DEF FamilyInv, Live, Born
<1>6. \A p \in Live : \A a \in Ancestors(p) : status'[a] # "killed"
  BY <1>4 DEF FamilyInv, Ancestors
<1> QED
  BY <1>1, <1>2, <1>3, <1>5, <1>6 DEF FamilyInv
(* Forked processes are new, so that nobody descends from them yet.        *)
LEMMA ForkKeeps ==
  ASSUME FamilyInv, NEW p \in Processes, NEW n, NEW join, NEW detach, Fork(p, n, join, detach)
  PROVE  FamilyInv' /\ Born \subseteq Born' /\ halted \subseteq halted'
<1>1. ProcessType /\ p \in Live
  BY DEF FamilyInv, Fork, Executes
<1>2. PICK children \in SUBSET (Processes \ Born), waits \in BOOLEAN :
        /\ status' = [q \in Processes |-> IF q \in children THEN "running"
                        ELSE IF q = p /\ waits THEN "waiting" ELSE status[q]]
        /\ queue' = queue \cup {Wake(q) : q \in children}
                          \cup IF waits THEN {} ELSE WakesFor({p})
        /\ parent' = [q \in Processes |-> IF q \in children THEN p ELSE parent[q]]
  <2> DEFINE free == Processes \ Born
             children == {q \in free : Cardinality({r \in free : r < q}) < n}
             waits == join # "none" /\ children # {}
  <2>1. children \in SUBSET (Processes \ Born) /\ waits \in BOOLEAN
    OBVIOUS
  <2>2. /\ status' = [q \in Processes |-> IF q \in children THEN "running"
                        ELSE IF q = p /\ waits THEN "waiting" ELSE status[q]]
        /\ queue' = queue \cup {Wake(q) : q \in children}
                          \cup IF waits THEN {} ELSE WakesFor({p})
        /\ parent' = [q \in Processes |-> IF q \in children THEN p ELSE parent[q]]
    BY DEF Fork
  <2> HIDE DEF children, waits
  <2> QED
    BY <2>1, <2>2
<1>3. UNCHANGED <<halted, suspendVars>> /\ current' = 0
  BY DEF Fork
<1>4. /\ status' \in [Processes -> Statuses]
      /\ \A q \in Processes \ children : status'[q] = status[q] \/ (q = p /\ status'[q] = "waiting")
      /\ \A q \in children : status'[q] = "running"
  BY <1>1, <1>2 DEF ProcessType, Statuses
<1>5. Born' = Born \cup children /\ Live' = Live \cup children
  <2>1. Born' = Born \cup children
    BY <1>1, <1>2, <1>4 DEF Born, Live
  <2>2. halted \cap children = {}
    BY <1>2 DEF FamilyInv
  <2> QED
    BY <1>3, <2>1, <2>2 DEF Live
<1>6. ProcessType'
  BY <1>1, <1>2, <1>3, <1>4 DEF ProcessType, suspendVars
<1>7. \A w \in queue' : w.process \in Live'
  <2>1. ASSUME NEW w \in queue' PROVE w \in queue \/ \E q \in children \cup {p} : w = Wake(q)
    BY <1>2 DEF WakesFor
  <2> QED
    BY <1>1, <1>5, <2>1, SMT DEF FamilyInv, Wake
<1>8. \A q \in Live' : status'[q] # "killed"
  BY <1>4, <1>5 DEF FamilyInv, Live, Born
<1>9. /\ \A q \in Processes : parent'[q] \in Born' \cup {0}
      /\ \A q \in Processes \ Born' : parent'[q] = 0
  BY <1>1, <1>2, <1>5 DEF FamilyInv, Live
<1>10. /\ \A q \in Born : parent'[q] = parent[q] /\ parent[q] \in Born \cup {0}
       /\ \A q \in children : parent'[q] = p
  BY <1>2 DEF FamilyInv, Born
<1>11. \A q \in Processes : \A a \in Ancestors(q)' : \A S \in SUBSET Processes :
         (\A r \in {q} \cup S : parent'[r] \in S \cup {0}) => a \in S
  BY DEF Ancestors, Upward
<1>12. ASSUME NEW q \in Born PROVE Ancestors(q)' \subseteq Ancestors(q)
  <2> SUFFICES ASSUME NEW a \in Ancestors(q)', NEW S \in SUBSET Processes, Upward(q, S)
               PROVE  a \in S
    BY DEF Ancestors
  <2> DEFINE T == S \cap Born
  <2>1. \A r \in {q} \cup T : parent'[r] \in T \cup {0}
    BY <1>10 DEF Upward
  <2>2. T \in SUBSET Processes /\ q \in Processes
    BY DEF Born
  <2>3. a \in T
    <3> HIDE DEF T
    <3> QED
      BY <1>11, <2>1, <2>2
  <2> QED
    BY <2>3
<1>13. p \in Born /\ status'[p] # "killed" /\ \A a \in Processes : status[a] # "killed" => status'[a] # "killed"
  BY <1>1, <1>4 DEF Live, FamilyInv, Born
<1>14. ASSUME NEW q \in Live', NEW a \in Ancestors(q)' PROVE status'[a] # "killed"
  <2>1. CASE q \in Live
    <3>1. a \in Ancestors(q) /\ a \in Processes
      BY <1>12, <2>1 DEF Live, Ancestors
    <3> QED
      BY <1>13, <2>1, <3>1 DEF FamilyInv
  <2>2. CASE q \in children
    <3> DEFINE S == {p} \cup Ancestors(p)
    <3>1. Ancestors(p) \subseteq Born /\ Upward(p, Ancestors(p)) /\ S \in SUBSET Processes
      BY <1>1, AncestorsUpward, AncestorsBorn DEF Ancestors
    <3>2. ASSUME NEW r \in {q} \cup S PROVE parent'[r] \in S \cup {0}
      <4>1. CASE r = q
        BY <1>10, <2>2, <4>1
      <4>2. CASE r \in S
        <5>1. r \in Born /\ parent'[r] = parent[r]
          BY <1>10, <1>13, <3>1, <4>2
        <5> QED
          BY <3>1, <4>2, <5>1 DEF Upward
      <4> QED
        BY <3>2, <4>1, <4>2
    <3>3. q \in Processes
      BY <1>2, <2>2
    <3> HIDE DEF S
    <3>4. a \in S
      BY <1>14, <1>11, <3>1, <3>2, <3>3
    <3> QED
      BY <1>1, <1>13, <3>4 DEF FamilyInv, Ancestors, S
  <2> QED
    BY <1>5, <2>1, <2>2
<1>15. /\ suspended' \subseteq Live'
       /\ \A q \in suspended' : suspended_status'[q] \notin {"unborn", "killed"}
       /\ halted' \subseteq Born'
  BY <1>3, <1>5 DEF FamilyInv, suspendVars
<1> QED
  BY <1>3, <1>5, <1>6, <1>7, <1>8, <1>9, <1>14, <1>15 DEF FamilyInv
(* The scheduler's wakes are for live processes.                           *)
LEMMA WakesLive == \A S : \A w \in WakesFor(S) : w.process \in Live
BY SMT DEF WakesFor, Wake

(* synchronization_wake and the return of an operation.                    *)
LEMMA WakingKeeps ==
  ASSUME FamilyInv, NEW p \in Live \cup {0}, NEW W, NEW kind, Waking(p, W, kind)
  PROVE  FamilyInv' /\ Born \subseteq Born' /\ halted \subseteq halted'
<1>1. /\ UNCHANGED <<halted, parent, suspended, suspended_status>>
      /\ queue' = queue \cup WakesFor(W) /\ current' \in {0, p}
      /\ status' = [q \in Processes |-> IF q \in W \cap Live THEN "running" ELSE status[q]]
  BY DEF Waking, UnchangedFamily, forkVars, suspendVars
<1>2. /\ status' \in [Processes -> Statuses]
      /\ \A q \in Processes : status'[q] # status[q] =>
            q \in Live /\ status'[q] \notin {"unborn", "killed"}
  BY <1>1 DEF FamilyInv, ProcessType, Statuses
<1>3. \A w \in queue' : w.process \in Live
  BY <1>1, WakesLive DEF FamilyInv
<1>4. /\ suspended' \subseteq Live /\ suspended_status' \in [Processes -> Statuses]
      /\ \A q \in suspended' : suspended_status'[q] \notin {"unborn", "killed"}
  BY <1>1 DEF FamilyInv, ProcessType
<1> QED
  BY <1>1, <1>2, <1>3, <1>4, CalmKeeps

(* The caller waits.                                                       *)
LEMMA WaitKeeps ==
  ASSUME FamilyInv, NEW p \in Live, NEW kind, WaitsAt(p, kind),
         UNCHANGED <<halted, parent, suspended, suspended_status>>,
         \A w \in queue' : w.process \in Live
  PROVE  FamilyInv' /\ Born \subseteq Born' /\ halted \subseteq halted'
<1>1. status' = [status EXCEPT ![p] = "waiting"] /\ current' = 0
  BY DEF WaitsAt
<1>2. /\ status' \in [Processes -> Statuses]
      /\ \A q \in Processes : status'[q] # status[q] =>
            q \in Live /\ status'[q] \notin {"unborn", "killed"}
  BY <1>1 DEF FamilyInv, ProcessType, Statuses
<1>3. /\ suspended' \subseteq Live /\ suspended_status' \in [Processes -> Statuses]
      /\ \A q \in suspended' : suspended_status'[q] \notin {"unborn", "killed"}
  BY DEF FamilyInv, ProcessType
<1> QED
  BY <1>1, <1>2, <1>3, CalmKeeps

(* A step that leaves every status alone.                                  *)
LEMMA SameStatusKeeps ==
  ASSUME FamilyInv, UNCHANGED <<halted, parent, status, suspended, suspended_status>>,
         current' \in Live \cup {0},
         \A w \in queue' : w.process \in Live
  PROVE  FamilyInv' /\ Born \subseteq Born' /\ halted \subseteq halted'
<1>1. /\ suspended' \subseteq Live /\ suspended_status' \in [Processes -> Statuses]
      /\ status' \in [Processes -> Statuses]
      /\ \A q \in suspended' : suspended_status'[q] \notin {"unborn", "killed"}
  BY DEF FamilyInv, ProcessType
<1> QED
  BY <1>1, CalmKeeps

(* The scheduler runs a wake.                                              *)
LEMMA RunKeeps ==
  ASSUME FamilyInv, NEW w \in queue, Run(w)
  PROVE  FamilyInv' /\ Born \subseteq Born' /\ halted \subseteq halted'
<1>1. /\ UNCHANGED <<halted, parent, suspended, suspended_status>>
      /\ queue' = queue \ {w} /\ current = 0
      /\ \/ UNCHANGED <<current, status>>
         \/ current' = w.process /\ status' = [status EXCEPT ![w.process] = "running"]
  BY DEF Run, forkVars
<1>2. w.process \in Live /\ \A v \in queue' : v.process \in Live
  BY <1>1 DEF FamilyInv
<1>3. CASE UNCHANGED <<current, status>>
  BY <1>1, <1>2, <1>3, SameStatusKeeps
<1>4. CASE current' = w.process /\ status' = [status EXCEPT ![w.process] = "running"]
  <2>1. /\ status' \in [Processes -> Statuses]
        /\ \A q \in Processes : status'[q] # status[q] =>
              q \in Live /\ status'[q] \notin {"unborn", "killed"}
    BY <1>2, <1>4 DEF FamilyInv, ProcessType, Statuses
  <2>2. /\ suspended' \subseteq Live /\ suspended_status' \in [Processes -> Statuses]
        /\ \A q \in suspended' : suspended_status'[q] \notin {"unborn", "killed"}
    BY <1>1 DEF FamilyInv, ProcessType
  <2> QED
    BY <1>1, <1>2, <1>4, <2>1, <2>2, CalmKeeps
<1> QED
  BY <1>1, <1>3, <1>4

(* suspend and resume.                                                     *)
LEMMA SuspendKeeps ==
  ASSUME FamilyInv, NEW p \in Processes, NEW target \in Processes, Suspend(p, target)
  PROVE  FamilyInv' /\ Born \subseteq Born' /\ halted \subseteq halted'
<1>1. UNCHANGED <<halted, parent>> /\ current' = 0
  BY DEF Suspend, Requeue, forkVars
<1>2. \A w \in queue' : w.process \in Live
  BY WakesLive DEF Suspend, Requeue, FamilyInv
<1>3. CASE target \in Live \ suspended
  <2>1. /\ suspended_status' = [suspended_status EXCEPT ![target] = status[target]]
        /\ status' = [status EXCEPT ![target] = "suspended"]
        /\ suspended' = suspended \cup {target}
    BY <1>3 DEF Suspend
  <2>2. status[target] \in Statuses \ {"unborn", "killed"}
    BY <1>3 DEF FamilyInv, ProcessType, Live, Born
  <2>3. /\ status' \in [Processes -> Statuses]
        /\ \A q \in Processes : status'[q] # status[q] =>
              q \in Live /\ status'[q] \notin {"unborn", "killed"}
    BY <1>3, <2>1 DEF FamilyInv, ProcessType, Statuses
  <2>4. /\ suspended' \subseteq Live /\ suspended_status' \in [Processes -> Statuses]
        /\ \A q \in suspended' : suspended_status'[q] \notin {"unborn", "killed"}
    BY <1>3, <2>1, <2>2, SMT DEF FamilyInv, ProcessType
  <2> QED
    BY <1>1, <1>2, <2>3, <2>4, CalmKeeps
<1>4. CASE target \notin Live \ suspended
  <2>1. UNCHANGED <<suspended_status, status, suspended>>
    BY <1>4 DEF Suspend
  <2> QED
    BY <1>1, <1>2, <2>1, SameStatusKeeps
<1> QED
  BY <1>3, <1>4

(* resume gives a process the status it was suspended with.                *)
LEMMA ResumeKeeps ==
  ASSUME FamilyInv, NEW p \in Processes, NEW target \in Processes, Resume(p, target)
  PROVE  FamilyInv' /\ Born \subseteq Born' /\ halted \subseteq halted'
<1>1. /\ UNCHANGED <<halted, parent, current, suspended_status>>
      /\ suspended' = suspended \ {target} /\ target \in suspended
      /\ queue' = queue \/ queue' = queue \cup WakesFor({target})
      /\ \/ status' = [status EXCEPT ![target] = "running"]
         \/ status' = [status EXCEPT ![target] = suspended_status[target]]
  BY DEF Resume, forkVars
<1>2. \A w \in queue' : w.process \in Live
  BY <1>1, WakesLive DEF FamilyInv
<1>3. target \in Live /\ suspended_status[target] \in Statuses \ {"unborn", "killed"}
  BY <1>1 DEF FamilyInv, ProcessType
<1>4. /\ status' \in [Processes -> Statuses]
      /\ \A q \in Processes : status'[q] # status[q] =>
            q \in Live /\ status'[q] \notin {"unborn", "killed"}
  BY <1>1, <1>3 DEF FamilyInv, ProcessType, Statuses
<1>5. /\ suspended' \subseteq Live /\ suspended_status' \in [Processes -> Statuses]
      /\ \A q \in suspended' : suspended_status'[q] \notin {"unborn", "killed"}
      /\ current' \in Live \cup {0}
  BY <1>1 DEF FamilyInv, ProcessType
<1> QED
  BY <1>1, <1>2, <1>4, <1>5, CalmKeeps
(* What every step of a process keeps, and that processes only end.        *)
LEMMA ProcessStepKeeps ==
  ASSUME FamilyInv, NEW p \in Processes, ProcessStep(p)
  PROVE  FamilyInv' /\ Born \subseteq Born' /\ halted \subseteq halted'
<1>0. ProcessType /\ (\A w \in queue : w.process \in Live) /\ current \in Live \cup {0}
  BY DEF FamilyInv
<1>1. ASSUME NEW n \in Branches, NEW join, NEW detach, Fork(p, n, join, detach)
      PROVE  FamilyInv' /\ Born \subseteq Born' /\ halted \subseteq halted'
  BY <1>1, ForkKeeps
<1>2. CASE Finish(p)
  <2>1. {p} \in SUBSET Live /\ Ending({p}, "finished", {}, {}) /\ current' = 0
    BY <1>2 DEF Finish
  <2> QED
    BY <2>1, EndingKeeps
<1>3. CASE WaitFork(p)
  <2>1. p \in Live /\ UNCHANGED <<halted, parent, suspended, suspended_status>>
    BY <1>3 DEF WaitFork, Executes, suspendVars
  <2>2. CASE Childless(p, {})
    <3>1. UNCHANGED status /\ current' = 0 /\ queue' = queue \cup WakesFor({p})
      BY <1>3, <2>2 DEF WaitFork, Requeue
    <3>2. \A w \in queue' : w.process \in Live
      BY <1>0, <3>1, WakesLive
    <3> QED
      BY <2>1, <3>1, <3>2, SameStatusKeeps
  <2>3. CASE ~Childless(p, {})
    <3>1. WaitsAt(p, "children") /\ queue' = queue
      BY <1>3, <2>3 DEF WaitFork
    <3> QED
      BY <1>0, <2>1, <3>1, WaitKeeps
  <2> QED
    BY <2>2, <2>3
<1>4. CASE DisableFork(p)
  <2>1. PICK S, K : /\ K = Descendants(S) \/ K = Family(S)
                    /\ Ending(K, "killed", {}, {p}) /\ current' = 0
    BY <1>4 DEF DisableFork
  <2>2. K \in SUBSET Live /\ \A q \in Live : Ancestors(q) \cap K # {} => q \in K
    BY <1>0, <2>1, FamilyComplete
  <2> QED
    BY <2>1, <2>2, EndingKeeps
<1>5. CASE EnterBlock(p) \/ LeaveBlock(p)
  <2>1. UNCHANGED <<current, queue, halted, parent, status, suspended, suspended_status>>
    BY <1>5 DEF EnterBlock, LeaveBlock, forkVars, suspendVars
  <2> QED
    BY <1>0, <2>1, SameStatusKeeps
<1>6. CASE Disable(p)
  <2>1. PICK S, R : /\ Ending(Family(S), "killed", R, {}) /\ current = p
                    /\ current' = IF p \in Family(S) THEN 0 ELSE p
    BY <1>6, Zenon DEF Disable, Executes
  <2>2. /\ Family(S) \in SUBSET Live
        /\ \A q \in Live : Ancestors(q) \cap Family(S) # {} => q \in Family(S)
    BY <1>0, FamilyComplete
  <2> QED
    BY <2>1, <2>2, EndingKeeps
<1>7. CASE Delay(p)
  <2>1. p \in Live /\ WaitsAt(p, "delay") /\ UNCHANGED <<halted, parent, suspended, suspended_status>>
    BY <1>7 DEF Delay, Executes, forkVars, suspendVars
  <2>2. \A w \in queue' : w.process \in Live
    BY <1>0, <1>7, <2>1, SMT DEF Delay
  <2> QED
    BY <2>1, <2>2, WaitKeeps
<1>8. ASSUME NEW target \in Processes, Await(p, target)
      PROVE  FamilyInv' /\ Born \subseteq Born' /\ halted \subseteq halted'
  <2>1. p \in Live /\ UNCHANGED <<halted, parent, suspended, suspended_status>>
    BY <1>8 DEF Await, Executes, forkVars, suspendVars
  <2>2. CASE status[target] \in {"finished", "killed"}
    <3>1. UNCHANGED status /\ current' = 0 /\ queue' = queue \cup WakesFor({p})
      BY <1>8, <2>2 DEF Await, Requeue
    <3>2. \A w \in queue' : w.process \in Live
      BY <1>0, <3>1, WakesLive
    <3> QED
      BY <2>1, <3>1, <3>2, SameStatusKeeps
  <2>3. CASE status[target] \notin {"finished", "killed"}
    <3>1. WaitsAt(p, "process") /\ queue' = queue
      BY <1>8, <2>3 DEF Await
    <3> QED
      BY <1>0, <2>1, <3>1, WaitKeeps
  <2> QED
    BY <2>2, <2>3
<1>9. ASSUME NEW target \in Processes, Kill(p, target)
      PROVE  FamilyInv' /\ Born \subseteq Born' /\ halted \subseteq halted'
  <2>1. Ending(Family({target}), "killed", {}, {p}) /\ current' = 0
    BY <1>9 DEF Kill
  <2>2. /\ Family({target}) \in SUBSET Live
        /\ \A q \in Live : Ancestors(q) \cap Family({target}) # {} => q \in Family({target})
    BY <1>0, FamilyComplete, SMT
  <2> QED
    BY <2>1, <2>2, EndingKeeps
<1>10. ASSUME NEW target \in Processes, Suspend(p, target) \/ Resume(p, target)
      PROVE  FamilyInv' /\ Born \subseteq Born' /\ halted \subseteq halted'
  BY <1>10, SuspendKeeps, ResumeKeeps
<1> QED
  BY <1>1, <1>2, <1>3, <1>4, <1>5, <1>6, <1>7, <1>8, <1>9, <1>10 DEF ProcessStep

(* So does every step of the system.                                       *)
LEMMA FamilyKept ==
  ASSUME FamilyInv, [Next]_vars
  PROVE  FamilyInv' /\ Born \subseteq Born' /\ halted \subseteq halted'
<1>0. (\A w \in queue : w.process \in Live) /\ current \in Live \cup {0}
  BY DEF FamilyInv
<1>1. CASE \E w \in queue : Run(w)
  BY <1>1, RunKeeps
<1>2. CASE \E p \in Processes : ProcessStep(p)
  BY <1>2, ProcessStepKeeps
<1>3. ASSUME NEW p \in Live \cup {0}, NEW W, NEW kind, Waking(p, W, kind)
      PROVE  FamilyInv' /\ Born \subseteq Born' /\ halted \subseteq halted'
  BY <1>3, WakingKeeps
<1>4. ASSUME NEW p \in Live, NEW kind, Waiting(p, kind)
      PROVE  FamilyInv' /\ Born \subseteq Born' /\ halted \subseteq halted'
  <2>1. WaitsAt(p, kind) /\ UNCHANGED <<queue, halted, parent, suspended, suspended_status>>
    BY <1>4 DEF Waiting, UnchangedFamily, forkVars, suspendVars
  <2> QED
    BY <1>0, <2>1, WaitKeeps
<1>5. ASSUME NEW p \in Processes, NEW try \in BOOLEAN, Put(p, try)
      PROVE  FamilyInv' /\ Born \subseteq Born' /\ halted \subseteq halted'
  <2>1. p \in Live
    BY <1>5 DEF Put, Executes
  <2>2. Waiting(p, "put") \/ \E W, kind : Waking(p, W, kind)
    BY <1>5, Zenon DEF Put, Deliver, Completing
  <2> QED
    BY <1>3, <1>4, <2>1, <2>2
<1>6. ASSUME NEW p \in Processes, NEW peek \in BOOLEAN, NEW try \in BOOLEAN, Get(p, peek, try)
      PROVE  FamilyInv' /\ Born \subseteq Born' /\ halted \subseteq halted'
  <2>1. p \in Live
    BY <1>6 DEF Get, Executes
  <2>2. Waiting(p, "get") \/ \E W, kind : Waking(p, W, kind)
    BY <1>6, Zenon DEF Get, Refill, Completing
  <2> QED
    BY <1>3, <1>4, <2>1, <2>2
<1>7. ASSUME NEW p \in Processes, NEW n \in Requests,
             SemaphorePut(p, n) \/ \E try \in BOOLEAN : SemaphoreGet(p, n, try)
      PROVE  FamilyInv' /\ Born \subseteq Born' /\ halted \subseteq halted'
  <2>1. p \in Live
    BY <1>7 DEF SemaphorePut, SemaphoreGet, Executes
  <2>2. Waiting(p, "semaphore") \/ \E W, kind : Waking(p, W, kind)
    BY <1>7, Zenon DEF SemaphorePut, SemaphoreGet, Completing
  <2> QED
    BY <1>3, <1>4, <2>1, <2>2
<1>8. ASSUME NEW p \in Processes, EventWait(p) \/ Trigger(p) \/ TriggerNonblocking(p)
      PROVE  FamilyInv' /\ Born \subseteq Born' /\ halted \subseteq halted'
  <2>1. p \in Live
    BY <1>8 DEF EventWait, Trigger, TriggerNonblocking, Executes
  <2>2. Waiting(p, "event") \/ \E W, kind : Waking(p, W, kind)
    BY <1>8, Zenon DEF EventWait, Trigger, Triggered, TriggerNonblocking, Completing
  <2> QED
    BY <1>3, <1>4, <2>1, <2>2
<1>9. CASE TriggerDeferred
  <2>1. \E W, kind : Waking(0, W, kind)
    BY <1>9, Zenon DEF TriggerDeferred, Triggered
  <2> QED
    BY <1>3, <2>1
<1>10. CASE UNCHANGED vars
  <2>1. UNCHANGED <<current, queue, halted, parent, status, suspended, suspended_status>>
    BY <1>10 DEF vars, processVars, forkVars, suspendVars
  <2> QED
    BY <1>0, <2>1, SameStatusKeeps
<1> QED
  BY <1>1, <1>2, <1>5, <1>6, <1>7, <1>8, <1>9, <1>10 DEF Next

(* The processes of a design have no parent.                               *)
LEMMA FamilyInit == Init => FamilyInv
<1> SUFFICES ASSUME Init PROVE FamilyInv
  OBVIOUS
<1>1. ProcessInit
  BY DEF Init
<1>2. ProcessType
  BY <1>1 DEF ProcessInit, ProcessType, Statuses
<1>3. Born = Roots /\ Live = Roots
  BY <1>1, ProcessAssumption DEF ProcessInit, Born, Live
<1>4. \A p \in Processes : status[p] # "killed" /\ parent[p] = 0
  BY <1>1 DEF ProcessInit
<1>5. /\ halted = {} /\ suspended = {} /\ current = 0
      /\ \A w \in queue : w.process \in Roots
  BY <1>1, SMT DEF ProcessInit
<1>6. \A p \in Live : status[p] # "killed" /\ \A a \in Ancestors(p) : status[a] # "killed"
  BY <1>3, <1>4, ProcessAssumption DEF Ancestors
<1> QED
  BY <1>2, <1>3, <1>4, <1>5, <1>6 DEF FamilyInv

(* Kill, disable fork and disable reach the whole family of what they end, *)
(* for any number of processes forked to any depth, and whatever was       *)
(* suspended or waiting: a killed process has no live descendant, and a    *)
(* process that ended never executes again.                                *)
THEOREM KilledFamiliesStayEnded == Spec => []KilledFamiliesEnd
<1>1. Init => FamilyInv
  BY FamilyInit
<1>2. FamilyInv /\ [Next]_vars => FamilyInv'
  BY FamilyKept
<1>3. FamilyInv => KilledFamiliesEnd
  <2> SUFFICES ASSUME FamilyInv PROVE KilledFamiliesEnd
    OBVIOUS
  <2>1. 0 \notin halted /\ current \in Live \cup {0}
    BY ProcessAssumption DEF FamilyInv, ProcessType
  <2> QED
    BY <2>1 DEF FamilyInv, KilledFamiliesEnd, Live
<1> QED
  BY <1>1, <1>2, <1>3, PTL DEF Spec
-----------------------------------------------------------------------------
(* What remains of a sequence behind its first n elements.                 *)
LEMMA AfterDef ==
  ASSUME NEW T, NEW seq \in Seq(T), NEW n \in 0 .. Len(seq)
  PROVE  /\ After(seq, n) \in Seq(T)
         /\ Len(After(seq, n)) = Len(seq) - n
         /\ \A i \in 1 .. Len(seq) - n : After(seq, n)[i] = seq[i + n]
BY SMT DEF After

(* A queue stays good when nobody starts or stops waiting at it, whoever   *)
(* ends or is forked.                                                      *)
LEMMA ParkedStays ==
  ASSUME NEW seq, NEW kind, NEW L, NEW B, NEW w, NEW M, NEW C, NEW x,
         Parked(seq, kind, L, B, w), B \subseteq C, M \cap B \subseteq L,
         \A q \in M : x[q] = kind <=> q \in L /\ w[q] = kind
  PROVE  Parked(seq, kind, M, C, x)
BY DEF Parked

(* It stays good when a process starts waiting at its end,                 *)
LEMMA ParkedAppend ==
  ASSUME NEW T, NEW seq \in Seq(T), NEW kind, NEW L, NEW B, NEW w, NEW x, NEW e \in T,
         Parked(seq, kind, L, B, w), e.process \in B, w[e.process] # kind,
         x[e.process] = kind, \A q \in L : q # e.process => x[q] = w[q]
  PROVE  Parked(Append(seq, e), kind, L, B, x)
<1> DEFINE new == Append(seq, e)
<1>1. /\ Len(seq) \in Nat /\ Len(new) = Len(seq) + 1 /\ new[Len(seq) + 1] = e
      /\ \A i \in 1 .. Len(seq) : new[i] = seq[i]
  BY SMT
<1> HIDE DEF new
<1>2. \A i \in 1 .. Len(new) : i \in 1 .. Len(seq) \/ i = Len(seq) + 1
  BY <1>1, SMT
<1>3. \A i \in 1 .. Len(seq) : seq[i].process \in L => seq[i].process # e.process
  BY DEF Parked
<1>4. ASSUME NEW i \in 1 .. Len(new)
      PROVE  new[i].process \in B /\ (new[i].process \in L => x[new[i].process] = kind)
  BY <1>1, <1>2, <1>3, SMT DEF Parked
<1>5. ASSUME NEW i \in 1 .. Len(new), NEW j \in 1 .. Len(new),
             new[i].process = new[j].process, new[i].process \in L
      PROVE  i = j
  <2>1. CASE i \in 1 .. Len(seq) /\ j \in 1 .. Len(seq)
    BY <1>1, <1>5, <2>1 DEF Parked
  <2>2. CASE i \in 1 .. Len(seq) /\ j = Len(seq) + 1
    BY <1>1, <1>3, <1>5, <2>2
  <2>3. CASE i = Len(seq) + 1 /\ j \in 1 .. Len(seq)
    BY <1>1, <1>3, <1>5, <2>3
  <2> QED
    BY <1>2, <2>1, <2>2, <2>3
<1>6. ASSUME NEW p \in L, x[p] = kind PROVE \E i \in 1 .. Len(new) : new[i].process = p
  <2>1. CASE p = e.process
    BY <1>1, <2>1, SMT
  <2>2. CASE p # e.process
    <3>1. PICK i \in 1 .. Len(seq) : seq[i].process = p
      BY <1>6, <2>2 DEF Parked
    <3>2. i \in 1 .. Len(new)
      BY <1>1, SMT
    <3> QED
      BY <1>1, <3>1, <3>2
  <2> QED
    BY <2>1, <2>2
<1> QED
  BY <1>4, <1>5, <1>6 DEF Parked, new

(* and when its first n leave, of whom those that are alive stop waiting.  *)
LEMMA ParkedAfter ==
  ASSUME NEW T, NEW seq \in Seq(T), NEW n \in 0 .. Len(seq), NEW kind,
         NEW L, NEW B, NEW w, NEW x, Parked(seq, kind, L, B, w),
         \A q \in L : \/ x[q] = w[q] /\ \A i \in 1 .. n : seq[i].process # q
                      \/ x[q] # kind /\ \E i \in 1 .. n : seq[i].process = q
  PROVE  Parked(After(seq, n), kind, L, B, x)
<1> DEFINE new == After(seq, n)
           N == Len(seq)
<1>1. Len(new) = N - n /\ \A i \in 1 .. N - n : new[i] = seq[i + n]
  BY AfterDef
<1> HIDE DEF new
<1>2. N \in Nat /\ n \in Nat /\ n <= N
  BY SMT
<1> HIDE DEF N
<1>3. \A i, j \in 1 .. N : seq[i].process = seq[j].process /\ seq[i].process \in L => i = j
  BY DEF Parked, N
<1>4. \A i \in 1 .. Len(new) : new[i] = seq[i + n] /\ i + n \in 1 .. N /\ i \in Nat /\ i + n > n
  BY <1>1, <1>2, SMT
<1>5. \A i \in 1 .. n : i \in 1 .. N /\ i \in Nat /\ i <= n
  BY <1>2, SMT
<1>6. ASSUME NEW i \in 1 .. Len(new), new[i].process \in L
      PROVE  x[new[i].process] = w[new[i].process]
  <2>1. ASSUME NEW j \in 1 .. n, seq[j].process = new[i].process PROVE FALSE
    <3>1. j = i + n
      BY <1>4, <1>5, <1>6, <1>3, <2>1
    <3> QED
      BY <1>2, <1>4, <1>5, <3>1, SMT
  <2> QED
    BY <1>6, <2>1
<1>7. ASSUME NEW i \in 1 .. Len(new)
      PROVE  new[i].process \in B /\ (new[i].process \in L => x[new[i].process] = kind)
  <2>1. \A k \in 1 .. N : seq[k].process \in B /\ (seq[k].process \in L => w[seq[k].process] = kind)
    BY DEF Parked, N
  <2>2. new[i] = seq[i + n] /\ i + n \in 1 .. N
    BY <1>4
  <2>3. new[i].process \in B /\ (new[i].process \in L => w[new[i].process] = kind)
    BY <2>1, <2>2
  <2> QED
    BY <1>6, <2>3
<1>8. ASSUME NEW i \in 1 .. Len(new), NEW j \in 1 .. Len(new),
             new[i].process = new[j].process, new[i].process \in L
      PROVE  i = j
  <2>0. /\ new[i] = seq[i + n] /\ i + n \in 1 .. N
        /\ new[j] = seq[j + n] /\ j + n \in 1 .. N
    BY <1>4
  <2>1. i + n = j + n
    BY <1>8, <1>3, <2>0
  <2> QED
    BY <1>2, <1>4, <2>1, SMT
<1>9. ASSUME NEW p \in L, x[p] = kind PROVE \E i \in 1 .. Len(new) : new[i].process = p
  <2>1. w[p] = kind /\ \A i \in 1 .. n : seq[i].process # p
    BY <1>9
  <2>2. PICK i \in 1 .. N : seq[i].process = p
    BY <2>1 DEF Parked, N
  <2>3. i \notin 1 .. n
    BY <2>1, <2>2
  <2>4. i - n \in 1 .. Len(new) /\ (i - n) + n = i
    BY <1>1, <1>2, <2>3, SMT
  <2> QED
    BY <1>4, <2>2, <2>4
<1> QED
  BY <1>7, <1>8, <1>9 DEF Parked, new


(* What a step keeps that forks and ends nobody.                           *)
LEMMA CalmFamilies ==
  ASSUME WaitInv, Live' = Live, Same("join"), Same("children"), Same("process"),
         UNCHANGED <<parent, detached, fork_groups, waiting_for_children, waiting_process>>
  PROVE  Joining' /\ Outlasting' /\ Awaiting'
<1> USE DEF WaitInv, Same
<1>1. \A p : LiveChildren(p)' = LiveChildren(p)
  BY DEF LiveChildren
<1>2. Joining'
  BY <1>1 DEF Joining
<1>3. \A p : Childless(p, {})' <=> Childless(p, {})
  BY <1>1 DEF Childless
<1>4. Outlasting'
  BY <1>3 DEF Outlasting
<1>5. Awaiting'
  BY DEF Awaiting
<1> QED
  BY <1>2, <1>4, <1>5

(* A step that leaves the event and those who wait for it alone.           *)
LEMMA CalmEvent ==
  ASSUME WaitInv, Live' = Live, Born' = Born, Same("event"),
         UNCHANGED <<program, event_waiters, pending_dynamic_event>>,
         \A q \in Live : wait[q] = "event" => status'[q] = status[q]
  PROVE  Listening'
BY DEF WaitInv, Listening, Same, Positions

(* A step that leaves a queue and those who wait in it alone.              *)
LEMMA CalmQueues ==
  ASSUME WaitInv, Live' = Live, Born' = Born
  PROVE  /\ UNCHANGED readers /\ Same("get") => Parked(readers, "get", Live, Born, wait)'
         /\ UNCHANGED writers /\ Same("put") => Parked(writers, "put", Live, Born, wait)'
         /\ UNCHANGED waiters /\ Same("semaphore") => Parked(waiters, "semaphore", Live, Born, wait)'
<1>1. ASSUME NEW seq, NEW kind, Parked(seq, kind, Live, Born, wait), Same(kind)
      PROVE  Parked(seq, kind, Live', Born', wait')
  BY <1>1, ParkedStays DEF Same
<1>2. ASSUME UNCHANGED readers, Same("get") PROVE Parked(readers, "get", Live, Born, wait)'
  <2>1. Parked(readers, "get", Live', Born', wait')
    BY <1>1, <1>2 DEF WaitInv
  <2> QED
    BY <1>2, <2>1
<1>3. ASSUME UNCHANGED writers, Same("put") PROVE Parked(writers, "put", Live, Born, wait)'
  <2>1. Parked(writers, "put", Live', Born', wait')
    BY <1>1, <1>3 DEF WaitInv
  <2> QED
    BY <1>3, <2>1
<1>4. ASSUME UNCHANGED waiters, Same("semaphore") PROVE Parked(waiters, "semaphore", Live, Born, wait)'
  <2>1. Parked(waiters, "semaphore", Live', Born', wait')
    BY <1>1, <1>4 DEF WaitInv
  <2> QED
    BY <1>4, <2>1
<1> QED
  BY <1>2, <1>3, <1>4

(* Where nobody starts or stops waiting at all.                            *)
LEMMA CalmWaits ==
  ASSUME WaitInv, Live' = Live, Born' = Born, UNCHANGED <<wait, forkVars, waiting_process, objectVars>>,
         \A q \in Live : wait[q] = "event" => status'[q] = status[q],
         Scheduled', Marked'
  PROVE  WaitInv'
<1> USE DEF forkVars, objectVars, mailboxVars, semaphoreVars, eventVars
<1>1. \A kind : Same(kind)
  BY DEF Same
<1>2. Joining' /\ Outlasting' /\ Awaiting'
  BY <1>1, CalmFamilies
<1>3. Listening'
  BY <1>1, CalmEvent
<1>4. WaitType'
  BY DEF WaitInv, WaitType
<1>5. /\ Parked(readers, "get", Live, Born, wait)'
      /\ Parked(writers, "put", Live, Born, wait)'
      /\ Parked(waiters, "semaphore", Live, Born, wait)'
  BY <1>1, CalmQueues
<1> QED
  BY <1>2, <1>3, <1>4, <1>5 DEF WaitInv

(* The caller waits: it is not queued, unless for the end of its delay.    *)
LEMMA CallerWaits ==
  ASSUME WaitInv, FamilyInv, NEW p \in Live, current = p, NEW kind \in Kinds \ {"none"},
         WaitsAt(p, kind), UNCHANGED <<halted, timer_epoch, program, suspendVars>>,
         kind # "delay" => queue' = queue,
         kind = "delay" =>
           queue' = queue \cup {[process |-> p, timed |-> TRUE, epoch |-> timer_epoch[p]]}
  PROVE  /\ Live' = Live /\ Born' = Born /\ Scheduled' /\ Marked'
         /\ wait' \in [Processes -> Kinds] /\ wait[p] = "none" /\ wait'[p] = kind
         /\ \A q \in Processes \ {p} : wait'[q] = wait[q]
         /\ \A k \in Kinds \ {"none", kind} : Same(k)
         /\ \A q \in Live : wait[q] = "event" => status'[q] = status[q]
<1> USE DEF suspendVars
<1>1. /\ p \in Processes /\ Live \subseteq Processes /\ 0 \notin Processes
      /\ \A w \in queue : w.process \in Live
  BY ProcessAssumption DEF Live, Born, FamilyInv
<1>2. WaitType /\ Scheduled /\ Marked
  BY DEF WaitInv
<1>3. wait \in [Processes -> Kinds] /\ status \in [Processes -> Statuses]
  BY <1>2 DEF WaitType, FamilyInv, ProcessType
<1>4. /\ status' = [status EXCEPT ![p] = "waiting"] /\ wait' = [wait EXCEPT ![p] = kind]
      /\ current' = 0
  BY DEF WaitsAt
<1>5. /\ wait' \in [Processes -> Kinds] /\ wait'[p] = kind /\ status'[p] = "waiting"
      /\ \A q \in Processes \ {p} : wait'[q] = wait[q] /\ status'[q] = status[q]
  BY <1>1, <1>3, <1>4
<1>6. wait[p] = "none" /\ ~Waked(p) /\ p \notin suspended
  BY <1>1, <1>2 DEF Scheduled
<1>7. Born' = Born /\ Live' = Live
  <2>1. Born' = Born
    BY <1>1, <1>5 DEF Born, Live
  <2> QED
    BY <2>1 DEF Live
<1>8. \A k \in Kinds \ {"none", kind} : Same(k)
  BY <1>1, <1>5, <1>6 DEF Same
<1>9. \A q \in Live : wait[q] = "event" => status'[q] = status[q]
  BY <1>1, <1>5, <1>6
<1>10. Marked'
  <2>1. p \notin halted /\ \A q \in halted : q \in Processes
    BY DEF Live, FamilyInv, Born
  <2>2. suspended \subseteq Processes
    BY <1>1 DEF FamilyInv
  <2>3. \A q \in suspended : Runnable(q)' <=> Runnable(q)
    BY DEF Runnable
  <2> QED
    BY <1>1, <1>2, <1>5, <1>6, <1>7, <2>1, <2>2, <2>3 DEF Marked
<1>11. Scheduled'
  <2>1. ASSUME NEW w \in queue'
        PROVE  Valid(w)' /\ wait'[w.process] = IF w.timed THEN "delay" ELSE "none"
    <3>1. CASE w \in queue
      <4>1. w.process \in Processes \ {p}
        BY <1>1, <1>6, <3>1 DEF Waked
      <4> QED
        BY <1>2, <1>5, <3>1, <4>1 DEF Scheduled, Valid
    <3>2. CASE kind = "delay" /\ w = [process |-> p, timed |-> TRUE, epoch |-> timer_epoch[p]]
      BY <1>5, <3>2 DEF Valid
    <3> QED
      BY <3>1, <3>2
  <2>2. ASSUME NEW v \in queue', NEW w \in queue', v.process = w.process PROVE v = w
    <3> DEFINE new == [process |-> p, timed |-> TRUE, epoch |-> timer_epoch[p]]
    <3>1. new.process = p
      OBVIOUS
    <3>2. \A u \in queue' : u \in queue \/ u = new
      OBVIOUS
    <3>3. \A u \in queue : u.process # p
      BY <1>6 DEF Waked
    <3> HIDE DEF new
    <3> QED
      BY <1>2, <2>2, <3>1, <3>2, <3>3 DEF Scheduled
  <2>3. \A q \in Live : Waked(q) => Waked(q)'
    BY DEF Waked
  <2>4. ASSUME kind = "delay" PROVE Waked(p)'
    <3> DEFINE new == [process |-> p, timed |-> TRUE, epoch |-> timer_epoch[p]]
    <3>1. new \in queue' /\ new.process = p
      BY <2>4
    <3> HIDE DEF new
    <3> QED
      BY <3>1 DEF Waked
  <2>5. \A q \in Live : wait'[q] = "delay" => Waked(q)'
    BY <1>1, <1>2, <1>5, <2>3, <2>4 DEF Scheduled
  <2>6. ASSUME NEW q \in Live, wait'[q] = "none"
        PROVE  Waked(q)' \/ (q \in suspended /\ Runnable(q))
    <3>1. q # p /\ wait[q] = "none"
      BY <1>1, <1>5, <2>6
    <3> QED
      BY <1>2, <2>3, <3>1 DEF Scheduled
  <2> QED
    BY <1>4, <1>7, <2>1, <2>2, <2>5, <2>6 DEF Scheduled, Runnable
<1> QED
  BY <1>5, <1>6, <1>7, <1>8, <1>9, <1>10, <1>11

(* Processes that wait at an operation are woken by it: each once, as a    *)
(* process that waits is not queued.                                       *)
LEMMA Wakes ==
  ASSUME WaitInv, FamilyInv, NEW p \in Live \cup {0}, current = p, NEW W, NEW kind,
         Waking(p, W, kind), \A q \in W \cap Live : wait[q] = kind /\ kind \notin {"none", "delay"}
  PROVE  /\ Live' = Live /\ Born' = Born /\ Scheduled' /\ Marked'
         /\ wait' \in [Processes -> Kinds]
         /\ \A q \in Processes : wait'[q] = IF q \in W \cap Live THEN "none" ELSE wait[q]
         /\ \A k \in Kinds \ {"none", kind} : Same(k)
         /\ \A q \in Live \ W : status'[q] = status[q]
<1>1. /\ Live \subseteq Processes /\ 0 \notin Processes
      /\ \A w \in queue : w.process \in Live
  BY ProcessAssumption DEF Live, Born, FamilyInv
<1>2. WaitType /\ Scheduled /\ Marked
  BY DEF WaitInv
<1>3. wait \in [Processes -> Kinds] /\ status \in [Processes -> Statuses]
  BY <1>2 DEF WaitType, FamilyInv, ProcessType
<1>4. UNCHANGED <<halted, timer_epoch, program, suspended, suspended_wake, suspended_status>>
  BY DEF Waking, UnchangedFamily, forkVars, suspendVars
<1>5. /\ \A q \in Processes : wait'[q] = IF q \in W \cap Live THEN "none" ELSE wait[q]
      /\ \A q \in Processes : status'[q] = IF q \in W \cap Live THEN "running" ELSE status[q]
      /\ wait' \in [Processes -> Kinds]
  BY <1>3 DEF Waking, Kinds
<1>6. Born' = Born /\ Live' = Live
  <2>1. Born' = Born
    BY <1>5 DEF Born, Live
  <2> QED
    BY <1>4, <2>1 DEF Live
<1>7. \A q \in W \cap Live : ~Waked(q) /\ q # p
  BY <1>1, <1>2, SMT DEF Scheduled, Waked
<1>8. queue' = queue \cup {Wake(q) : q \in W \cap Live}
  <2>1. \A q \in W \cap Live : ~Queued(q)
    BY <1>7 DEF Waked, Queued
  <2> QED
    BY <2>1 DEF Waking, WakesFor
<1>9. current' = p
  <2>1. p \in Live => ~Queued(p) /\ p \notin W
    BY <1>1, <1>2, <1>7 DEF Scheduled, Waked, Queued
  <2> QED
    BY <2>1 DEF Waking
<1>10. Marked'
  <2>1. \A q \in suspended : Runnable(q)' <=> Runnable(q)
    BY <1>4 DEF Runnable
  <2>2. suspended \subseteq Processes /\ \A q \in halted : q \in Processes \ Live
    BY <1>1 DEF FamilyInv, Live, Born
  <2> QED
    BY <1>1, <1>2, <1>4, <1>5, <1>6, <2>1, <2>2 DEF Marked
<1>11. Scheduled'
  <2>1. ASSUME NEW w \in queue'
        PROVE  Valid(w)' /\ wait'[w.process] = IF w.timed THEN "delay" ELSE "none"
    <3>1. CASE w \in queue
      <4>1. w.process \in Processes /\ w.process \notin W \cap Live
        BY <1>1, <1>7, <3>1 DEF Waked
      <4> QED
        BY <1>2, <1>4, <1>5, <3>1, <4>1 DEF Scheduled, Valid
    <3>2. ASSUME NEW q \in W \cap Live, w = Wake(q)
          PROVE  Valid(w)' /\ wait'[w.process] = IF w.timed THEN "delay" ELSE "none"
      BY <1>1, <1>5, <3>2 DEF Valid, Wake
    <3> QED
      BY <1>8, <3>1, <3>2
  <2>2. ASSUME NEW v \in queue', NEW w \in queue', v.process = w.process PROVE v = w
    <3>1. \A u \in queue' : u \in queue \/ (u.process \in W \cap Live /\ u = Wake(u.process))
      BY <1>8, SMT DEF Wake
    <3>2. \A u \in queue : u.process \notin W \cap Live
      BY <1>7 DEF Waked
    <3> QED
      BY <1>2, <2>2, <3>1, <3>2 DEF Scheduled
  <2>3. \A q \in Live : Waked(q) => Waked(q)'
    BY <1>8 DEF Waked
  <2>4. ASSUME NEW q \in W \cap Live PROVE Waked(q)'
    <3>1. Wake(q) \in queue' /\ Wake(q).process = q
      BY <1>8 DEF Wake
    <3> QED
      BY <3>1 DEF Waked
  <2>5. p # 0 => wait'[p] = "none" /\ status'[p] = "running" /\ ~Waked(p)' /\ p \notin suspended
    <3>1. ASSUME p # 0
          PROVE  /\ p \in Live /\ wait[p] = "none" /\ status[p] = "running"
                 /\ ~Waked(p) /\ p \notin suspended
      BY <1>2, <3>1 DEF Scheduled
    <3> QED
      BY <1>1, <1>5, <1>7, <1>8, <3>1, SMT DEF Waked, Wake
  <2>6. \A q \in Live : wait'[q] = "delay" => Waked(q)'
    BY <1>1, <1>2, <1>5, <2>3 DEF Scheduled
  <2>7. ASSUME NEW q \in Live, wait'[q] = "none"
        PROVE  q = p \/ Waked(q)' \/ (q \in suspended /\ Runnable(q))
    BY <1>1, <1>2, <1>5, <2>3, <2>4, <2>7 DEF Scheduled
  <2> QED
    BY <1>4, <1>6, <1>9, <2>1, <2>2, <2>5, <2>6, <2>7 DEF Scheduled, Runnable
<1>12. \A k \in Kinds \ {"none", kind} : Same(k)
  BY <1>1, <1>5 DEF Same
<1>13. \A q \in Live \ W : status'[q] = status[q]
  BY <1>1, <1>5
<1> QED
  BY <1>5, <1>6, <1>10, <1>11, <1>12, <1>13

(* The caller goes back to the scheduler.                                  *)
LEMMA CallerRequeued ==
  ASSUME WaitInv, FamilyInv, NEW p \in Live, current = p, Requeue(p), Live' = Live,
         UNCHANGED <<wait, timer_epoch>>,
         \A q \in suspended : q \in suspended' /\ (Runnable(q) => Runnable(q)')
  PROVE  Scheduled'
<1>1. p \in Processes /\ 0 \notin Processes /\ Scheduled
  BY ProcessAssumption DEF Live, Born, WaitInv
<1>2. wait[p] = "none" /\ \A w \in queue : w.process # p
  BY <1>1 DEF Scheduled, Waked
<1>3. queue' = queue \cup {Wake(p)} /\ current' = 0
  <2>1. ~Queued(p)
    BY <1>2 DEF Queued
  <2> QED
    BY <2>1 DEF Requeue, WakesFor
<1>4. Wake(p).process = p /\ ~Wake(p).timed
  BY DEF Wake
<1>5. \A w \in queue' : Valid(w)' /\ wait'[w.process] = IF w.timed THEN "delay" ELSE "none"
  BY <1>1, <1>2, <1>3, <1>4 DEF Scheduled, Valid
<1>6. \A v, w \in queue' : v.process = w.process => v = w
  BY <1>1, <1>2, <1>3, <1>4, SMT DEF Scheduled
<1>7. Waked(p)' /\ \A q \in Live : Waked(q) => Waked(q)'
  BY <1>3, <1>4 DEF Waked
<1>8. \A q \in Live : wait[q] = "delay" => Waked(q)'
  BY <1>1, <1>7 DEF Scheduled
<1>9. \A q \in Live : wait[q] = "none" => Waked(q)' \/ (q \in suspended' /\ Runnable(q)')
  BY <1>1, <1>7 DEF Scheduled
<1> QED
  BY <1>3, <1>5, <1>6, <1>8, <1>9 DEF Scheduled

(* The scheduler runs a wake, which is the only one of its process.        *)
LEMMA RunWaits ==
  ASSUME WaitInv, FamilyInv, NEW w \in queue, Run(w), UNCHANGED objectVars
  PROVE  WaitInv'
<1> DEFINE p == w.process
<1>1. /\ p \in Live /\ Live \subseteq Processes /\ 0 \notin Processes
      /\ \A v \in queue : v.process \in Live
  BY ProcessAssumption DEF Live, Born, FamilyInv
<1>2. WaitType /\ Scheduled /\ Marked
  BY DEF WaitInv
<1>3. wait \in [Processes -> Kinds] /\ status \in [Processes -> Statuses]
  BY <1>2 DEF WaitType, FamilyInv, ProcessType
<1>4. /\ Valid(w) /\ current = 0 /\ queue' = queue \ {w}
      /\ wait[p] = IF w.timed THEN "delay" ELSE "none"
      /\ \A v \in queue' : v.process # p
  BY <1>2 DEF Run, Scheduled
<1>5. /\ UNCHANGED <<halted, timer_epoch, program, parent, detached, fork_groups,
                     waiting_for_children, waiting_process, suspended, suspended_status>>
      /\ wait' = IF w.timed THEN [wait EXCEPT ![p] = "none"] ELSE wait
  BY <1>4 DEF Run, forkVars
<1>6. \/ /\ p \in suspended /\ suspended_wake' = suspended_wake \cup {p}
         /\ current' = 0 /\ status' = status
      \/ /\ p \notin suspended /\ suspended_wake' = suspended_wake
         /\ current' = p /\ status' = [status EXCEPT ![p] = "running"]
  BY <1>4 DEF Run
<1> HIDE DEF p
<1>7. /\ wait' \in [Processes -> Kinds] /\ wait'[p] = "none"
      /\ \A q \in Processes \ {p} : wait'[q] = wait[q]
  BY <1>1, <1>3, <1>4, <1>5 DEF Kinds
<1>8. \A q \in Processes \ {p} : status'[q] = status[q]
  BY <1>1, <1>3, <1>6
<1>9. status'[p] \in {status[p], "running"}
  BY <1>1, <1>3, <1>6
<1>10. Born' = Born /\ Live' = Live
  <2>1. Born' = Born
    BY <1>1, <1>8, <1>9 DEF Born, Live
  <2> QED
    BY <1>5, <2>1 DEF Live
<1>11. \A k \in Kinds \ {"none", "delay"} : Same(k)
  BY <1>1, <1>4, <1>7 DEF Same
<1>12. /\ \A q \in suspended : Runnable(q)' => Runnable(q) \/ q = p
       /\ \A q \in suspended : Runnable(q) => Runnable(q)'
       /\ p \in suspended => Runnable(p)'
  BY <1>5, <1>6 DEF Runnable
<1>13. Marked'
  <2>1. p \notin halted /\ \A q \in halted : q \in Processes
    BY <1>1 DEF Live, FamilyInv, Born
  <2>2. suspended \subseteq Processes
    BY <1>1 DEF FamilyInv
  <2>3. suspended_wake' \subseteq suspended
    BY <1>2, <1>6 DEF Marked
  <2>4. \A q \in Processes \ Live : wait'[q] = "none"
    BY <1>1, <1>2, <1>7 DEF Marked
  <2>5. \A q \in suspended : "suspendable" \in program[q] /\ (Runnable(q)' => wait'[q] = "none")
    BY <1>2, <1>7, <1>12, <2>2 DEF Marked
  <2>6. \A q \in Live : status'[q] = "running" => wait'[q] = "none"
    BY <1>1, <1>2, <1>7, <1>8 DEF Marked
  <2>7. \A q \in halted : status'[q] \in {"finished", "killed"}
    BY <1>2, <1>8, <2>1 DEF Marked
  <2> QED
    BY <1>5, <1>10, <2>3, <2>4, <2>5, <2>6, <2>7 DEF Marked
<1>14. Scheduled'
  <2>1. \A v \in queue' : Valid(v)' /\ wait'[v.process] = IF v.timed THEN "delay" ELSE "none"
    BY <1>1, <1>2, <1>4, <1>5, <1>7 DEF Scheduled, Valid
  <2>2. \A u, v \in queue' : u.process = v.process => u = v
    BY <1>2, <1>4 DEF Scheduled
  <2>3. \A q \in Live \ {p} : Waked(q) => Waked(q)'
    BY <1>4 DEF Waked, p
  <2>4. current' # 0 => /\ wait'[current'] = "none" /\ status'[current'] = "running"
                        /\ ~Waked(current)' /\ current' \notin suspended
    BY <1>1, <1>3, <1>4, <1>6, <1>7 DEF Waked
  <2>5. \A q \in Live : wait'[q] = "delay" => Waked(q)'
    BY <1>1, <1>2, <1>7, <2>3 DEF Scheduled
  <2>6. ASSUME NEW q \in Live, wait'[q] = "none"
        PROVE  q = current' \/ Waked(q)' \/ (q \in suspended /\ Runnable(q)')
    <3>1. CASE q = p
      BY <1>6, <1>12, <3>1
    <3>2. CASE q # p
      <4>1. wait[q] = "none" /\ q # current
        BY <1>1, <1>4, <1>7, <2>6, <3>2
      <4> QED
        BY <1>2, <1>12, <2>3, <3>2, <4>1 DEF Scheduled
    <3> QED
      BY <3>1, <3>2
  <2> QED
    BY <1>5, <1>10, <2>1, <2>2, <2>4, <2>5, <2>6 DEF Scheduled
<1>15. \A q \in Live : wait[q] = "event" => status'[q] = status[q]
  BY <1>1, <1>4, <1>8
<1>16. Joining' /\ Outlasting' /\ Awaiting'
  BY <1>5, <1>10, <1>11, CalmFamilies DEF Kinds
<1>17. Listening'
  BY <1>5, <1>10, <1>11, <1>15, CalmEvent DEF Kinds, objectVars, eventVars
<1>18. /\ Parked(readers, "get", Live, Born, wait)'
       /\ Parked(writers, "put", Live, Born, wait)'
       /\ Parked(waiters, "semaphore", Live, Born, wait)'
  BY <1>10, <1>11, CalmQueues DEF Kinds, objectVars, mailboxVars, semaphoreVars
<1>19. WaitType'
  BY <1>2, <1>5, <1>7 DEF WaitType, objectVars, mailboxVars, eventVars
<1> QED
  BY <1>13, <1>14, <1>16, <1>17, <1>18, <1>19 DEF WaitInv

(* suspend keeps whether its target waits, and never hits one that waits   *)
(* for an event.                                                           *)
LEMMA SuspendWaits ==
  ASSUME Undisturbed, WaitInv, FamilyInv, NEW p \in Processes, NEW target \in Processes,
         Suspend(p, target), UNCHANGED objectVars
  PROVE  WaitInv'
<1>1. /\ p \in Live /\ current = p /\ p # 0 /\ Live \subseteq Processes
      /\ "suspendable" \in program[target]
  BY ProcessAssumption DEF Suspend, Executes, Live, Born
<1>2. WaitType /\ Scheduled /\ Marked
  BY DEF WaitInv
<1>3. /\ status \in [Processes -> Statuses] /\ suspended_status \in [Processes -> Statuses]
      /\ suspended \subseteq Live
  BY <1>2 DEF FamilyInv, ProcessType
<1>4. UNCHANGED <<halted, wait, timer_epoch, forkVars, waiting_process, suspended_wake>>
  BY DEF Suspend
<1>5. wait[p] = "none" /\ status[p] = "running" /\ ~Waked(p) /\ p \notin suspended
  BY <1>1, <1>2 DEF Scheduled
<1>6. target \in Live => wait[target] # "event"
  BY <1>1, <1>2 DEF WaitType, Undisturbed, WaitInv, Listening
<1>7. CASE target \in Live \ suspended
  <2>1. /\ suspended_status' = [suspended_status EXCEPT ![target] = status[target]]
        /\ status' = [status EXCEPT ![target] = "suspended"]
        /\ suspended' = suspended \cup {target}
    BY <1>7 DEF Suspend
  <2>2. /\ suspended_status'[target] = status[target] /\ status'[target] = "suspended"
        /\ \A q \in Processes \ {target} : suspended_status'[q] = suspended_status[q] /\ status'[q] = status[q]
    BY <1>3, <2>1
  <2>3. Born' = Born /\ Live' = Live
    <3>1. Born' = Born
      BY <1>7, <2>2 DEF Born, Live
    <3> QED
      BY <1>4, <3>1 DEF Live
  <2>4. /\ \A q \in suspended : q \in suspended' /\ (Runnable(q)' <=> Runnable(q))
        /\ Runnable(target)' <=> status[target] = "running"
    <3>1. \A q \in suspended : q # target /\ q \in Processes
      BY <1>1, <1>3, <1>7
    <3>2. target \notin suspended_wake
      BY <1>2, <1>7 DEF Marked
    <3> QED
      BY <1>4, <2>1, <2>2, <3>1, <3>2 DEF Runnable
  <2>5. Marked'
    <3>1. \A q \in Live : status'[q] = "running" => wait[q] = "none"
      BY <1>1, <1>2, <2>2 DEF Marked
    <3>2. \A q \in halted : status'[q] \in {"finished", "killed"}
      <4>1. \A q \in halted : q \in Processes \ {target}
        BY <1>7 DEF Live, FamilyInv, Born
      <4> QED
        BY <1>2, <2>2, <4>1 DEF Marked
    <3>3. \A q \in suspended' : "suspendable" \in program[q] /\ (Runnable(q)' => wait[q] = "none")
      BY <1>1, <1>2, <1>7, <2>1, <2>4 DEF Marked
    <3> QED
      BY <1>2, <1>4, <2>1, <2>3, <3>1, <3>2, <3>3 DEF Marked, forkVars
  <2>6. Scheduled'
    <3>1. CASE target = p
      <4>1. current' = 0 /\ queue' = queue
        BY <3>1 DEF Suspend
      <4>2. \A q \in Live : Waked(q)' <=> Waked(q)
        BY <4>1 DEF Waked
      <4>3. \A w \in queue : Valid(w)' <=> Valid(w)
        BY <1>4 DEF Valid
      <4>4. Runnable(p)' /\ p \in suspended'
        BY <1>5, <2>1, <2>4, <3>1
      <4> QED
        BY <1>1, <1>2, <1>4, <2>3, <2>4, <4>1, <4>2, <4>3, <4>4 DEF Scheduled
    <3>2. CASE target # p
      <4>1. Requeue(p)
        BY <3>2 DEF Suspend
      <4> QED
        BY <1>1, <1>4, <2>3, <2>4, <4>1, CallerRequeued
    <3> QED
      BY <3>1, <3>2
  <2>7. \A q \in Live : wait[q] = "event" => status'[q] = status[q]
    BY <1>1, <1>6, <2>2
  <2> QED
    BY <1>4, <2>3, <2>5, <2>6, <2>7, CalmWaits
<1>8. CASE target \notin Live \ suspended
  <2>1. UNCHANGED <<suspended_status, status, suspended>>
    BY <1>8 DEF Suspend
  <2>2. Born' = Born /\ Live' = Live
    BY <1>4, <2>1 DEF Live, Born
  <2>3. \A q : Runnable(q)' <=> Runnable(q)
    BY <1>4, <2>1 DEF Runnable
  <2>4. target # p /\ Requeue(p)
    BY <1>1, <1>5, <1>8 DEF Suspend
  <2>5. Scheduled'
    BY <1>1, <1>4, <2>1, <2>2, <2>3, <2>4, CallerRequeued
  <2>6. Marked'
    BY <1>2, <1>4, <2>1, <2>2, <2>3 DEF Marked, forkVars
  <2> QED
    BY <1>4, <2>1, <2>2, <2>5, <2>6, CalmWaits
<1> QED
  BY <1>7, <1>8

(* resume queues its target exactly if it waits for nothing.               *)
LEMMA ResumeWaits ==
  ASSUME Undisturbed, WaitInv, FamilyInv, NEW p \in Processes, NEW target \in Processes,
         Resume(p, target), UNCHANGED objectVars
  PROVE  WaitInv'
<1>1. /\ p \in Live /\ current = p /\ p # 0 /\ Live \subseteq Processes /\ target \in suspended
  BY ProcessAssumption DEF Resume, Executes, Live, Born
<1>2. WaitType /\ Scheduled /\ Marked
  BY DEF WaitInv
<1>3. /\ status \in [Processes -> Statuses] /\ suspended_status \in [Processes -> Statuses]
      /\ suspended \subseteq Live
  BY <1>2 DEF FamilyInv, ProcessType
<1>4. /\ UNCHANGED <<current, halted, wait, timer_epoch, forkVars, waiting_process, suspended_status>>
      /\ suspended' = suspended \ {target} /\ suspended_wake' = suspended_wake \ {target}
      /\ status' = [status EXCEPT ![target] = IF Runnable(target) THEN "running"
                                              ELSE suspended_status[target]]
      /\ queue' = queue \cup IF Runnable(target) THEN WakesFor({target}) ELSE {}
  BY DEF Resume, Runnable
<1>5. target # p /\ target \in Live /\ wait[target] # "event" /\ (Runnable(target) => wait[target] = "none")
  BY <1>1, <1>2, <1>3 DEF Scheduled, Marked, WaitType, Undisturbed, WaitInv, Listening
<1>6. /\ status'[target] = IF Runnable(target) THEN "running" ELSE suspended_status[target]
      /\ \A q \in Processes \ {target} : status'[q] = status[q]
  BY <1>3, <1>4
<1>7. status'[target] = "running" <=> Runnable(target)
  BY <1>6 DEF Runnable
<1>8. Born' = Born /\ Live' = Live
  <2>1. Born' = Born
    BY <1>1, <1>5, <1>6 DEF Born, Live, FamilyInv
  <2> QED
    BY <1>4, <2>1 DEF Live
<1>9. \A q \in suspended' : Runnable(q)' <=> Runnable(q)
  BY <1>4 DEF Runnable
<1>10. Marked'
  <2>1. \A q \in Live : status'[q] = "running" => wait[q] = "none"
    BY <1>1, <1>2, <1>5, <1>6, <1>7 DEF Marked
  <2>2. \A q \in halted : q \in Processes \ {target}
    BY <1>5 DEF Live, FamilyInv, Born
  <2>3. \A q \in halted : status'[q] \in {"finished", "killed"}
    BY <1>2, <1>6, <2>2 DEF Marked
  <2> QED
    BY <1>2, <1>4, <1>8, <1>9, <2>1, <2>3 DEF Marked, forkVars
<1>11. Scheduled'
  <2>1. \A w \in queue' : w \in queue \/ (w = Wake(target) /\ ~Waked(target) /\ Runnable(target))
    <3>1. ~Queued(target) => ~Waked(target)
      BY <1>2 DEF Scheduled, Queued, Waked
    <3> QED
      BY <1>4, <3>1 DEF WakesFor
  <2>2. Wake(target).process = target /\ ~Wake(target).timed
    BY DEF Wake
  <2>3. \A w \in queue' : Valid(w)' /\ wait[w.process] = IF w.timed THEN "delay" ELSE "none"
    BY <1>2, <1>4, <1>5, <2>1, <2>2 DEF Scheduled, Valid
  <2>4. \A v, w \in queue' : v.process = w.process => v = w
    BY <1>2, <2>1, <2>2 DEF Scheduled, Waked
  <2>5. \A q \in Live : Waked(q) => Waked(q)'
    BY <1>4 DEF Waked
  <2>6. Runnable(target) => Waked(target)'
    <3>1. CASE Queued(target)
      BY <2>5, <1>5, <3>1 DEF Queued, Waked
    <3>2. CASE Runnable(target) /\ ~Queued(target)
      <4>1. Wake(target) \in queue'
        BY <1>4, <1>5, <3>2 DEF WakesFor
      <4> QED
        BY <2>2, <4>1 DEF Waked
    <3> QED
      BY <3>1, <3>2
  <2>7. /\ wait[p] = "none" /\ status'[p] = "running" /\ ~Waked(p)' /\ p \notin suspended'
    <3>1. wait[p] = "none" /\ status[p] = "running" /\ ~Waked(p) /\ p \notin suspended
      BY <1>1, <1>2 DEF Scheduled
    <3>2. ~Waked(p)'
      BY <1>5, <2>1, <2>2, <3>1 DEF Waked
    <3> QED
      BY <1>4, <1>5, <1>6, <3>1, <3>2
  <2>8. \A q \in Live : wait[q] = "delay" => Waked(q)'
    BY <1>2, <2>5 DEF Scheduled
  <2>9. ASSUME NEW q \in Live, wait[q] = "none"
        PROVE  q = p \/ Waked(q)' \/ (q \in suspended' /\ Runnable(q)')
    BY <1>1, <1>2, <1>4, <1>9, <2>5, <2>6, <2>9 DEF Scheduled
  <2>10. Waked(current)' <=> Waked(p)'
    BY <1>1, <1>4 DEF Waked
  <2> QED
    BY <1>1, <1>4, <1>8, <2>3, <2>4, <2>7, <2>8, <2>9, <2>10 DEF Scheduled
<1>12. \A q \in Live : wait[q] = "event" => status'[q] = status[q]
  BY <1>1, <1>5, <1>6
<1> QED
  BY <1>4, <1>8, <1>10, <1>11, <1>12, CalmWaits

(* A process that executes waits for nothing.                              *)
LEMMA CallerFree ==
  ASSUME WaitInv, NEW p \in Live, current = p
  PROVE  /\ wait[p] = "none" /\ status[p] = "running" /\ p # 0
         /\ ~Waked(p) /\ p \notin suspended /\ ~Queued(p)
<1>1. p # 0
  BY ProcessAssumption DEF Live, Born
<1> QED
  BY <1>1 DEF WaitInv, Scheduled, Waked, Queued

(* Where only the scheduler's part and the status stay as they are.        *)
LEMMA StatusSame ==
  ASSUME WaitInv, UNCHANGED <<status, halted, wait, program, suspendVars>>
  PROVE  Live' = Live /\ Born' = Born /\ Marked' /\ \A q : Runnable(q)' <=> Runnable(q)
<1>1. Live' = Live /\ Born' = Born
  BY DEF Live, Born
<1>2. \A q : Runnable(q)' <=> Runnable(q)
  BY DEF Runnable, suspendVars
<1> QED
  BY <1>1, <1>2 DEF WaitInv, Marked, suspendVars

(* wait fork waits for children that are alive.                            *)
LEMMA WaitForkWaits ==
  ASSUME WaitInv, FamilyInv, NEW p \in Processes, WaitFork(p), UNCHANGED objectVars
  PROVE  WaitInv'
<1>1. /\ p \in Live /\ current = p
      /\ UNCHANGED <<program, halted, timer_epoch, parent, detached, fork_groups, site_inside,
                     waiting_process, suspendVars>>
  BY DEF WaitFork, Executes
<1>2. CASE Childless(p, {})
  <2>1. Requeue(p) /\ UNCHANGED <<status, wait, waiting_for_children>>
    BY <1>2 DEF WaitFork
  <2>2. Live' = Live /\ Born' = Born /\ Marked' /\ \A q : Runnable(q)' <=> Runnable(q)
    BY <1>1, <2>1, StatusSame
  <2>3. Scheduled'
    BY <1>1, <2>1, <2>2, CallerRequeued DEF suspendVars
  <2> QED
    BY <1>1, <2>1, <2>2, <2>3, CalmWaits DEF forkVars
<1>3. CASE ~Childless(p, {})
  <2>1. /\ WaitsAt(p, "children") /\ queue' = queue
        /\ waiting_for_children' = waiting_for_children \cup {p}
    BY <1>3 DEF WaitFork
  <2>2. /\ Live' = Live /\ Born' = Born /\ Scheduled' /\ Marked'
        /\ wait' \in [Processes -> Kinds] /\ wait[p] = "none" /\ wait'[p] = "children"
        /\ \A q \in Processes \ {p} : wait'[q] = wait[q]
        /\ \A k \in Kinds \ {"none", "children"} : Same(k)
        /\ \A q \in Live : wait[q] = "event" => status'[q] = status[q]
    BY <1>1, <2>1, CallerWaits DEF Kinds
  <2>3. Same("join") /\ Same("process") /\ Same("get") /\ Same("put") /\ Same("semaphore") /\ Same("event")
    BY <2>2 DEF Kinds
  <2>4. \A q : LiveChildren(q)' = LiveChildren(q)
    BY <1>1, <2>2 DEF LiveChildren
  <2>5. \A q : Childless(q, {})' <=> Childless(q, {})
    BY <1>1, <2>4 DEF Childless
  <2>6. Joining'
    BY <1>1, <2>2, <2>3, <2>4 DEF WaitInv, Joining, Same
  <2>7. Outlasting'
    <3>1. Outlasting /\ Live \subseteq Processes
      BY DEF WaitInv, Live, Born
    <3>2. \A q \in waiting_for_children : q # p
      BY <2>2, <3>1 DEF Outlasting
    <3> QED
      BY <1>1, <1>3, <2>1, <2>2, <2>5, <3>1, <3>2 DEF Outlasting
  <2>8. Awaiting'
    BY <1>1, <2>2, <2>3 DEF WaitInv, Awaiting, Same
  <2>9. Listening'
    BY <1>1, <2>2, <2>3, CalmEvent DEF objectVars, eventVars
  <2>10. /\ Parked(readers, "get", Live, Born, wait)'
         /\ Parked(writers, "put", Live, Born, wait)'
         /\ Parked(waiters, "semaphore", Live, Born, wait)'
    BY <2>2, <2>3, CalmQueues DEF objectVars, mailboxVars, semaphoreVars
  <2>11. WaitType'
    BY <1>1, <2>2 DEF WaitInv, WaitType, objectVars, mailboxVars, eventVars
  <2> QED
    BY <2>2, <2>6, <2>7, <2>8, <2>9, <2>10, <2>11 DEF WaitInv
<1> QED
  BY <1>2, <1>3

(* await waits for a process that is alive: one that has halted is marked. *)
LEMMA AwaitWaits ==
  ASSUME WaitInv, FamilyInv, NEW p \in Processes, NEW target \in Processes, Await(p, target),
         UNCHANGED objectVars
  PROVE  WaitInv'
<1>1. /\ p \in Live /\ current = p /\ target \in Born
      /\ UNCHANGED <<halted, timer_epoch, forkVars, suspendVars>>
  BY DEF Await, Executes
<1>2. UNCHANGED <<program, parent, detached, fork_groups, waiting_for_children>>
  BY <1>1 DEF forkVars
<1>3. CASE status[target] \in {"finished", "killed"}
  <2>1. Requeue(p) /\ UNCHANGED <<status, wait, waiting_process>>
    BY <1>3 DEF Await
  <2>2. Live' = Live /\ Born' = Born /\ Marked' /\ \A q : Runnable(q)' <=> Runnable(q)
    BY <1>1, <1>2, <2>1, StatusSame
  <2>3. Scheduled'
    BY <1>1, <2>1, <2>2, CallerRequeued DEF suspendVars
  <2> QED
    BY <1>1, <2>1, <2>2, <2>3, CalmWaits
<1>4. CASE status[target] \notin {"finished", "killed"}
  <2>1. /\ WaitsAt(p, "process") /\ queue' = queue
        /\ waiting_process' = [waiting_process EXCEPT ![p] = target]
    BY <1>4 DEF Await
  <2>2. /\ Live' = Live /\ Born' = Born /\ Scheduled' /\ Marked'
        /\ wait' \in [Processes -> Kinds] /\ wait[p] = "none" /\ wait'[p] = "process"
        /\ \A q \in Processes \ {p} : wait'[q] = wait[q]
        /\ \A k \in Kinds \ {"none", "process"} : Same(k)
        /\ \A q \in Live : wait[q] = "event" => status'[q] = status[q]
    BY <1>1, <1>2, <2>1, CallerWaits DEF Kinds
  <2>3. Same("join") /\ Same("children") /\ Same("get") /\ Same("put") /\ Same("semaphore") /\ Same("event")
    BY <2>2 DEF Kinds
  <2>4. \A q : LiveChildren(q)' = LiveChildren(q)
    BY <1>2, <2>2 DEF LiveChildren
  <2>5. \A q : Childless(q, {})' <=> Childless(q, {})
    BY <1>2, <2>4 DEF Childless
  <2>6. Joining'
    BY <1>2, <2>2, <2>3, <2>4 DEF WaitInv, Joining, Same
  <2>7. Outlasting'
    BY <1>2, <2>2, <2>3, <2>5 DEF WaitInv, Outlasting, Same
  <2>8. target \in Live
    BY <1>1, <1>4 DEF WaitInv, Marked, Live
  <2>9. /\ waiting_process' \in [Processes -> Processes \cup {0}] /\ waiting_process'[p] = target
        /\ \A q \in Processes \ {p} : waiting_process'[q] = waiting_process[q]
    BY <2>1 DEF WaitInv, WaitType
  <2>10. Awaiting'
    <3>1. Awaiting /\ Live \subseteq Processes
      BY DEF WaitInv, Live, Born
    <3> QED
      BY <1>1, <2>2, <2>8, <2>9, <3>1 DEF Awaiting
  <2>11. Listening'
    BY <1>2, <2>2, <2>3, CalmEvent DEF objectVars, eventVars
  <2>12. /\ Parked(readers, "get", Live, Born, wait)'
         /\ Parked(writers, "put", Live, Born, wait)'
         /\ Parked(waiters, "semaphore", Live, Born, wait)'
    BY <2>2, <2>3, CalmQueues DEF objectVars, mailboxVars, semaphoreVars
  <2>13. WaitType'
    BY <1>2, <2>2, <2>9 DEF WaitInv, WaitType, objectVars, mailboxVars, eventVars
  <2> QED
    BY <2>2, <2>6, <2>7, <2>10, <2>11, <2>12, <2>13 DEF WaitInv
<1> QED
  BY <1>3, <1>4

(* A delay, and the steps that touch no wait at all.                       *)
LEMMA DelayWaits ==
  ASSUME WaitInv, FamilyInv, NEW p \in Processes, Delay(p), UNCHANGED objectVars
  PROVE  WaitInv'
<1>1. /\ p \in Live /\ current = p /\ WaitsAt(p, "delay")
      /\ UNCHANGED <<halted, timer_epoch, forkVars, waiting_process, suspendVars>>
  BY DEF Delay, Executes
<1>2. UNCHANGED <<program, parent, detached, fork_groups, waiting_for_children>>
  BY <1>1 DEF forkVars
<1>3. queue' = queue \cup {[process |-> p, timed |-> TRUE, epoch |-> timer_epoch[p]]}
  BY <1>1, CallerFree DEF Delay
<1>4. /\ Live' = Live /\ Born' = Born /\ Scheduled' /\ Marked' /\ wait' \in [Processes -> Kinds]
      /\ \A k \in Kinds \ {"none", "delay"} : Same(k)
      /\ \A q \in Live : wait[q] = "event" => status'[q] = status[q]
  BY <1>1, <1>2, <1>3, CallerWaits DEF Kinds
<1>5. /\ Same("join") /\ Same("children") /\ Same("process")
      /\ Same("get") /\ Same("put") /\ Same("semaphore") /\ Same("event")
  BY <1>4 DEF Kinds
<1>6. Joining' /\ Outlasting' /\ Awaiting'
  BY <1>1, <1>2, <1>4, <1>5, CalmFamilies
<1>7. Listening'
  BY <1>2, <1>4, <1>5, CalmEvent DEF objectVars, eventVars
<1>8. /\ Parked(readers, "get", Live, Born, wait)'
      /\ Parked(writers, "put", Live, Born, wait)'
      /\ Parked(waiters, "semaphore", Live, Born, wait)'
  BY <1>4, <1>5, CalmQueues DEF objectVars, mailboxVars, semaphoreVars
<1>9. WaitType'
  BY <1>1, <1>2, <1>4 DEF WaitInv, WaitType, objectVars, mailboxVars, eventVars
<1> QED
  BY <1>4, <1>6, <1>7, <1>8, <1>9 DEF WaitInv

(* A step that changes nothing of this keeps the waits.                    *)
LEMMA IdleWaits ==
  ASSUME WaitInv, UNCHANGED <<current, status, halted, wait, queue, timer_epoch, forkVars,
                              waiting_process, suspendVars, objectVars>>
  PROVE  WaitInv'
<1>1. Live' = Live /\ Born' = Born /\ Marked' /\ \A q : Runnable(q)' <=> Runnable(q)
  BY StatusSame DEF forkVars
<1>2. \A q : Waked(q)' <=> Waked(q)
  BY DEF Waked
<1>3. Waked(current)' <=> Waked(current)
  BY DEF Waked
<1>4. \A w : Valid(w)' <=> Valid(w)
  BY DEF Valid
<1>5. Scheduled'
  BY <1>1, <1>2, <1>3, <1>4 DEF WaitInv, Scheduled, suspendVars
<1> QED
  BY <1>1, <1>5, CalmWaits


(* Processes K end.  Whoever waits for one of them is woken exactly when   *)
(* its wait is over, and whoever is not woken still waits for someone who  *)
(* is alive.                                                               *)
LEMMA EndingWaits ==
  ASSUME WaitInv, FamilyInv, NEW K \in SUBSET Live, NEW terminal \in {"finished", "killed"},
         NEW C, current # 0, current \in K \cup C, C \subseteq {current},
         Ending(K, terminal, {}, C), current' = 0,
         \A g \in fork_groups : g.parent \in K => g.children \subseteq K,
         UNCHANGED objectVars
  PROVE  WaitInv'
<1> DEFINE joined == {g.parent : g \in {h \in fork_groups : Over(h, K)}}
           idle == {p \in waiting_for_children : LiveChildren(p) \cap K # {} /\ Childless(p, K)}
           awaiting == {p \in Live : waiting_process[p] \in K}
           woken == (joined \cup idle \cup awaiting) \ K
<1>0. /\ Live \subseteq Processes /\ 0 \notin Processes /\ K \subseteq Processes /\ current \in Live
      /\ \A w \in queue : w.process \in Live
  BY ProcessAssumption DEF Live, Born, FamilyInv
<1>1. /\ WaitType /\ Scheduled /\ Marked /\ Joining /\ Outlasting /\ Awaiting /\ Listening
  BY DEF WaitInv
<1>2. /\ joined \subseteq Live /\ \A q \in joined : wait[q] = "join"
      /\ idle \subseteq Live /\ \A q \in idle : wait[q] = "children"
      /\ awaiting \subseteq Live /\ \A q \in awaiting : wait[q] = "process"
  <2>1. joined \subseteq Live /\ \A q \in joined : wait[q] = "join"
    BY <1>1, SMT DEF Joining
  <2>2. idle \subseteq Live /\ \A q \in idle : wait[q] = "children"
    BY <1>1 DEF Outlasting
  <2>3. \A q \in awaiting : wait[q] = "process"
    BY <1>0, <1>1 DEF Awaiting
  <2> QED
    BY <2>1, <2>2, <2>3
<1>3. /\ halted' = halted \cup K
      /\ status' = [p \in Processes |-> IF p \in K THEN terminal
                      ELSE IF p \in woken THEN "running" ELSE status[p]]
      /\ UNCHANGED <<program, suspended_status, parent, detached>>
      /\ suspended' = suspended \ K /\ suspended_wake' = suspended_wake \ K
      /\ fork_groups' = {[g EXCEPT !.children = @ \ K] : g \in {h \in fork_groups : ~Over(h, K)}}
      /\ waiting_for_children' = waiting_for_children \ (K \cup idle)
      /\ waiting_process' = [p \in Processes |->
           IF p \in K \cup awaiting THEN 0 ELSE waiting_process[p]]
  BY DEF Ending
<1>4. wait' = [p \in Processes |->
         IF \/ p \in K
            \/ p \in joined /\ wait[p] = "join"
            \/ p \in idle /\ wait[p] = "children"
            \/ p \in awaiting /\ wait[p] = "process"
         THEN "none" ELSE wait[p]]
  BY DEF Ending
<1>5. \A p \in Processes : timer_epoch'[p] = timer_epoch[p]
  BY DEF Ending
<1>6. /\ \A w \in queue' : \/ w \in queue /\ w.process \notin K
                           \/ \E p \in (Live \ K) \cap (woken \cup C) : w = Wake(p)
      /\ \A w \in queue : w.process \notin K => w \in queue'
      /\ \A p \in (Live \ K) \cap (woken \cup C) : (\A w \in queue : w.process # p) => Wake(p) \in queue'
  BY DEF Ending
<1> HIDE DEF joined, idle, awaiting
<1>7. /\ wait' \in [Processes -> Kinds]
      /\ \A p \in Processes : wait'[p] = IF p \in K \cup woken THEN "none" ELSE wait[p]
  BY <1>1, <1>2, <1>4 DEF WaitType, Kinds
<1>8. /\ woken \subseteq Live \ K
      /\ \A p \in woken : wait[p] \in {"join", "children", "process"}
  BY <1>2
<1>9. /\ \A p \in Processes \ K : status'[p] = IF p \in woken THEN "running" ELSE status[p]
      /\ \A p \in K : status'[p] = terminal
  BY <1>0, <1>3
<1>10. Born' = Born /\ Live' = Live \ K
  <2>1. Born' = Born
    BY <1>0, <1>8, <1>9 DEF Born, Live
  <2> QED
    BY <1>3, <2>1 DEF Live
<1>11. \A p \in woken : (\A w \in queue : w.process # p) /\ p # current
  BY <1>0, <1>1, <1>8 DEF Scheduled
<1>12. wait[current] = "none" /\ (\A w \in queue : w.process # current) /\ current \notin suspended
  BY <1>1 DEF Scheduled, Waked
<1>13. /\ \A p \in woken : Waked(p)'
       /\ \A p \in C \ K : Waked(p)'
       /\ \A p \in Live \ K : Waked(p) => Waked(p)'
  <2>1. \A p : Wake(p).process = p
    BY DEF Wake
  <2>2. \A p \in woken : Waked(p)'
    BY <1>6, <1>8, <1>11, <2>1 DEF Waked
  <2>3. \A p \in C \ K : Waked(p)'
    BY <1>0, <1>6, <1>12, <2>1, SMT DEF Waked
  <2>4. \A p \in Live \ K : Waked(p) => Waked(p)'
    BY <1>6 DEF Waked
  <2> QED
    BY <2>2, <2>3, <2>4
<1>14. \A q \in suspended' : Runnable(q)' <=> Runnable(q)
  BY <1>3 DEF Runnable
<1>15. Scheduled'
  <2>1. \A p \in (Live \ K) \cap (woken \cup C) : wait'[p] = "none" /\ \A w \in queue : w.process # p
    BY <1>0, <1>7, <1>11, <1>12
  <2>2. \A p : Wake(p).process = p /\ ~Wake(p).timed
    BY DEF Wake
  <2>3. ASSUME NEW w \in queue'
        PROVE  Valid(w)' /\ wait'[w.process] = IF w.timed THEN "delay" ELSE "none"
    <3>1. CASE w \in queue /\ w.process \notin K
      <4>1. w.process \in Processes /\ w.process \notin woken
        BY <1>0, <1>11, <3>1
      <4> QED
        BY <1>1, <1>5, <1>7, <3>1, <4>1 DEF Scheduled, Valid
    <3>2. ASSUME NEW p \in (Live \ K) \cap (woken \cup C), w = Wake(p)
          PROVE  Valid(w)' /\ wait'[w.process] = IF w.timed THEN "delay" ELSE "none"
      BY <2>1, <2>2, <3>2 DEF Valid
    <3> QED
      BY <1>6, <3>1, <3>2
  <2>4. ASSUME NEW v \in queue', NEW w \in queue', v.process = w.process PROVE v = w
    <3>1. \A u \in queue' : \/ u \in queue
                            \/ u = Wake(u.process) /\ \A x \in queue : x.process # u.process
      BY <1>6, <2>1, <2>2, SMT
    <3> QED
      BY <1>1, <2>4, <3>1 DEF Scheduled
  <2>5. \A p \in Live \ K : wait'[p] = "delay" => Waked(p)'
    BY <1>0, <1>1, <1>7, <1>13 DEF Scheduled
  <2>6. ASSUME NEW p \in Live \ K, wait'[p] = "none"
        PROVE  Waked(p)' \/ (p \in suspended' /\ Runnable(p)')
    <3>1. CASE p \in woken \/ p = current
      BY <1>13, <2>6, <3>1
    <3>2. CASE p \notin woken /\ p # current
      <4>1. wait[p] = "none"
        BY <1>0, <1>7, <2>6, <3>2
      <4>2. Waked(p) \/ (p \in suspended /\ Runnable(p))
        BY <1>1, <3>2, <4>1 DEF Scheduled
      <4> QED
        BY <1>3, <1>13, <1>14, <4>2
    <3> QED
      BY <3>1, <3>2
  <2> QED
    BY <1>10, <2>3, <2>4, <2>5, <2>6 DEF Scheduled
<1>16. Marked'
  <2>1. \A p \in Live \ K : status'[p] = "running" => wait'[p] = "none"
    BY <1>0, <1>1, <1>7, <1>9 DEF Marked
  <2>2. \A p \in halted : p \in Processes \ K /\ p \notin woken
    BY <1>8 DEF FamilyInv, Live, Born
  <2>3. \A p \in halted \cup K : status'[p] \in {"finished", "killed"}
    BY <1>1, <1>9, <2>2 DEF Marked
  <2>4. \A p \in Processes \ (Live \ K) : wait'[p] = "none"
    BY <1>1, <1>7 DEF Marked
  <2>5. suspended \subseteq Processes
    BY <1>0 DEF FamilyInv
  <2>6. \A p \in suspended' : "suspendable" \in program[p] /\ (Runnable(p)' => wait'[p] = "none")
    BY <1>1, <1>3, <1>7, <1>14, <2>5 DEF Marked
  <2>7. suspended_wake' \subseteq suspended'
    BY <1>1, <1>3 DEF Marked
  <2> QED
    BY <1>3, <1>10, <2>1, <2>3, <2>4, <2>6, <2>7 DEF Marked
<1>17. \A p : LiveChildren(p)' = LiveChildren(p) \ K
  BY <1>3, <1>10 DEF LiveChildren
<1>18. Joining'
  <2>1. \A g \in fork_groups : Over(g, K) => g.parent \in joined
    BY DEF joined
  <2>2. ASSUME NEW g \in fork_groups, ~Over(g, K)
        PROVE  /\ g.parent \in Live \ K /\ wait'[g.parent] = "join"
               /\ g.children \ K # {} /\ g.children \ K \subseteq LiveChildren(g.parent) \ K
    <3>1. /\ g.parent \in Live /\ wait[g.parent] = "join" /\ g.children # {}
          /\ g.children \subseteq LiveChildren(g.parent)
      BY <1>1 DEF Joining
    <3>2. ~(g.children \subseteq K)
      BY <2>2, <3>1 DEF Over
    <3>3. g.parent \notin K
      BY <3>2
    <3>4. g.parent \notin woken
      <4>1. g.parent \notin joined
        BY <1>1, <2>2 DEF joined, Joining
      <4> QED
        BY <1>2, <3>1, <4>1
    <3> QED
      BY <1>0, <1>7, <3>1, <3>2, <3>3, <3>4
  <2>3. ASSUME NEW g \in fork_groups'
        PROVE  /\ g \in Groups /\ g.children \cap K = {}
               /\ \E h \in fork_groups : /\ ~Over(h, K) /\ g.parent = h.parent /\ g.join = h.join
                                         /\ g.children = h.children \ K
    <3>1. PICK h \in fork_groups : ~Over(h, K) /\ g = [h EXCEPT !.children = @ \ K]
      BY <1>3
    <3>2. h \in Groups
      BY <1>1 DEF Joining
    <3> QED
      BY <3>1, <3>2 DEF Groups
  <2>4. ASSUME NEW g \in fork_groups, ~Over(g, K)
        PROVE  \E h \in fork_groups' : h.parent = g.parent
    <3>1. [g EXCEPT !.children = @ \ K] \in fork_groups'
      BY <1>3, <2>4
    <3>2. g \in Groups
      BY <1>1 DEF Joining
    <3>3. [g EXCEPT !.children = @ \ K].parent = g.parent
      BY <3>2 DEF Groups
    <3> QED
      BY <3>1, <3>3
  <2>5. \A g \in fork_groups' : /\ g.parent \in Live' /\ wait'[g.parent] = "join"
                                /\ g.children # {} /\ g.children \subseteq LiveChildren(g.parent) \ K
    BY <1>10, <2>2, <2>3, SMT
  <2>6. ASSUME NEW g \in fork_groups', NEW h \in fork_groups', g.parent = h.parent PROVE g = h
    <3>1. PICK x \in fork_groups : g = [x EXCEPT !.children = @ \ K]
      BY <1>3
    <3>2. PICK y \in fork_groups : h = [y EXCEPT !.children = @ \ K]
      BY <1>3
    <3>3. x \in Groups /\ y \in Groups
      BY <1>1 DEF Joining
    <3>4. x.parent = y.parent
      BY <2>6, <3>1, <3>2, <3>3 DEF Groups
    <3>5. x = y
      BY <1>1, <3>4 DEF Joining
    <3> QED
      BY <3>1, <3>2, <3>5, Zenon
  <2>7. ASSUME NEW p \in Live \ K, wait'[p] = "join" PROVE \E h \in fork_groups' : h.parent = p
    <3>1. wait[p] = "join" /\ p \notin woken
      BY <1>0, <1>7, <2>7
    <3>2. PICK g \in fork_groups : g.parent = p
      BY <1>1, <3>1 DEF Joining
    <3>3. ~Over(g, K)
      BY <2>1, <3>1, <3>2
    <3> QED
      BY <2>4, <3>2, <3>3
  <2>8. fork_groups' \subseteq Groups
    BY <2>3
  <2> QED
    BY <1>10, <1>17, <2>5, <2>6, <2>7, <2>8 DEF Joining
<1>19. Outlasting'
  <2>1. \A p : Childless(p, {})' <=> Childless(p, K)
    BY <1>3, <1>17 DEF Childless
  <2>2. ASSUME NEW p \in waiting_for_children', Childless(p, K) PROVE FALSE
    <3>1. p \in waiting_for_children /\ p \notin idle /\ ~Childless(p, {})
      BY <1>1, <1>3, <2>2 DEF Outlasting
    <3>2. LiveChildren(p) \cap K = {}
      BY <2>2, <3>1 DEF idle
    <3> QED
      BY <2>2, <3>1, <3>2 DEF Childless
  <2>3. ASSUME NEW p \in waiting_for_children' PROVE p \in Live \ K /\ wait'[p] = "children"
    <3>1. p \in waiting_for_children /\ p \notin idle /\ p \notin K
      BY <1>3
    <3>2. p \in Live /\ wait[p] = "children"
      BY <1>1, <3>1 DEF Outlasting
    <3>3. p \notin woken
      BY <1>2, <3>1, <3>2
    <3> QED
      BY <1>0, <1>7, <3>1, <3>2, <3>3
  <2>4. ASSUME NEW p \in Live \ K, wait'[p] = "children" PROVE p \in waiting_for_children'
    <3>1. wait[p] = "children" /\ p \notin woken
      BY <1>0, <1>7, <2>4
    <3>2. p \in waiting_for_children /\ p \notin idle
      BY <1>1, <3>1 DEF Outlasting
    <3> QED
      BY <1>3, <3>2
  <2> QED
    BY <1>10, <2>1, <2>2, <2>3, <2>4 DEF Outlasting
<1>20. /\ waiting_process' \in [Processes -> Processes \cup {0}]
       /\ \A p \in Processes : waiting_process'[p] = IF p \in K \cup awaiting THEN 0 ELSE waiting_process[p]
  BY <1>1, <1>3 DEF WaitType
<1>21. Awaiting'
  <2>1. ASSUME NEW p \in Processes, waiting_process'[p] # 0 PROVE p \in Live \ K /\ wait'[p] = "process"
    <3>1. p \notin K /\ p \notin awaiting /\ p \in Live /\ wait[p] = "process"
      BY <1>1, <1>20, <2>1 DEF Awaiting
    <3>2. p \notin woken
      BY <1>2, <3>1
    <3> QED
      BY <1>7, <3>1, <3>2
  <2>2. ASSUME NEW p \in Live \ K, wait'[p] = "process" PROVE waiting_process'[p] \in Live \ K
    <3>1. wait[p] = "process" /\ p \notin woken
      BY <1>0, <1>7, <2>2
    <3>2. p \notin awaiting
      BY <3>1
    <3>3. waiting_process[p] \in Live /\ waiting_process[p] \notin K
      BY <1>1, <3>1, <3>2 DEF Awaiting, awaiting
    <3> QED
      BY <1>0, <1>20, <3>2, <3>3
  <2> QED
    BY <1>10, <2>1, <2>2 DEF Awaiting
<1>22. ASSUME NEW kind \in Objects, NEW q \in Live \ K PROVE wait'[q] = kind <=> wait[q] = kind
  BY <1>0, <1>7, <1>8 DEF Objects
<1>23. Listening'
  <2>1. \A q \in Live \ K : wait'[q] = "event" <=> wait[q] = "event"
    BY <1>22 DEF Objects
  <2>2. \A q \in Live \ K : wait[q] = "event" => status'[q] = status[q]
    BY <1>0, <1>8, <1>9
  <2>3. UNCHANGED <<event_waiters, pending_dynamic_event, program>>
    BY <1>3 DEF objectVars, eventVars
  <2> QED
    BY <1>1, <1>10, <2>1, <2>2, <2>3 DEF Listening, Positions
<1>24. ASSUME NEW seq, NEW kind \in Objects, Parked(seq, kind, Live, Born, wait)
       PROVE  Parked(seq, kind, Live', Born', wait')
  <2>1. \A q \in Live' : wait'[q] = kind <=> q \in Live /\ wait[q] = kind
    BY <1>10, <1>22
  <2>2. Live' \cap Born \subseteq Live /\ Born \subseteq Born'
    BY <1>10
  <2> QED
    BY <1>24, <2>1, <2>2, ParkedStays, SMT
<1>25. /\ Parked(readers, "get", Live', Born', wait')
       /\ Parked(writers, "put", Live', Born', wait')
       /\ Parked(waiters, "semaphore", Live', Born', wait')
  BY <1>24 DEF WaitInv, Objects
<1>26. /\ Parked(readers, "get", Live, Born, wait)'
       /\ Parked(writers, "put", Live, Born, wait)'
       /\ Parked(waiters, "semaphore", Live, Born, wait)'
  BY <1>25 DEF objectVars, mailboxVars, semaphoreVars
<1>27. WaitType'
  BY <1>1, <1>3, <1>7, <1>20 DEF WaitType, objectVars, mailboxVars, eventVars
<1> QED
  BY <1>15, <1>16, <1>18, <1>19, <1>21, <1>23, <1>26, <1>27 DEF WaitInv

(* Forked processes are queued once each, and their parent waits for them  *)
(* or is queued as well.                                                   *)
LEMMA ForkWaits ==
  ASSUME WaitInv, FamilyInv, NEW p \in Processes, NEW n \in Branches,
         NEW join \in {"all", "any", "none"}, NEW detach \in BOOLEAN,
         Fork(p, n, join, detach), UNCHANGED objectVars
  PROVE  WaitInv'
<1> DEFINE free == Processes \ Born
           children == {q \in free : Cardinality({r \in free : r < q}) < n}
           waits == join # "none" /\ children # {}
           new == [parent |-> p, join |-> join, children |-> children]
<1>1. p \in Live /\ current = p /\ current' = 0
  BY DEF Fork, Executes
<1>2. /\ status' = [q \in Processes |-> IF q \in children THEN "running"
                      ELSE IF q = p /\ waits THEN "waiting" ELSE status[q]]
      /\ wait' = IF waits THEN [wait EXCEPT ![p] = "join"] ELSE wait
      /\ queue' = queue \cup {Wake(q) : q \in children} \cup IF waits THEN {} ELSE WakesFor({p})
      /\ parent' = [q \in Processes |-> IF q \in children THEN p ELSE parent[q]]
      /\ detached' = IF detach THEN detached \cup children ELSE detached
      /\ fork_groups' = IF waits THEN fork_groups \cup {new} ELSE fork_groups
      /\ UNCHANGED <<program, halted, timer_epoch, waiting_for_children, waiting_process, suspendVars>>
  BY DEF Fork
<1>3. children \subseteq Processes \ Born /\ waits \in BOOLEAN
  OBVIOUS
<1>4. waits => /\ new \in Groups /\ new.parent = p /\ new.children = children
               /\ children # {}
  BY DEF Groups
<1> HIDE DEF children, waits, new
<1>5. /\ Live \subseteq Processes /\ Live \subseteq Born /\ 0 \notin Processes
      /\ \A w \in queue : w.process \in Live
  BY ProcessAssumption DEF Live, Born, FamilyInv
<1>6. /\ WaitType /\ Scheduled /\ Marked /\ Joining /\ Outlasting /\ Awaiting /\ Listening
  BY DEF WaitInv
<1>7. /\ wait[p] = "none" /\ status[p] = "running" /\ ~Waked(p) /\ p \notin suspended
      /\ p \notin children /\ ~Queued(p)
  BY <1>1, <1>3, <1>5, CallerFree
<1>8. /\ wait' \in [Processes -> Kinds] /\ wait'[p] = IF waits THEN "join" ELSE "none"
      /\ \A q \in Processes \ {p} : wait'[q] = wait[q]
  BY <1>2, <1>3, <1>6, <1>7 DEF WaitType, Kinds
<1>9. /\ \A q \in children : status'[q] = "running"
      /\ status'[p] = IF waits THEN "waiting" ELSE "running"
      /\ \A q \in Processes \ (children \cup {p}) : status'[q] = status[q]
  BY <1>2, <1>3, <1>7
<1>10. Born' = Born \cup children /\ Live' = Live \cup children
  <2>1. Born' = Born \cup children
    BY <1>1, <1>3, <1>5, <1>9 DEF Born
  <2>2. halted \cap children = {}
    BY <1>3 DEF FamilyInv
  <2> QED
    BY <1>2, <2>1, <2>2 DEF Live
<1>11. /\ \A q \in children : parent'[q] = p /\ wait'[q] = "none" /\ q \notin Live
       /\ \A q \in Live : parent'[q] = parent[q] /\ q \notin children
  <2>1. \A q \in children : q \notin Live /\ q \in Processes /\ q # p
    BY <1>3, <1>5, <1>7
  <2>2. \A q \in Live : q \notin children
    BY <2>1
  <2> QED
    BY <1>2, <1>5, <1>6, <1>8, <2>1, <2>2 DEF Marked
<1>12. queue' = queue \cup {Wake(q) : q \in children \cup IF waits THEN {} ELSE {p}}
  <2>1. WakesFor({p}) = {Wake(p)}
    BY <1>1, <1>7 DEF WakesFor
  <2> QED
    BY <1>2, <2>1
<1> DEFINE due == children \cup IF waits THEN {} ELSE {p}
<1>13. \A q \in due : wait'[q] = "none" /\ q \in Live' /\ \A w \in queue : w.process # q
  BY <1>1, <1>5, <1>7, <1>8, <1>10, <1>11 DEF Waked
<1> HIDE DEF due
<1>14. \A q : Wake(q).process = q /\ ~Wake(q).timed
  BY DEF Wake
<1>15. Scheduled'
  <2>1. \A w \in queue' : w \in queue \/ \E q \in due : w = Wake(q)
    BY <1>12 DEF due
  <2>2. ASSUME NEW w \in queue'
        PROVE  Valid(w)' /\ wait'[w.process] = IF w.timed THEN "delay" ELSE "none"
    <3>1. CASE w \in queue
      <4>1. w.process \in Processes \ {p}
        BY <1>5, <1>7, <3>1 DEF Waked
      <4> QED
        BY <1>2, <1>6, <1>8, <3>1, <4>1 DEF Scheduled, Valid
    <3>2. ASSUME NEW q \in due, w = Wake(q)
          PROVE  Valid(w)' /\ wait'[w.process] = IF w.timed THEN "delay" ELSE "none"
      BY <1>13, <1>14, <3>2 DEF Valid
    <3> QED
      BY <2>1, <3>1, <3>2
  <2>3. ASSUME NEW v \in queue', NEW w \in queue', v.process = w.process PROVE v = w
    <3>1. \A u \in queue' : \/ u \in queue
                            \/ u = Wake(u.process) /\ \A x \in queue : x.process # u.process
      BY <1>13, <1>14, <2>1, SMT
    <3> QED
      BY <1>6, <2>3, <3>1 DEF Scheduled
  <2>4. /\ \A q \in Live : Waked(q) => Waked(q)'
        /\ \A q \in due : Waked(q)'
    <3>1. \A q \in due : Wake(q) \in queue'
      BY <1>12 DEF due
    <3> QED
      BY <1>12, <1>14, <3>1 DEF Waked
  <2>5. ASSUME NEW q \in Live', wait'[q] = "delay" PROVE Waked(q)'
    <3>1. q \in Live /\ wait[q] = "delay"
      BY <1>5, <1>8, <1>10, <1>11, <2>5
    <3> QED
      BY <1>6, <2>4, <3>1 DEF Scheduled
  <2>6. ASSUME NEW q \in Live', wait'[q] = "none" PROVE Waked(q)' \/ (q \in suspended /\ Runnable(q))
    <3>1. CASE q \in due
      BY <2>4, <3>1
    <3>2. CASE q \notin due
      <4>1. q \in Live /\ q # p
        BY <1>8, <1>10, <2>6, <3>2 DEF due
      <4>2. wait[q] = "none"
        BY <1>5, <1>8, <2>6, <4>1
      <4> QED
        BY <1>1, <1>6, <2>4, <4>1, <4>2 DEF Scheduled
    <3> QED
      BY <3>1, <3>2
  <2> QED
    BY <1>1, <1>2, <2>2, <2>3, <2>5, <2>6 DEF Scheduled, Runnable, suspendVars
<1>16. Marked'
  <2>1. \A q \in Live' : status'[q] = "running" => wait'[q] = "none"
    BY <1>5, <1>6, <1>8, <1>9, <1>10, <1>11, SMT DEF Marked
  <2>2. \A q \in halted : q \in Processes /\ q # p /\ q \notin children
    BY <1>1, <1>3 DEF FamilyInv, Live, Born
  <2>3. \A q \in halted : status'[q] \in {"finished", "killed"}
    BY <1>6, <1>9, <2>2 DEF Marked
  <2>4. \A q \in Processes \ Live' : wait'[q] = "none"
    BY <1>1, <1>6, <1>8, <1>10 DEF Marked
  <2>5. \A q \in suspended : q \in Processes /\ q # p
    BY <1>5, <1>7 DEF FamilyInv
  <2>6. \A q \in suspended : Runnable(q)' <=> Runnable(q)
    BY <1>2 DEF Runnable, suspendVars
  <2> QED
    BY <1>2, <1>6, <1>8, <2>1, <2>3, <2>4, <2>5, <2>6 DEF Marked, suspendVars
<1>17. /\ \A q \in Live : LiveChildren(q) \subseteq LiveChildren(q)'
       /\ children \subseteq LiveChildren(p)'
  BY <1>10, <1>11 DEF LiveChildren
<1>18. Joining'
  <2>1. \A g \in fork_groups : /\ g.parent \in Live /\ wait[g.parent] = "join" /\ g.parent # p
                               /\ g.children # {} /\ g.children \subseteq LiveChildren(g.parent)
    BY <1>6, <1>7 DEF Joining
  <2>2. ASSUME NEW g \in fork_groups'
        PROVE  /\ g \in Groups /\ g.parent \in Live' /\ wait'[g.parent] = "join"
               /\ g.children # {} /\ g.children \subseteq LiveChildren(g.parent)'
    <3>1. CASE g \in fork_groups
      <4>1. LiveChildren(g.parent) \subseteq LiveChildren(g.parent)'
        BY <1>17, <2>1, <3>1
      <4> QED
        BY <1>5, <1>6, <1>8, <1>10, <2>1, <3>1, <4>1 DEF Joining
    <3>2. CASE waits /\ g = new
      BY <1>1, <1>4, <1>8, <1>10, <1>17, <3>2
    <3> QED
      BY <1>2, <3>1, <3>2
  <2>3. ASSUME NEW g \in fork_groups', NEW h \in fork_groups', g.parent = h.parent PROVE g = h
    <3>1. \A x \in fork_groups' : x \in fork_groups \/ (x = new /\ x.parent = p)
      BY <1>2, <1>4
    <3> QED
      BY <1>6, <2>1, <2>3, <3>1 DEF Joining
  <2>4. ASSUME NEW q \in Live', wait'[q] = "join" PROVE \E g \in fork_groups' : g.parent = q
    <3>1. CASE q = p
      <4>1. waits
        BY <1>8, <2>4, <3>1
      <4> QED
        BY <1>2, <1>4, <3>1, <4>1
    <3>2. CASE q # p
      <4>1. q \in Live /\ wait[q] = "join"
        BY <1>5, <1>8, <1>10, <1>11, <2>4, <3>2
      <4>2. PICK g \in fork_groups : g.parent = q
        BY <1>6, <4>1 DEF Joining
      <4> QED
        BY <1>2, <4>2
    <3> QED
      BY <3>1, <3>2
  <2> QED
    BY <2>2, <2>3, <2>4 DEF Joining
<1>19. Outlasting'
  <2>1. ASSUME NEW q \in waiting_for_children
        PROVE  q \in Live' /\ wait'[q] = "children" /\ ~Childless(q, {})'
    <3>1. q \in Live /\ wait[q] = "children" /\ ~Childless(q, {})
      BY <1>6 DEF Outlasting
    <3>2. PICK c \in LiveChildren(q) : c \notin detached
      BY <3>1 DEF Childless
    <3>3. c \in LiveChildren(q)' /\ c \notin detached'
      BY <1>2, <1>11, <1>17, <3>1, <3>2 DEF LiveChildren
    <3> QED
      BY <1>5, <1>7, <1>8, <1>10, <3>1, <3>3 DEF Childless
  <2>2. ASSUME NEW q \in Live', wait'[q] = "children" PROVE q \in waiting_for_children
    <3>1. q \in Live /\ wait[q] = "children"
      BY <1>5, <1>8, <1>10, <1>11, <2>2
    <3> QED
      BY <1>6, <3>1 DEF Outlasting
  <2> QED
    BY <1>2, <2>1, <2>2 DEF Outlasting
<1>20. Awaiting'
  <2>1. ASSUME NEW q \in Processes, waiting_process[q] # 0 PROVE q \in Live' /\ wait'[q] = "process"
    <3>1. q \in Live /\ wait[q] = "process"
      BY <1>6, <2>1 DEF Awaiting
    <3> QED
      BY <1>5, <1>7, <1>8, <1>10, <3>1
  <2>2. ASSUME NEW q \in Live', wait'[q] = "process" PROVE waiting_process[q] \in Live'
    <3>1. q \in Live /\ wait[q] = "process"
      BY <1>5, <1>8, <1>10, <1>11, <2>2
    <3> QED
      BY <1>6, <1>10, <3>1 DEF Awaiting
  <2> QED
    BY <1>2, <2>1, <2>2 DEF Awaiting
<1>21. ASSUME NEW kind \in Objects, NEW q \in Live' PROVE wait'[q] = kind <=> q \in Live /\ wait[q] = kind
  BY <1>5, <1>7, <1>8, <1>10, <1>11 DEF Objects
<1>22. Live' \cap Born \subseteq Live /\ Born \subseteq Born'
  BY <1>3, <1>10
<1>23. Listening'
  <2>1. \A q \in Live' : wait'[q] = "event" <=> q \in Live /\ wait[q] = "event"
    BY <1>21 DEF Objects
  <2>2. \A q \in Live : wait[q] = "event" => status'[q] = status[q]
    BY <1>5, <1>7, <1>9, <1>11
  <2>3. UNCHANGED <<event_waiters, pending_dynamic_event, program>>
    BY <1>2 DEF objectVars, eventVars
  <2> QED
    BY <1>6, <1>22, <2>1, <2>2, <2>3 DEF Listening, Positions
<1>24. ASSUME NEW seq, NEW kind \in Objects, Parked(seq, kind, Live, Born, wait)
       PROVE  Parked(seq, kind, Live', Born', wait')
  BY <1>21, <1>22, <1>24, ParkedStays, SMT
<1>25. /\ Parked(readers, "get", Live', Born', wait')
       /\ Parked(writers, "put", Live', Born', wait')
       /\ Parked(waiters, "semaphore", Live', Born', wait')
  BY <1>24 DEF WaitInv, Objects
<1>26. /\ Parked(readers, "get", Live, Born, wait)'
       /\ Parked(writers, "put", Live, Born, wait)'
       /\ Parked(waiters, "semaphore", Live, Born, wait)'
  BY <1>25 DEF objectVars, mailboxVars, semaphoreVars
<1>27. WaitType'
  BY <1>2, <1>6, <1>8 DEF WaitType, objectVars, mailboxVars, eventVars
<1> QED
  BY <1>15, <1>16, <1>18, <1>19, <1>20, <1>23, <1>26, <1>27 DEF WaitInv

(* A family that ends takes the groups of its members with it.             *)
LEMMA FamilyWaits ==
  ASSUME WaitInv, FamilyInv, NEW p \in Live, current = p, NEW S, NEW K,
         K = Descendants(S) \/ K = Family(S),
         Ending(K, "killed", {}, {p}), current' = 0, UNCHANGED objectVars
  PROVE  WaitInv'
<1>1. /\ ProcessType /\ Joining /\ p # 0 /\ Live \subseteq Processes
      /\ parent \in [Processes -> Processes \cup {0}]
  BY CallerFree DEF WaitInv, FamilyInv, ProcessType, Live, Born
<1>2. K \subseteq Live /\ \A q \in Live : Ancestors(q) \cap K # {} => q \in K
  BY <1>1, FamilyComplete
<1>3. ASSUME NEW g \in fork_groups, g.parent \in K, NEW c \in g.children PROVE c \in K
  <2>1. c \in Live /\ c \in Processes /\ parent[c] = g.parent /\ g.parent \in Processes
    BY <1>1, <1>2, <1>3 DEF Joining, LiveChildren
  <2>2. parent[c] \in Ancestors(c)
    <3>1. Upward(c, Ancestors(c)) /\ parent[c] # 0
      BY <1>1, <2>1, AncestorsUpward, ProcessAssumption
    <3> QED
      BY <3>1 DEF Upward
  <2> QED
    BY <1>2, <1>3, <2>1, <2>2
<1>4. K \in SUBSET Live /\ current # 0 /\ current \in K \cup {p} /\ {p} \subseteq {current}
  BY <1>1, <1>2
<1> QED
  BY <1>3, <1>4, EndingWaits

(* Every step of a process keeps the invariant.                            *)
LEMMA StepWaits ==
  ASSUME Undisturbed, WaitInv, FamilyInv, NEW p \in Processes, ProcessStep(p), UNCHANGED objectVars
  PROVE  WaitInv'
<1>1. ASSUME NEW n \in Branches, NEW join \in {"all", "any", "none"}, NEW detach \in BOOLEAN,
             Fork(p, n, join, detach)
      PROVE  WaitInv'
  BY <1>1, ForkWaits
<1>2. CASE Finish(p)
  <2>1. p \in Live /\ current = p /\ Ending({p}, "finished", {}, {}) /\ current' = 0
    BY <1>2 DEF Finish
  <2>2. wait[p] = "none" /\ p # 0
    BY <2>1, CallerFree
  <2>3. \A g \in fork_groups : g.parent \notin {p}
    BY <2>2 DEF WaitInv, Joining
  <2>4. {p} \in SUBSET Live /\ current # 0 /\ current \in {p} \cup {} /\ {} \subseteq {current}
    BY <2>1, <2>2
  <2> QED
    BY <2>1, <2>3, <2>4, EndingWaits, SMT
<1>3. CASE WaitFork(p)
  BY <1>3, WaitForkWaits
<1>4. CASE DisableFork(p)
  <2>1. p \in Live /\ current = p
    BY <1>4 DEF DisableFork, Executes
  <2>2. PICK S, K : /\ K = Descendants(S) \/ K = Family(S)
                    /\ Ending(K, "killed", {}, {p}) /\ current' = 0
    BY <1>4 DEF DisableFork
  <2> QED
    BY <2>1, <2>2, FamilyWaits
<1>5. CASE EnterBlock(p) \/ LeaveBlock(p)
  BY <1>5, IdleWaits DEF EnterBlock, LeaveBlock
<1>6. ~Disable(p)
  BY DEF Disable, Executes, Undisturbed, WaitInv, WaitType
<1>7. CASE Delay(p)
  BY <1>7, DelayWaits
<1>8. ASSUME NEW target \in Processes, Await(p, target) PROVE WaitInv'
  BY <1>8, AwaitWaits
<1>9. ASSUME NEW target \in Processes, Kill(p, target) PROVE WaitInv'
  <2>1. /\ p \in Live /\ current = p
        /\ Ending(Family({target}), "killed", {}, {p}) /\ current' = 0
    BY <1>9 DEF Kill, Executes
  <2> QED
    BY <2>1, FamilyWaits
<1>10. ASSUME NEW target \in Processes, Suspend(p, target) \/ Resume(p, target) PROVE WaitInv'
  BY <1>10, SuspendWaits, ResumeWaits
<1> QED
  BY <1>1, <1>2, <1>3, <1>4, <1>5, <1>6, <1>7, <1>8, <1>9, <1>10 DEF ProcessStep

=============================================================================
