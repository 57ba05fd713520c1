------------------------ MODULE SimirSynchronization ------------------------
(***************************************************************************)
(* Mailboxes, semaphores and dynamic events of the SimIR interpreter       *)
(* (run_synchronization in src/runtime/simir_synchronization.cpp), used by *)
(* the processes of SimirProcesses.  There is one object of each kind:     *)
(* objects share nothing.  A put value is its number.                      *)
(***************************************************************************)
EXTENDS SimirProcesses, Integers, Sequences

CONSTANTS
  Capacity,      (* of the mailbox                                         *)
  Keys,          (* initial keys of the semaphore                          *)
  Requests,      (* the key counts get and put are called with             *)
  MaxKeys,       (* bound on the keys the semaphore ever has               *)
  MaxPuts        (* bound on the values put                                *)

ASSUME MailboxAssumption == Capacity \in Nat \ {0}
ASSUME SemaphoreAssumption == Keys \in Int /\ Requests \subseteq Nat

VARIABLES
  entries, readers, writers,     (* MailboxState                           *)
  keys, waiters,                 (* SemaphoreState                         *)
  event_waiters,                 (* DynamicEventState                      *)
  pending_dynamic_event,         (* the processes that wait for the event  *)
  deferred,                      (* a ->> waits for the NBA region         *)
  sent, taken, dropped           (* history: values put, got, given up     *)

mailboxVars == <<entries, readers, writers, sent, taken, dropped>>
semaphoreVars == <<keys, waiters>>
eventVars == <<event_waiters, pending_dynamic_event, deferred>>
objectVars == <<mailboxVars, semaphoreVars, eventVars>>
vars == <<processVars, objectVars>>

Init ==
  /\ ProcessInit
  /\ entries = <<>> /\ readers = <<>> /\ writers = <<>>
  /\ keys = Keys /\ waiters = <<>>
  /\ event_waiters = <<>> /\ pending_dynamic_event = {} /\ deferred = FALSE
  /\ sent = 0 /\ taken = {} /\ dropped = {}

(* What a synchronization operation leaves alone of its processes.         *)
UnchangedFamily == UNCHANGED <<halted, timer_epoch, forkVars, waiting_process,
                               suspendVars, inside>>

(* synchronization_wake of the processes W that wait at such an operation; *)
(* the caller p continues unless it woke itself.                           *)
Waking(p, W, kind) ==
  /\ status' = [q \in Processes |-> IF q \in W \cap Live THEN "running" ELSE status[q]]
  /\ wait' = [q \in Processes |-> IF q \in W \cap Live /\ wait[q] = kind
                                  THEN "none" ELSE wait[q]]
  /\ queue' = queue \cup WakesFor(W)
  /\ current' = IF Queued(p) \/ p \in W THEN 0 ELSE p
  /\ UnchangedFamily

Completing(p) == Waking(p, {}, "none")
Waiting(p, kind) == WaitsAt(p, kind) /\ UNCHANGED queue /\ UnchangedFamily

Positions(seq) == DOMAIN seq
After(seq, n) == SubSeq(seq, n + 1, Len(seq))
Owners(seq, n) == {seq[i].process : i \in 1 .. n}
Least(S, default) == IF S = {} THEN default ELSE CHOOSE i \in S : \A j \in S : i <= j

-----------------------------------------------------------------------------
(***************************************************************************)
(* Mailbox.                                                                *)
(***************************************************************************)
(* deliver: the value goes to the waiting readers in order; a peek leaves  *)
(* it, the first get of a live process consumes it.                        *)
Getters == {i \in Positions(readers) : readers[i].process \in Live /\ ~readers[i].peek}
Deliver(p, value) ==
  LET n == Least(Getters, Len(readers))
  IN /\ Waking(p, Owners(readers, n), "get")
     /\ readers' = After(readers, n)
     /\ entries' = IF Getters = {} THEN Append(entries, value) ELSE entries
     /\ taken' = IF Getters = {} THEN taken ELSE taken \cup {value}

(* put, and try_put, which gives up instead of waiting.                    *)
Put(p, try) ==
  /\ Executes(p, "mailbox") /\ sent < MaxPuts /\ (try => "try" \in program[p])
  /\ LET available == writers = <<>> /\ (readers # <<>> \/ Len(entries) < Capacity)
     IN IF available
        THEN Deliver(p, sent + 1) /\ sent' = sent + 1 /\ UNCHANGED writers
        ELSE /\ IF try THEN Completing(p) /\ UNCHANGED <<writers, sent>>
                ELSE /\ Waiting(p, "put") /\ sent' = sent + 1
                     /\ writers' = Append(writers, [process |-> p, value |-> sent + 1])
             /\ UNCHANGED <<entries, readers, taken>>
  /\ UNCHANGED <<dropped, semaphoreVars, eventVars>>

(* Faulty variant: the writers stay where they are.                        *)
RefillLater(p) ==
  /\ Completing(p) /\ entries' = Tail(entries) /\ UNCHANGED <<writers, dropped>>

(* The get of an entry lets in the first writer that is still alive.       *)
Refill(p) ==
  LET alive == {i \in Positions(writers) : writers[i].process \in Live}
      n == Least(alive, Len(writers))
  IN /\ Waking(p, {writers[i].process : i \in {n} \cap alive}, "put")
     /\ writers' = After(writers, n)
     /\ entries' = Tail(entries) \o IF alive = {} THEN <<>> ELSE <<writers[n].value>>
     /\ dropped' = dropped \cup {writers[i].value : i \in (1 .. n) \ alive}

(* get, peek, try_get and try_peek.                                        *)
Get(p, peek, try) ==
  /\ Executes(p, "mailbox")
  /\ peek => "peek" \in program[p]
  /\ (try => "try" \in program[p])
  /\ IF entries # <<>>
     THEN /\ IF peek THEN Completing(p) /\ UNCHANGED <<entries, writers, taken, dropped>>
             ELSE Refill(p) /\ taken' = taken \cup {Head(entries)}
          /\ UNCHANGED readers
     ELSE /\ IF try THEN Completing(p) /\ UNCHANGED readers
             ELSE /\ Waiting(p, "get")
                  /\ readers' = Append(readers, [process |-> p, peek |-> peek])
          /\ UNCHANGED <<entries, writers, taken, dropped>>
  /\ UNCHANGED <<sent, semaphoreVars, eventVars>>

-----------------------------------------------------------------------------
(***************************************************************************)
(* Semaphore.                                                              *)
(***************************************************************************)
SemaphoreGet(p, n, try) ==
  /\ Executes(p, "semaphore") /\ n \in Requests /\ (try => "try" \in program[p])
  /\ IF waiters = <<>> /\ keys >= n
     THEN keys' = keys - n /\ Completing(p) /\ UNCHANGED waiters
     ELSE /\ IF try THEN Completing(p) /\ UNCHANGED waiters
             ELSE /\ Waiting(p, "semaphore")
                  /\ waiters' = Append(waiters, [process |-> p, keys |-> n])
          /\ UNCHANGED keys
  /\ UNCHANGED <<mailboxVars, eventVars>>

(* Waiters leave from the head: one that has halted at once, the others    *)
(* while the keys last.                                                    *)
Demand(n) ==
  LET sum[i \in 0 .. Len(waiters)] == IF i = 0 THEN 0
        ELSE sum[i - 1] + IF waiters[i].process \in Live THEN waiters[i].keys ELSE 0
  IN sum[n]
(* Faulty variant: a put lets one waiter go.                               *)
LeavingOne(total) ==
  IF waiters # <<>> /\ Demand(1) <= total THEN 1 ELSE 0

Leaving(total) ==
  CHOOSE n \in 0 .. Len(waiters) :
    /\ \A i \in 1 .. n : waiters[i].process \in Live => Demand(i) <= total
    /\ n < Len(waiters) => waiters[n + 1].process \in Live /\ Demand(n + 1) > total

SemaphorePut(p, n) ==
  /\ Executes(p, "semaphore") /\ n \in Requests /\ keys + n <= MaxKeys
  /\ LET left == Leaving(keys + n)
     IN /\ Waking(p, Owners(waiters, left), "semaphore")
        /\ waiters' = After(waiters, left)
        /\ keys' = keys + n - Demand(left)
  /\ UNCHANGED <<mailboxVars, eventVars>>

-----------------------------------------------------------------------------
(***************************************************************************)
(* Dynamic event.                                                          *)
(***************************************************************************)
EventWait(p) ==
  /\ Executes(p, "event") /\ Waiting(p, "event")
  /\ event_waiters' = Append(event_waiters, p)
  /\ pending_dynamic_event' = pending_dynamic_event \cup {p}
  /\ UNCHANGED <<mailboxVars, semaphoreVars, deferred>>

(* A trigger empties the list, and wakes those that wait for it.           *)
Triggered(p) ==
  LET W == {q \in pending_dynamic_event \cap Live :
              status[q] = "waiting" /\ \E i \in Positions(event_waiters) : event_waiters[i] = q}
  IN /\ Waking(p, W, "event")
     /\ event_waiters' = <<>>
     /\ pending_dynamic_event' = pending_dynamic_event \ W

Trigger(p) == /\ Executes(p, "event") /\ Triggered(p)
              /\ UNCHANGED <<mailboxVars, semaphoreVars, deferred>>

(* ->> triggers in the NBA region.                                         *)
TriggerNonblocking(p) ==
  /\ Executes(p, "event") /\ deferred' = TRUE /\ Completing(p)
  /\ UNCHANGED <<mailboxVars, semaphoreVars, event_waiters, pending_dynamic_event>>

TriggerDeferred ==
  /\ current = 0 /\ deferred /\ \A w \in queue : w.timed
  /\ Triggered(0) /\ deferred' = FALSE
  /\ UNCHANGED <<mailboxVars, semaphoreVars>>

-----------------------------------------------------------------------------
(***************************************************************************)
(* The specification.                                                      *)
(***************************************************************************)
Next ==
  \/ /\ \/ \E w \in queue : Run(w)
        \/ \E p \in Processes : ProcessStep(p)
     /\ UNCHANGED objectVars
  \/ \E p \in Processes :
       \/ \E try \in BOOLEAN : Put(p, try)
       \/ \E peek, try \in BOOLEAN : Get(p, peek, try)
       \/ \E n \in Requests : SemaphorePut(p, n) \/ \E try \in BOOLEAN : SemaphoreGet(p, n, try)
       \/ EventWait(p) \/ Trigger(p) \/ TriggerNonblocking(p)
  \/ TriggerDeferred

Spec == Init /\ [][Next]_vars

-----------------------------------------------------------------------------
(***************************************************************************)
(* Properties.                                                             *)
(***************************************************************************)
Holds(seq, p) == \E i \in Positions(seq) : seq[i].process = p

(* What will wake a process that waits at an instruction of this kind.     *)
HasWaker(p) ==
  CASE wait[p] = "delay" -> Queued(p)
    [] wait[p] = "join" -> \E g \in fork_groups : g.parent = p /\ g.children \cap Live # {}
    [] wait[p] = "children" -> p \in waiting_for_children /\ ~Childless(p, {})
    [] wait[p] = "process" -> waiting_process[p] \in Live
    [] wait[p] = "get" -> Holds(readers, p)
    [] wait[p] = "put" -> Holds(writers, p)
    [] wait[p] = "semaphore" -> Holds(waiters, p)
    [] wait[p] = "event" -> \E i \in Positions(event_waiters) : event_waiters[i] = p

(* No process is stranded: whatever other processes end, kill, disable,    *)
(* suspend or take meanwhile, what a waiting process waits for can still   *)
(* wake it, and one that waits for nothing executes, is queued, or will be *)
(* queued by its resume.                                                   *)
NoProcessStranded ==
  \A p \in Live :
    IF wait[p] # "none" THEN HasWaker(p)
    ELSE \/ p = current \/ Queued(p)
         \/ p \in suspended /\ (p \in suspended_wake \/ suspended_status[p] = "running")

(* A process gets past a wait only when what it waits for happened: no     *)
(* wake meant for another wait, and no timer of an earlier one, ends it.   *)
NoSpuriousWake == current # 0 => wait[current] = "none"

(* A kill or a disable reaches the whole family: a killed process has no   *)
(* live descendant, and none of its family executes again.                 *)
KilledFamiliesEnd ==
  /\ \A p \in Live : \A a \in Ancestors(p) : status[a] # "killed"
  /\ current \notin halted

(* The mailbox is first-in first-out and loses nothing: every value is     *)
(* got once, still in the box or with its writer in the order of the puts, *)
(* or went with a killed writer; nobody waits at a box that could serve    *)
(* them.                                                                   *)
Contents == entries \o [i \in Positions(writers) |-> writers[i].value]
MailboxFair ==
  /\ \A i, j \in Positions(Contents) : i < j => Contents[i] < Contents[j]
  /\ \A i \in Positions(Contents), v \in taken : v < Contents[i]
  /\ {Contents[i] : i \in Positions(Contents)} \cup taken \cup dropped = 1 .. sent
  /\ taken \cap dropped = {}
  /\ readers # <<>> => entries = <<>> /\ writers = <<>>
  /\ writers # <<>> => Len(entries) = Capacity

(* A semaphore does not sit on keys its first waiter could take, and       *)
(* never lends more keys than it has: only one that was created with a     *)
(* negative count ever has one.                                            *)
SemaphoreFair ==
  /\ keys >= 0 \/ keys >= Keys
  /\ waiters # <<>> /\ Head(waiters).process \in Live => Head(waiters).keys > keys
=============================================================================
