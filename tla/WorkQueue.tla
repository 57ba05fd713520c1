----------------------------- MODULE WorkQueue -----------------------------
(***************************************************************************)
(* Scheduler::Impl::WorkQueue (src/runtime/scheduler_internal.hpp): a bulk *)
(* vector sorted when draining begins, a heap for what is inserted while   *)
(* it is drained, cancelled entries that stay until they are skipped or    *)
(* compacted away, and tickets, each one entry standing for several        *)
(* batchable members and keyed by the next of them.                        *)
(*                                                                         *)
(* A key is the rank of an (order, sequence) pair.  A plain entry has one  *)
(* key, a ticket the keys of the members it still has to give.  Entries    *)
(* before the cursor are moved-from: the model keeps their number only.    *)
(***************************************************************************)
EXTENDS Integers, Sequences, FiniteSets, SequencesExt, TLC

CONSTANTS
  Keys,              (* ranks of the order keys                            *)
  Groups,            (* batch group keys                                   *)
  NoGroup,           (* the group of an entry that is not batchable        *)
  CompactThreshold,  (* 64U, below which no compaction takes place         *)
  MaxTickets,        (* maximum_tickets                                    *)
  MaxMembers,        (* maximum_members_per_ticket                         *)
  MaxSize            (* capacity of the vectors                            *)

ASSUME ConstantsAssumption ==
  /\ Keys \subseteq Nat
  /\ NoGroup \notin Groups
  /\ CompactThreshold \in Nat /\ MaxSize \in Nat
  /\ MaxTickets \in Nat /\ MaxMembers \in Nat \ {0}

(* "cancelable" and "cancelled" entries name a cancellation slot that is   *)
(* active, respectively not active any more; "ticket" entries were made by *)
(* compact_batchable_groups, "readiness" entries by the clients.           *)
Element == [keys : Seq(Keys), group : Groups \cup {NoGroup},
            state : {"plain", "cancelable", "cancelled", "ticket", "readiness"}]
Queue == [cursor : Nat, entries : Seq(Element), insertions : Seq(Element),
          prepared : BOOLEAN, needs_sort : BOOLEAN, has_cancelable : BOOLEAN,
          pushes : Nat]

VARIABLES
  queue,          (* the WorkQueue                                         *)
  dispatching,    (* members of the front ticket offered to an executor    *)
  cancellations,  (* Impl::cancellations_since_compaction                  *)
  threshold,      (* Impl::cancellation_compaction_threshold               *)
  out             (* the keys the last operation took                      *)

vars == <<queue, dispatching, cancellations, threshold, out>>

EmptyQueue == [entries |-> <<>>, cursor |-> 0, insertions |-> <<>>,
               prepared |-> FALSE, needs_sort |-> FALSE,
               has_cancelable |-> FALSE, pushes |-> 0]

Init == /\ queue = EmptyQueue /\ dispatching = 0
        /\ cancellations = 0 /\ threshold = CompactThreshold
        /\ out = {}

-----------------------------------------------------------------------------
Key(e) == Head(e.keys)
IsTicket(e) == e.state \in {"ticket", "readiness"}
Live(e) == e.state # "cancelled"
KeyLess(a, b) == Key(a) < Key(b)

FrontEntry(q) == Head(q.entries)
HasBulk(q) == q.entries # <<>>
(* The front of the heap.                                                  *)
Least(s) == CHOOSE i \in DOMAIN s : \A j \in DOMAIN s : Key(s[i]) <= Key(s[j])
Inserted(q) == q.insertions[Least(q.insertions)]
Size(q) == Len(q.entries) + Len(q.insertions)

(* compact: drop the consumed prefix and the cancelled entries.            *)
Compact(q) ==
  IF dispatching > 0 THEN q
  ELSE LET bulk == SelectSeq(q.entries, Live)
           ins == SelectSeq(q.insertions, Live)
       IN [q EXCEPT !.entries = bulk, !.cursor = 0, !.insertions = ins,
             !.pushes = 0, !.needs_sort = @ /\ bulk # <<>>,
             !.has_cancelable =
               \E e \in Range(bulk) \cup Range(ins) : e.state = "cancelable"]

(* push.  The push count saturates where the comparison no longer changes. *)
Pushed(q0, e) ==
  LET q == IF /\ q0.has_cancelable /\ Size(q0) >= CompactThreshold
              /\ q0.pushes >= Size(q0) \div 2
           THEN Compact(q0) ELSE q0
      counted == [q EXCEPT !.has_cancelable = @ \/ e.state = "cancelable",
                           !.pushes = IF @ < MaxSize \div 2 THEN @ + 1 ELSE @]
  IN IF q.prepared
     THEN [counted EXCEPT !.insertions = Append(@, e)]
     ELSE [counted EXCEPT !.entries = Append(@, e),
             !.needs_sort = @ \/ (HasBulk(q) /\ KeyLess(e, Last(q.entries)))]

(* prepare: sort, skip cancelled entries at the front of either part.      *)
Cancelled(q) ==
  CHOOSE n \in 0 .. Len(q.entries) :
    /\ n < Len(q.entries) => Live(q.entries[n + 1])
    /\ \A i \in 1 .. n : ~Live(q.entries[i])
(* Faulty variant: leaves cancelled entries at the front of the heap.      *)
SkipCancelledBulkOnly(q) ==
  LET n == Cancelled(q)
  IN [q EXCEPT !.cursor = @ + n, !.entries = SubSeq(@, n + 1, Len(@))]
SkipCancelled(q) ==
  LET n == Cancelled(q)
  IN [q EXCEPT !.cursor = @ + n, !.entries = SubSeq(@, n + 1, Len(@)),
        !.insertions = SelectSeq(@, LAMBDA e :
          Live(e) \/ \E f \in Range(q.insertions) : Live(f) /\ KeyLess(f, e))]
Prepare(q0) ==
  LET sorted == IF q0.needs_sort THEN SortSeq(q0.entries, KeyLess)
                ELSE q0.entries
      q == SkipCancelled([q0 EXCEPT !.entries = sorted, !.needs_sort = FALSE,
                                    !.prepared = TRUE])
  IN IF /\ q.has_cancelable /\ q.cursor >= CompactThreshold
        /\ q.cursor >= (q.cursor + Len(q.entries)) \div 2
     THEN Compact(q) ELSE q

(* reposition_front_ticket: rotate the front behind the smaller keys.      *)
Reposition(q) ==
  IF ~HasBulk(q) \/ ~IsTicket(FrontEntry(q)) THEN q
  ELSE LET first == FrontEntry(q)
           rest == Tail(q.entries)
           smaller == {i \in DOMAIN rest : ~KeyLess(first, rest[i])}
           n == Cardinality(smaller)
       IN [q EXCEPT !.entries =
             SubSeq(rest, 1, n) \o <<first>> \o SubSeq(rest, n + 1, Len(rest))]

(* empty and pending_empty: cancelled entries do not count, nor do the     *)
(* members already offered by the ticket being dispatched.                 *)
IsEmpty(q) ==
  /\ \A i \in DOMAIN q.entries :
       \/ ~Live(q.entries[i])
       \/ dispatching > 0 /\ i = 1 /\ Len(q.entries[i].keys) = dispatching
  /\ \A e \in Range(q.insertions) : ~Live(e)

(* next: the key the queue would give after the members on offer; 0 none.  *)
MinKey(S) == CHOOSE k \in S : \A l \in S : k <= l
NextKey(q0) ==
  LET q == Prepare(q0)
      front == IF ~HasBulk(q) THEN {}
               ELSE IF dispatching = 0 THEN {Key(FrontEntry(q))}
               ELSE LET ks == FrontEntry(q).keys
                    IN {ks[i] : i \in DOMAIN ks \cap {dispatching + 1}}
                       \cup {Key(q.entries[i]) : i \in DOMAIN q.entries \cap {2}}
      inserted == IF q.insertions = <<>> THEN {} ELSE {Key(Inserted(q))}
  IN IF front \cup inserted = {} THEN 0 ELSE MinKey(front \cup inserted)

(* Take n members of the front ticket; an exhausted ticket is passed.      *)
TakeMembers(q, n) ==
  LET ks == FrontEntry(q).keys
  IN IF n < Len(ks)
     THEN [q EXCEPT !.entries[1].keys = SubSeq(ks, n + 1, Len(ks))]
     ELSE [q EXCEPT !.cursor = @ + 1, !.entries = Tail(@)]

(* compact_batchable_groups: neighbours of one group become one ticket.    *)
Joins(e, acc, tickets) ==
  /\ acc # <<>> /\ e.group # NoGroup /\ Last(acc).group = e.group
  /\ e.state = "plain" /\ Last(acc).state # "readiness"
  /\ Len(Last(acc).keys) < MaxMembers
  /\ Last(acc).state = "ticket" \/ tickets < MaxTickets
Group(acc, e) ==
  IF Joins(e, acc, Len(SelectSeq(acc, LAMBDA f : f.state = "ticket")))
  THEN [acc EXCEPT ![Len(acc)] = [keys |-> @.keys \o e.keys,
                                  group |-> e.group, state |-> "ticket"]]
  ELSE Append(acc, e)
CompactGroups(q) ==
  IF q.cursor # 0 \/ q.insertions # <<>> THEN q
  ELSE [q EXCEPT !.entries = FoldLeft(Group, <<>>, @)]

(* Faulty variant: only the bulk bounds the dispatch.                      *)
DispatchCountBulkOnly(q) ==
  IF ~HasBulk(q) \/ ~IsTicket(FrontEntry(q)) THEN 0
  ELSE Cardinality({i \in DOMAIN FrontEntry(q).keys :
         \A e \in Range(Tail(q.entries)) : FrontEntry(q).keys[i] < Key(e)})

(* next_batch_ticket_dispatch: how many members of the front ticket come   *)
(* before everything else in the queue.                                    *)
DispatchCount(q) ==
  IF ~HasBulk(q) \/ ~IsTicket(FrontEntry(q)) THEN 0
  ELSE LET others == Range(Tail(q.entries)) \cup Range(q.insertions)
       IN Cardinality({i \in DOMAIN FrontEntry(q).keys :
            \A e \in others : FrontEntry(q).keys[i] < Key(e)})

-----------------------------------------------------------------------------
(* The keys an executor is working on, and the other live ones.            *)
Offered == IF dispatching = 0 THEN {}
           ELSE {FrontEntry(queue).keys[i] : i \in 1 .. dispatching}
LiveKeys == UNION {Range(e.keys) : e \in {f \in Range(queue.entries)
                     \cup Range(queue.insertions) : Live(f)}} \ Offered

Push(k, g, s) ==
  /\ k \notin LiveKeys \cup Offered /\ Size(queue) < MaxSize
  /\ queue.cursor + Len(queue.entries) < MaxSize
  /\ queue' = Pushed(queue, [keys |-> <<k>>, group |-> g, state |-> s])
  /\ out' = {}
  /\ UNCHANGED <<dispatching, cancellations, threshold>>

(* schedule_generic_next_delta_readiness_member: join the group's ticket   *)
(* or push a new one; only before draining begins.                         *)
Tickets(q, g) == {i \in DOMAIN q.entries : /\ q.entries[i].state = "readiness"
                                           /\ q.entries[i].group = g}
JoinTicket(q, i, k) ==
  [q EXCEPT !.entries[i].keys = SortSeq(Append(@, k), <), !.needs_sort = TRUE]
ScheduleReadinessMember(k, g) ==
  /\ k \notin LiveKeys \cup Offered /\ ~queue.prepared
  /\ IF Tickets(queue, g) = {}
     THEN /\ queue.cursor + Len(queue.entries) < MaxSize
          /\ queue' = Pushed(queue, [keys |-> <<k>>, group |-> g,
                                     state |-> "readiness"])
     ELSE \E i \in Tickets(queue, g) :
            /\ Len(queue.entries[i].keys) < MaxMembers
            /\ queue' = JoinTicket(queue, i, k)
  /\ out' = {}
  /\ UNCHANGED <<dispatching, cancellations, threshold>>

(* Scheduler::cancel and note_cancellation.                                *)
CancelIn(s, k) == [i \in DOMAIN s |->
                     IF s[i].state = "cancelable" /\ Key(s[i]) = k
                     THEN [s[i] EXCEPT !.state = "cancelled"] ELSE s[i]]
Cancel(k) ==
  LET q == [queue EXCEPT !.entries = CancelIn(@, k),
                         !.insertions = CancelIn(@, k)]
      compacted == Compact(q)
      retained == compacted.cursor + Size(compacted)
  IN /\ q # queue
     /\ IF cancellations + 1 < threshold
        THEN queue' = q /\ cancellations' = cancellations + 1
             /\ UNCHANGED threshold
        ELSE /\ queue' = compacted /\ cancellations' = 0
             /\ threshold' = IF retained \div 2 > CompactThreshold
                             THEN retained \div 2 ELSE CompactThreshold
     /\ out' = {} /\ UNCHANGED dispatching

Pop ==
  LET q == Prepare(queue)
      from_bulk == HasBulk(q) /\ (q.insertions = <<>>
                                  \/ ~KeyLess(Inserted(q), FrontEntry(q)))
  IN /\ dispatching = 0 /\ ~IsEmpty(queue)
     /\ IF from_bulk
        THEN /\ queue' = Reposition(TakeMembers(q, 1))
             /\ out' = {Key(FrontEntry(q))}
        ELSE /\ queue' = [q EXCEPT !.insertions = RemoveAt(@, Least(@))]
             /\ out' = {Key(Inserted(q))}
     /\ UNCHANGED <<dispatching, cancellations, threshold>>

(* begin_systemverilog_batch prepares an Active queue and makes tickets.   *)
BeginBatch ==
  /\ dispatching = 0 /\ ~queue.prepared /\ ~IsEmpty(queue)
  /\ queue' = CompactGroups(Prepare(queue))
  /\ UNCHANGED <<dispatching, cancellations, threshold, out>>

(* Direct dispatch: the ticket stays in the queue while its members run.   *)
BeginDispatch ==
  LET q == Prepare(queue)
  IN /\ dispatching = 0 /\ ~IsEmpty(queue) /\ DispatchCount(q) > 0
     /\ queue' = q /\ dispatching' = DispatchCount(q) /\ out' = {}
     /\ UNCHANGED <<cancellations, threshold>>

(* The executor consumed n members (a declined batch gives its first       *)
(* member to the fallback task): consume, then finish.                     *)
EndDispatch(n) ==
  /\ dispatching > 0 /\ n \in 0 .. dispatching
  /\ LET q == IF n = 0 THEN queue ELSE TakeMembers(queue, n)
     IN queue' = IF n < Len(FrontEntry(queue).keys) THEN Reposition(q) ELSE q
  /\ dispatching' = 0
  /\ out' = {FrontEntry(queue).keys[i] : i \in 1 .. n}
  /\ UNCHANGED <<cancellations, threshold>>

(* The drain loop calls clear_consumed on a queue it found empty.          *)
ClearConsumed ==
  /\ dispatching = 0 /\ IsEmpty(queue) /\ queue # EmptyQueue
  /\ queue' = EmptyQueue
  /\ UNCHANGED <<dispatching, cancellations, threshold, out>>

Next ==
  \/ \E k \in Keys : \/ Push(k, NoGroup, "plain") \/ Push(k, NoGroup, "cancelable")
                     \/ \E g \in Groups : \/ Push(k, g, "plain")
                                          \/ ScheduleReadinessMember(k, g)
                     \/ Cancel(k)
  \/ Pop \/ BeginBatch \/ BeginDispatch \/ ClearConsumed
  \/ \E n \in 0 .. MaxMembers : EndDispatch(n)

Spec == Init /\ [][Next]_vars

-----------------------------------------------------------------------------
(* next() gives the smallest live key, as Scheduler::run uses it to select *)
(* what it dispatches: with no ticket in dispatch (with one, next() may    *)
(* give the key of a cancelled entry behind the ticket).                   *)
LeastLive == IF LiveKeys = {} THEN 0 ELSE MinKey(LiveKeys)
NextIsLeast == dispatching = 0 => NextKey(queue) = LeastLive

(* The queue implements the ordered set of live keys.                      *)
Abstract == INSTANCE OrderedQueue WITH live <- LiveKeys, offered <- Offered
ImplementsOrderedQueue == Abstract!Spec
=============================================================================
