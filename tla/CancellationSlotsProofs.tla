---------------------- MODULE CancellationSlotsProofs ----------------------
(***************************************************************************)
(* The safety properties of CancellationSlots for every set of tasks and   *)
(* every generation limit.                                                 *)
(***************************************************************************)
EXTENDS CancellationSlots, SequenceTheorems, TLAPS

Elements(s) == {s[i] : i \in DOMAIN s}
Injective(s) == \A i, j \in DOMAIN s : s[i] = s[j] => i = j

(* No handle is ahead of the slot it names.                                *)
HandlesNameSlots ==
  \A h \in handles : /\ h.slot \in DOMAIN slots
                     /\ h.generation <= slots[h.slot].generation

(* An identity is given out once, to one task.                             *)
HandlesUnique ==
  \A g, h \in handles :
    \/ g.slot = h.slot /\ g.generation = h.generation
    \/ g.task = h.task
    => g = h

(* An active identity holds its own queued, not cancelled task.            *)
ActiveIsQueued ==
  \A h \in handles : IsActive(h) => /\ slots[h.slot].task = h.task
                                    /\ h \in entries
                                    /\ h.task \notin requested

InactiveIsCancelled ==
  \A e \in entries : ~IsActive(e) => e.task \in requested

QueuedNotDone == \A e \in entries : e.task \notin done

(* Only tasks that were given a slot are cancelled or run.                 *)
HistoryIssued == requested \cup done \subseteq {h.task : h \in handles}

(* The inductive invariant.                                                *)
IInv == /\ TypeOK /\ HandlesNameSlots /\ HandlesUnique
        /\ ActiveIsQueued /\ InactiveIsCancelled /\ QueuedNotDone
        /\ HistoryIssued /\ CancelledNeverRuns /\ FreeListExact

-----------------------------------------------------------------------------
(* Pushing a slot on the free list adds just that slot.                    *)
LEMMA PushProperties ==
  ASSUME NEW S, NEW s \in Seq(S), NEW x \in S, Injective(s), x \notin Elements(s)
  PROVE  /\ <<x>> \o s \in Seq(S)
         /\ Injective(<<x>> \o s)
         /\ Elements(<<x>> \o s) = Elements(s) \cup {x}
PROOF
<1> DEFINE t == <<x>> \o s
<1>1. /\ <<x>> \in Seq(S) /\ Len(<<x>>) = 1 /\ <<x>>[1] = x
  OBVIOUS
<1>2. /\ t \in Seq(S) /\ Len(t) = 1 + Len(s)
      /\ \A i \in 1 .. 1 + Len(s) : t[i] = IF i <= 1 THEN <<x>>[i] ELSE s[i - 1]
  BY <1>1, ConcatProperties
<1>3. /\ Len(s) \in Nat /\ DOMAIN s = 1 .. Len(s) /\ DOMAIN t = 1 .. 1 + Len(s)
  BY <1>2, LenProperties
<1>4. t[1] = x /\ \A i \in 2 .. 1 + Len(s) : t[i] = s[i - 1]
  BY <1>1, <1>2, <1>3
<1>5. \A i \in 1 .. Len(s) : t[i + 1] = s[i]
  BY <1>3, <1>4
<1>6. Injective(t)
  <2>1. SUFFICES ASSUME NEW i \in DOMAIN t, NEW j \in DOMAIN t, t[i] = t[j]
                 PROVE  i = j
    BY DEF Injective
  <2>2. \A k \in DOMAIN s : s[k] # x
    BY DEF Elements
  <2>3. CASE i = 1 /\ j # 1
    BY <2>1, <2>2, <2>3, <1>3, <1>4
  <2>4. CASE i # 1 /\ j = 1
    BY <2>1, <2>2, <2>4, <1>3, <1>4
  <2>5. CASE i # 1 /\ j # 1
    BY <2>1, <2>5, <1>3, <1>4 DEF Injective
  <2>. QED  BY <2>3, <2>4, <2>5
<1>7. Elements(t) = Elements(s) \cup {x}
  <2>1. ASSUME NEW y \in Elements(t) PROVE y \in Elements(s) \cup {x}
    <3>1. PICK i \in DOMAIN t : y = t[i]
      BY <2>1 DEF Elements
    <3>. QED  BY <3>1, <1>3, <1>4 DEF Elements
  <2>2. ASSUME NEW y \in Elements(s) PROVE y \in Elements(t)
    <3>1. PICK i \in DOMAIN s : y = s[i]
      BY <2>2 DEF Elements
    <3>2. i + 1 \in DOMAIN t /\ t[i + 1] = y
      BY <3>1, <1>3, <1>5
    <3>. QED  BY <3>2 DEF Elements
  <2>3. x \in Elements(t)
    BY <1>3, <1>4 DEF Elements
  <2>. QED  BY <2>1, <2>2, <2>3
<1>. QED  BY <1>2, <1>6, <1>7

(* Popping the free list removes just its head.                            *)
LEMMA PopProperties ==
  ASSUME NEW S, NEW s \in Seq(S), s # <<>>, Injective(s)
  PROVE  /\ Tail(s) \in Seq(S)
         /\ Injective(Tail(s))
         /\ Head(s) \in Elements(s)
         /\ Elements(Tail(s)) = Elements(s) \ {Head(s)}
PROOF
<1>1. /\ Tail(s) \in Seq(S) /\ Head(s) = s[1] /\ Len(s) \in Nat \ {0}
      /\ DOMAIN s = 1 .. Len(s) /\ DOMAIN Tail(s) = 1 .. Len(s) - 1
      /\ \A i \in 1 .. Len(s) - 1 : Tail(s)[i] = s[i + 1]
  BY HeadTailProperties, LenProperties, EmptySeq
<1>2. Injective(Tail(s))
  BY <1>1 DEF Injective
<1>3. Head(s) \in Elements(s)
  BY <1>1 DEF Elements
<1>4. Elements(Tail(s)) = Elements(s) \ {Head(s)}
  <2>1. ASSUME NEW y \in Elements(Tail(s)) PROVE y \in Elements(s) \ {Head(s)}
    <3>1. PICK i \in DOMAIN Tail(s) : y = Tail(s)[i]
      BY <2>1 DEF Elements
    <3>2. i + 1 \in DOMAIN s /\ y = s[i + 1] /\ i + 1 # 1
      BY <3>1, <1>1
    <3>. QED  BY <3>2, <1>1 DEF Elements, Injective
  <2>2. ASSUME NEW y \in Elements(s) \ {Head(s)} PROVE y \in Elements(Tail(s))
    <3>1. PICK i \in DOMAIN s : y = s[i]
      BY <2>2 DEF Elements
    <3>2. i - 1 \in DOMAIN Tail(s) /\ y = Tail(s)[i - 1]
      BY <3>1, <2>2, <1>1
    <3>. QED  BY <3>2 DEF Elements
  <2>. QED  BY <2>1, <2>2
<1>. QED  BY <1>1, <1>2, <1>3, <1>4

-----------------------------------------------------------------------------
(* What release does: the identity it names, and no other, stops being     *)
(* active, and the free list stays exact.                                  *)
LEMMA ReleaseEffect ==
  ASSUME IInv, NEW id \in handles, Release(id)
  PROVE  /\ slots' \in Seq(Slot) /\ DOMAIN slots' = DOMAIN slots
         /\ free' \in Seq(DOMAIN slots')
         /\ \A s \in DOMAIN slots : slots'[s].generation = slots[s].generation
         /\ \A h \in handles :
              /\ IsActive(h)' <=> IsActive(h) /\ h # id
              /\ IsActive(h)' => slots'[h.slot].task = slots[h.slot].task
         /\ FreeListExact'
PROOF
<1>0. CASE ~IsActive(id)
  BY <1>0 DEF Release, IInv, TypeOK, IsActive, FreeListExact
<1>1. CASE IsActive(id)
  <2> DEFINE i == id.slot
  <2>1. /\ slots' = [slots EXCEPT ![i].active = FALSE, ![i].task = NoTask]
        /\ free' = IF id.generation # MaxGeneration THEN <<i>> \o free ELSE free
    BY <1>1 DEF Release
  <2>2. /\ slots \in Seq(Slot) /\ free \in Seq(DOMAIN slots) /\ id \in Identity
        /\ i \in DOMAIN slots /\ slots[i] \in Slot
        /\ slots[i].active /\ slots[i].generation = id.generation
    BY <1>1, ElementOfSeq, LenProperties DEF IInv, TypeOK, IsActive
  <2>3. /\ slots' = [slots EXCEPT ![i] = [slots[i] EXCEPT !.active = FALSE,
                                                        !.task = NoTask]]
        /\ [slots[i] EXCEPT !.active = FALSE, !.task = NoTask] \in Slot
    BY <2>1, <2>2 DEF Slot
  <2>4. slots' \in Seq(Slot) /\ DOMAIN slots' = DOMAIN slots
    BY <2>2, <2>3, ExceptSeq, LenProperties
  <2>5. /\ \A s \in DOMAIN slots : s # i => slots'[s] = slots[s]
        /\ slots'[i].generation = slots[i].generation /\ ~slots'[i].active
    BY <2>2, <2>3 DEF Slot
  <2>6. \A s \in DOMAIN slots : slots'[s].generation = slots[s].generation
    BY <2>5
  <2>7. ASSUME NEW h \in handles
        PROVE  /\ IsActive(h)' <=> IsActive(h) /\ h # id
               /\ IsActive(h)' => slots'[h.slot].task = slots[h.slot].task
    BY <1>1, <2>2, <2>4, <2>5 DEF IInv, HandlesUnique, IsActive
  <2>8. /\ Injective(free)
        /\ Elements(free) = {s \in DOMAIN slots :
             ~slots[s].active /\ slots[s].generation # MaxGeneration}
    BY DEF IInv, FreeListExact, Injective, Elements
  <2>9. /\ free' \in Seq(DOMAIN slots)
        /\ Injective(free')
        /\ Elements(free') = Elements(free)
             \cup (IF id.generation # MaxGeneration THEN {i} ELSE {})
    <3>1. i \notin Elements(free)
      BY <2>2, <2>8
    <3>2. /\ <<i>> \o free \in Seq(DOMAIN slots) /\ Injective(<<i>> \o free)
          /\ Elements(<<i>> \o free) = Elements(free) \cup {i}
      BY <2>2, <2>8, <3>1, PushProperties
    <3>3. CASE id.generation # MaxGeneration
      <4>1. free' = <<i>> \o free
        BY <2>1, <3>3
      <4>. QED  BY <3>2, <3>3, <4>1
    <3>4. CASE id.generation = MaxGeneration
      <4>1. free' = free
        BY <2>1, <3>4
      <4>. QED  BY <2>2, <2>8, <3>4, <4>1
    <3>. QED  BY <3>3, <3>4
  <2>10. Elements(free') = {s \in DOMAIN slots' :
             ~slots'[s].active /\ slots'[s].generation # MaxGeneration}
    BY <2>2, <2>4, <2>5, <2>8, <2>9
  <2>11. FreeListExact'
    BY <2>9, <2>10 DEF FreeListExact, Injective, Elements
  <2>. QED  BY <2>4, <2>6, <2>7, <2>9, <2>11
<1>. QED  BY <1>0, <1>1

(* Acquiring a slot activates the new identity and disturbs no other.      *)
LEMMA AcquireEffect ==
  ASSUME IInv, NEW t \in Tasks, AcquireFreeSlot(t) \/ AcquireNewSlot(t)
  PROVE  \E id \in Identity :
           /\ id.task = t /\ id \notin handles /\ Fresh(t) /\ Issue(id)
           /\ slots' \in Seq(Slot) /\ DOMAIN slots \subseteq DOMAIN slots'
           /\ free' \in Seq(DOMAIN slots')
           /\ FreeListExact'
           /\ \A h \in handles :
                /\ h.slot # id.slot \/ h.generation < id.generation
                /\ h.generation <= slots'[h.slot].generation
                /\ IsActive(h)' <=> IsActive(h)
                /\ IsActive(h)' => slots'[h.slot].task = slots[h.slot].task
           /\ IsActive(id)' /\ slots'[id.slot].task = t
PROOF
<1>0. /\ slots \in Seq(Slot) /\ free \in Seq(DOMAIN slots)
      /\ DOMAIN slots = 1 .. Len(slots) /\ Len(slots) \in Nat
      /\ \A s \in DOMAIN slots : slots[s] \in Slot
      /\ handles \subseteq Identity
      /\ Fresh(t)
  BY ElementOfSeq, LenProperties
     DEF IInv, TypeOK, AcquireFreeSlot, AcquireNewSlot
<1>1. /\ Injective(free)
      /\ Elements(free) = {s \in DOMAIN slots :
           ~slots[s].active /\ slots[s].generation # MaxGeneration}
  BY DEF IInv, FreeListExact, Injective, Elements
<1>2. CASE AcquireFreeSlot(t)
  <2> DEFINE i == Head(free)
             g == slots[i].generation + 1
             new == [generation |-> g, active |-> TRUE, task |-> t]
  <2>1. /\ free # <<>> /\ slots' = [slots EXCEPT ![i] = new]
        /\ free' = Tail(free)
        /\ Issue([slot |-> i, generation |-> g, task |-> t])
    BY <1>2 DEF AcquireFreeSlot
  <2>2. /\ Tail(free) \in Seq(DOMAIN slots) /\ Injective(Tail(free))
        /\ i \in Elements(free) /\ Elements(Tail(free)) = Elements(free) \ {i}
    BY <1>0, <1>1, <2>1, PopProperties
  <2>3. /\ i \in DOMAIN slots /\ ~slots[i].active /\ slots[i] \in Slot
        /\ slots[i].generation \in 1 .. MaxGeneration - 1
    BY <1>0, <1>1, <2>2, ConstantsAssumption DEF Slot
  <2>4. new \in Slot
    <3>1. g \in 1 .. MaxGeneration
      BY <2>3, ConstantsAssumption
    <3>2. t \in Tasks \cup {NoTask}
      OBVIOUS
    <3> HIDE DEF i, g
    <3> QED
      BY <3>1, <3>2 DEF Slot
  <2>0. [slot |-> i, generation |-> g, task |-> t] \in Identity
    BY <1>0, <2>3, ConstantsAssumption DEF Identity
  <2>. PICK id \in Identity : id = [slot |-> i, generation |-> g, task |-> t]
    BY <2>0
  <2>12. id.slot = i /\ id.generation = g /\ id.task = t /\ Issue(id)
    BY <2>1 DEF Issue
  <2>5. slots' \in Seq(Slot) /\ DOMAIN slots' = DOMAIN slots
    BY <1>0, <2>1, <2>3, <2>4, ExceptSeq, LenProperties
  <2>6. slots'[i] = new /\ \A s \in DOMAIN slots : s # i => slots'[s] = slots[s]
    BY <1>0, <2>1, <2>3
  <2>7. Elements(free') = {s \in DOMAIN slots' :
             ~slots'[s].active /\ slots'[s].generation # MaxGeneration}
    BY <1>1, <2>1, <2>2, <2>3, <2>5, <2>6
  <2>8. FreeListExact' /\ free' \in Seq(DOMAIN slots')
    BY <2>1, <2>2, <2>5, <2>7 DEF FreeListExact, Injective, Elements
  <2>9. ASSUME NEW h \in handles
        PROVE  /\ h.slot # i \/ h.generation < g
               /\ h.generation <= slots'[h.slot].generation
               /\ IsActive(h)' <=> IsActive(h)
               /\ IsActive(h)' => slots'[h.slot].task = slots[h.slot].task
    <3>1. /\ h.slot \in DOMAIN slots /\ h.generation \in Nat
          /\ slots[h.slot].generation \in Nat
          /\ h.generation <= slots[h.slot].generation
      BY <1>0 DEF IInv, HandlesNameSlots, Identity, Slot
    <3>2. CASE h.slot = i
      BY <3>1, <3>2, <2>3, <2>5, <2>6 DEF IsActive
    <3>3. CASE h.slot # i
      BY <3>1, <3>3, <2>5, <2>6 DEF IsActive
    <3>. QED  BY <3>2, <3>3
  <2>10. IsActive(id)' /\ slots'[id.slot].task = t
    BY <2>3, <2>5, <2>6, <2>12 DEF IsActive
  <2>11. id \notin handles
    BY <2>9, <2>3, <2>12
  <2>. QED  BY <1>0, <2>5, <2>8, <2>9, <2>10, <2>11, <2>12
<1>3. CASE AcquireNewSlot(t)
  <2> DEFINE i == Len(slots) + 1
             new == [generation |-> 1, active |-> TRUE, task |-> t]
  <2>1. /\ free = <<>> /\ slots' = Append(slots, new)
        /\ free' = free
        /\ Issue([slot |-> i, generation |-> 1, task |-> t])
    BY <1>3 DEF AcquireNewSlot
  <2>2. new \in Slot
    BY <1>0, ConstantsAssumption DEF Slot
  <2>0. [slot |-> i, generation |-> 1, task |-> t] \in Identity
    BY <1>0, ConstantsAssumption DEF Identity
  <2>. PICK id \in Identity : id = [slot |-> i, generation |-> 1, task |-> t]
    BY <2>0
  <2>10. id.slot = i /\ id.generation = 1 /\ id.task = t /\ Issue(id)
    BY <2>1 DEF Issue
  <2>3. /\ slots' \in Seq(Slot) /\ DOMAIN slots' = 1 .. i
        /\ slots'[i] = new /\ \A s \in DOMAIN slots : slots'[s] = slots[s]
    BY <1>0, <2>1, <2>2, AppendProperties, LenProperties
  <2>4. free' \in Seq(DOMAIN slots')
    BY <2>1
  <2>5. Elements(free') = {s \in DOMAIN slots' :
             ~slots'[s].active /\ slots'[s].generation # MaxGeneration}
    BY <1>0, <1>1, <2>1, <2>3
  <2>6. FreeListExact'
    BY <1>1, <2>1, <2>5 DEF FreeListExact, Injective, Elements
  <2>7. ASSUME NEW h \in handles
        PROVE  /\ h.slot # i
               /\ h.generation <= slots'[h.slot].generation
               /\ IsActive(h)' <=> IsActive(h)
               /\ IsActive(h)' => slots'[h.slot].task = slots[h.slot].task
    BY <1>0, <2>3 DEF IInv, HandlesNameSlots, IsActive
  <2>8. IsActive(id)' /\ slots'[id.slot].task = t
    BY <1>0, <2>3, <2>10 DEF IsActive
  <2>9. id \notin handles /\ DOMAIN slots \subseteq DOMAIN slots'
    BY <1>0, <2>3, <2>7, <2>10
  <2>. QED  BY <1>0, <2>3, <2>4, <2>6, <2>7, <2>8, <2>9, <2>10
<1>. QED  BY <1>2, <1>3

-----------------------------------------------------------------------------
(* The invariant holds in an empty set of slots.                           *)
LEMMA InitIInv == Init => IInv
  BY ConstantsAssumption
     DEF Init, IInv, TypeOK, HandlesNameSlots, HandlesUnique, ActiveIsQueued,
         InactiveIsCancelled, QueuedNotDone, HistoryIssued, CancelledNeverRuns,
         FreeListExact

(* Every step keeps the invariant.                                         *)
LEMMA NextIInv == IInv /\ [Next]_vars => IInv'
PROOF
<1> SUFFICES ASSUME IInv, [Next]_vars PROVE IInv'
  OBVIOUS
<1>0. /\ TypeOK /\ HandlesNameSlots /\ HandlesUnique /\ ActiveIsQueued
      /\ InactiveIsCancelled /\ QueuedNotDone /\ CancelledNeverRuns
      /\ HistoryIssued /\ FreeListExact
      /\ entries \subseteq handles /\ handles \subseteq Identity
  BY DEF IInv, TypeOK
<1>1. ASSUME NEW t \in Tasks, AcquireFreeSlot(t) \/ AcquireNewSlot(t)
      PROVE  IInv'
  <2>1. PICK id \in Identity :
           /\ id.task = t /\ id \notin handles /\ Fresh(t) /\ Issue(id)
           /\ slots' \in Seq(Slot) /\ DOMAIN slots \subseteq DOMAIN slots'
           /\ free' \in Seq(DOMAIN slots')
           /\ FreeListExact'
           /\ \A h \in handles :
                /\ h.slot # id.slot \/ h.generation < id.generation
                /\ h.generation <= slots'[h.slot].generation
                /\ IsActive(h)' <=> IsActive(h)
                /\ IsActive(h)' => slots'[h.slot].task = slots[h.slot].task
           /\ IsActive(id)' /\ slots'[id.slot].task = t
    BY <1>1, AcquireEffect
  <2>2. /\ entries' = entries \cup {id} /\ handles' = handles \cup {id}
        /\ requested' = requested /\ done' = done
        /\ \A h \in handles : h.task # t
    BY <2>1 DEF Issue, Fresh
  <2>3. TypeOK'
    BY <1>0, <2>1, <2>2 DEF TypeOK
  <2>4. HandlesNameSlots'
    <3>1. id.slot \in DOMAIN slots' /\ id.generation = slots'[id.slot].generation
      BY <2>1 DEF IsActive
    <3>2. id.generation \in Nat
      BY DEF Identity
    <3>. QED  BY <1>0, <2>1, <2>2, <3>1, <3>2 DEF HandlesNameSlots
  <2>5. HandlesUnique'
    BY <1>0, <2>1, <2>2 DEF HandlesUnique, Identity
  <2>6. t \notin requested /\ t \notin done
    BY <1>0, <2>2 DEF HistoryIssued
  <2>7. ActiveIsQueued'
    BY <1>0, <2>1, <2>2, <2>6 DEF ActiveIsQueued
  <2>8. InactiveIsCancelled' /\ QueuedNotDone' /\ CancelledNeverRuns'
    BY <1>0, <2>1, <2>2, <2>6
       DEF InactiveIsCancelled, QueuedNotDone, CancelledNeverRuns
  <2>9. HistoryIssued'
    BY <1>0, <2>2 DEF HistoryIssued
  <2>. QED  BY <2>1, <2>3, <2>4, <2>5, <2>7, <2>8, <2>9 DEF IInv
<1>2. ASSUME NEW id \in handles, Release(id), UNCHANGED handles
      PROVE  /\ slots' \in Seq(Slot) /\ free' \in Seq(DOMAIN slots')
             /\ HandlesNameSlots' /\ HandlesUnique' /\ FreeListExact'
             /\ \A h \in handles :
                  /\ IsActive(h)' <=> IsActive(h) /\ h # id
                  /\ IsActive(h)' => slots'[h.slot].task = slots[h.slot].task
  <2>1. /\ slots' \in Seq(Slot) /\ DOMAIN slots' = DOMAIN slots
        /\ free' \in Seq(DOMAIN slots')
        /\ \A s \in DOMAIN slots : slots'[s].generation = slots[s].generation
        /\ \A h \in handles :
             /\ IsActive(h)' <=> IsActive(h) /\ h # id
             /\ IsActive(h)' => slots'[h.slot].task = slots[h.slot].task
        /\ FreeListExact'
    BY <1>2, ReleaseEffect
  <2>2. HandlesNameSlots' /\ HandlesUnique'
    BY <1>0, <1>2, <2>1 DEF HandlesNameSlots, HandlesUnique
  <2>. QED  BY <2>1, <2>2
<1>3. ASSUME NEW h \in handles, Cancel(h) PROVE IInv'
  <2>1. /\ Release(h) /\ entries' = entries /\ handles' = handles /\ done' = done
        /\ requested' = IF h.task \in {e.task : e \in entries}
                        THEN requested \cup {h.task} ELSE requested
    BY <1>3 DEF Cancel
  <2>2. /\ slots' \in Seq(Slot) /\ free' \in Seq(DOMAIN slots')
        /\ HandlesNameSlots' /\ HandlesUnique' /\ FreeListExact'
        /\ \A k \in handles :
             /\ IsActive(k)' <=> IsActive(k) /\ k # h
             /\ IsActive(k)' => slots'[k.slot].task = slots[k.slot].task
    BY <1>2, <2>1
  <2>3. requested' \subseteq requested \cup {h.task} /\ requested \subseteq requested'
    BY <2>1
  <2>4. TypeOK'
    BY <1>0, <2>1, <2>2, <2>3 DEF TypeOK, Identity
  <2>5. ActiveIsQueued'
    BY <1>0, <2>1, <2>2, <2>3 DEF ActiveIsQueued, HandlesUnique
  <2>6. InactiveIsCancelled'
    BY <1>0, <2>1, <2>2, <2>3 DEF InactiveIsCancelled
  <2>7. QueuedNotDone' /\ HistoryIssued'
    BY <1>0, <2>1, <2>3 DEF QueuedNotDone, HistoryIssued
  <2>8. CancelledNeverRuns'
    BY <1>0, <2>1 DEF CancelledNeverRuns, QueuedNotDone
  <2>. QED  BY <2>2, <2>4, <2>5, <2>6, <2>7, <2>8 DEF IInv
<1>4. ASSUME NEW e \in entries, Execute(e) \/ DiscardEntry(e) PROVE IInv'
  <2>1. /\ Release(e) /\ entries' = entries \ {e} /\ handles' = handles
        /\ requested' = requested
        /\ done' = done \/ (IsActive(e) /\ done' = done \cup {slots[e.slot].task})
    BY <1>4 DEF Execute, DiscardEntry
  <2>2. /\ slots' \in Seq(Slot) /\ free' \in Seq(DOMAIN slots')
        /\ HandlesNameSlots' /\ HandlesUnique' /\ FreeListExact'
        /\ \A k \in handles :
             /\ IsActive(k)' <=> IsActive(k) /\ k # e
             /\ IsActive(k)' => slots'[k.slot].task = slots[k.slot].task
    BY <1>0, <1>2, <2>1
  <2>3. /\ done' \subseteq done \cup {e.task}
        /\ e.task \in requested => done' = done
    BY <1>0, <2>1 DEF ActiveIsQueued
  <2>4. TypeOK'
    BY <1>0, <2>1, <2>2, <2>3 DEF TypeOK, Identity
  <2>5. ActiveIsQueued' /\ InactiveIsCancelled'
    BY <1>0, <2>1, <2>2 DEF ActiveIsQueued, InactiveIsCancelled
  <2>6. QueuedNotDone' /\ HistoryIssued'
    BY <1>0, <2>1, <2>3 DEF QueuedNotDone, HistoryIssued, HandlesUnique
  <2>7. CancelledNeverRuns'
    BY <1>0, <2>1, <2>3 DEF CancelledNeverRuns
  <2>. QED  BY <2>2, <2>4, <2>5, <2>6, <2>7 DEF IInv
<1>5. ASSUME NEW e \in entries, DropCancelled(e) PROVE IInv'
  <2>1. /\ entries' = entries \ {e} /\ ~IsActive(e) /\ slots' = slots
        /\ UNCHANGED <<free, handles, requested, done>>
        /\ \A h : IsActive(h)' <=> IsActive(h)
    BY <1>5 DEF DropCancelled, IsActive
  <2>2. TypeOK' /\ HandlesNameSlots' /\ HandlesUnique' /\ FreeListExact'
    BY <1>0, <2>1 DEF TypeOK, HandlesNameSlots, HandlesUnique, FreeListExact
  <2>3. ActiveIsQueued' /\ InactiveIsCancelled'
    BY <1>0, <2>1 DEF ActiveIsQueued, InactiveIsCancelled
  <2>4. QueuedNotDone' /\ HistoryIssued' /\ CancelledNeverRuns'
    BY <1>0, <2>1 DEF QueuedNotDone, HistoryIssued, CancelledNeverRuns
  <2>. QED  BY <2>2, <2>3, <2>4 DEF IInv
<1>6. CASE UNCHANGED vars
  BY <1>6 DEF vars, IInv, TypeOK, HandlesNameSlots, HandlesUnique,
       ActiveIsQueued, InactiveIsCancelled, QueuedNotDone, HistoryIssued,
       CancelledNeverRuns, FreeListExact, IsActive
<1>. QED  BY <1>1, <1>3, <1>4, <1>5, <1>6 DEF Next

(* What the invariant says about the queued entries.                       *)
LEMMA IInvImplies ==
  IInv => TypeOK /\ CancelledIffRequested /\ EntryFindsItsTask
          /\ CancelledNeverRuns /\ FreeListExact
  BY DEF IInv, TypeOK, CancelledIffRequested, EntryFindsItsTask,
         ActiveIsQueued, InactiveIsCancelled

-----------------------------------------------------------------------------
(* For any number of tasks and any generation limit: a queued entry is     *)
(* cancelled exactly when its own handle was cancelled, an entry that is   *)
(* not cancelled finds its own task, a cancelled task never runs, and the  *)
(* free list is exact.                                                     *)
THEOREM CancellationCorrect ==
  Spec => [](TypeOK /\ CancelledIffRequested /\ EntryFindsItsTask
             /\ CancelledNeverRuns /\ FreeListExact)
  BY InitIInv, NextIInv, IInvImplies, PTL DEF Spec

(* The retirement of slots and the generations do what they are for: an    *)
(* entry whose handle is current finds the task it was queued for.         *)
THEOREM EntriesFindTheirTasks == Spec => []EntryFindsItsTask
  BY CancellationCorrect, PTL

(* Scheduler::cancel() is final: a task that was cancelled never runs.     *)
THEOREM CancellationIsFinal == Spec => []CancelledNeverRuns
  BY CancellationCorrect, PTL

(* release() returns a slot once, unless its generations are used up.      *)
THEOREM FreeListCorrect == Spec => []FreeListExact
  BY CancellationCorrect, PTL
=============================================================================
