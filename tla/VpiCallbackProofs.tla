------------------------- MODULE VpiCallbackProofs -------------------------
(***************************************************************************)
(* Theorems about module VpiCallback, for any number of registrations and  *)
(* changes, any nesting of dispatches and any operations that callbacks    *)
(* call: a retired registration leaves nothing behind, a failed one only   *)
(* entries that never run a callback, and a one-shot callback runs at most *)
(* once.                                                                   *)
(*                                                                         *)
(* The invariant has two parts.  What waits to be dispatched is told apart *)
(* from what is being dispatched: a registration in a dispatch neither     *)
(* waits for a slot start nor has a task of its own.  And a one-shot       *)
(* registration is in at most one dispatch: nested dispatches have only    *)
(* lifecycle, assertion and value-change kinds, and no two are of the      *)
(* lifecycle kind.                                                         *)
(***************************************************************************)
EXTENDS VpiCallback, FiniteSetTheorems, SequenceTheorems, WellFoundedInduction, TLAPS

-----------------------------------------------------------------------------
(***************************************************************************)
(* The invariant.                                                          *)
(***************************************************************************)
Known == DOMAIN history
KindOf(i) == history[i].kind
Failed == {i \in Known : ~history[i].made}

Record == [kind : Kinds, keeps : BOOLEAN, delivered_through : Nat]
Past == [kind : Kinds, made : BOOLEAN, first : Nat, seen : Seq(Nat), runs : Nat]
Guards == {"none", "value", "life", "assert"}
Frame == [items : SUBSET [id : Nat, change : Nat], running : BOOLEAN, guarded : Guards]

TypeInv ==
  /\ next_id \in Nat \ {0} /\ next_change \in Nat
  /\ history \in Seq(Past) /\ Len(history) = next_id - 1
  /\ records \in [Active -> Record] /\ Active \subseteq Known
  /\ pending_values \subseteq 0 .. next_change
  /\ calls \in Seq(Frame)
  /\ \A t \in scheduled : t.change \in Nat

(* Nothing that is still to come reaches registration i.                   *)
Cleared(i) == /\ i \in Known /\ i \notin slot_start_waiting
              /\ \A t \in scheduled : t.kind \in Own => t.id # i

RecordsInv ==
  /\ \A i \in Active : records[i].kind = KindOf(i) /\ (records[i].keeps => KindOf(i) = "value")
  /\ indexed \cap Active = OfKind("value") /\ indexed \subseteq Active \cup Failed
  /\ \A i \in indexed : KindOf(i) = "value"
  /\ IsFiniteSet(Active)
  /\ pending_value_count = Cardinality({i \in Active : records[i].keeps})
  /\ pending_value_count = 0 => pending_values = {}

WaitingInv ==
  /\ slot_start_waiting \subseteq Active \cup Failed
  /\ \A i \in slot_start_waiting : KindOf(i) \in {"next", "slot"}
  /\ \A t \in scheduled : t.kind \in Own =>
       t.id \in Active /\ t = Task(KindOf(t.id), t.id, 0, {})
  /\ \A t \in scheduled : t.kind = "last" => Cleared(t.id) /\ KindOf(t.id) = "end"
  /\ \A t \in scheduled : t.kind = "life" => \A i \in t.ids : i \in Known /\ KindOf(i) = "life"

ItemsInv == \A k \in 1 .. Len(calls) : \A x \in calls[k].items : Cleared(x.id)

(* Which registrations a dispatch may have, by its place and its guard.    *)
StackInv ==
  /\ \A k \in 1 .. Len(calls) : \A x \in calls[k].items :
       /\ k > 1 => KindOf(x.id) \in {"life", "assert", "value"}
       /\ KindOf(x.id) = "life" => calls[k].guarded = "life"
  /\ \A k \in 1 .. Len(calls) : calls[k].guarded = "life" => "life" \in dispatching
  /\ \A j, k \in 1 .. Len(calls) : calls[j].guarded = "life" /\ calls[k].guarded = "life" => j = k

(* The callback of registration i is running.                              *)
Running(i) == \E k \in 1 .. Len(calls) : \E x \in calls[k].items :
                calls[k].running /\ First(x, calls[k].items) /\ x.id = i

RunsInv == \A i \in Known : OneShot(KindOf(i)) =>
             history[i].runs \in {0, 1} /\ (history[i].runs = 1 /\ i \in Active => Running(i))

(* A registration that failed never runs.                                  *)
FailedInv == \A i \in Failed : i \notin Active /\ history[i].runs = 0 /\ history[i].seen = <<>>

IInv == TypeInv /\ RecordsInv /\ WaitingInv /\ ItemsInv /\ StackInv /\ RunsInv /\ FailedInv

-----------------------------------------------------------------------------
(* A leaf without arithmetic is Zenon's; the others cite SMT.              *)
USE Zenon

(***************************************************************************)
(* Sequences, sets of numbers.                                             *)
(***************************************************************************)
LEMMA AllButLast ==
  ASSUME NEW S, NEW s \in Seq(S), s # <<>>
  PROVE  /\ Len(s) \in Nat \ {0} /\ s[Len(s)] \in S
         /\ SubSeq(s, 1, Len(s) - 1) \in Seq(S)
         /\ Len(SubSeq(s, 1, Len(s) - 1)) = Len(s) - 1
         /\ \A k \in 1 .. Len(s) - 1 : SubSeq(s, 1, Len(s) - 1)[k] = s[k]
<1>1. Len(s) \in Nat \ {0} /\ \A i \in 1 .. Len(s) : s[i] \in S
  <2>1. Len(s) \in Nat /\ (Len(s) = 0 => s = <<>>)
    BY EmptySeq, LenProperties
  <2>2. \A i \in 1 .. Len(s) : s[i] \in S
    BY ElementOfSeq
  <2> QED
    BY <2>1, <2>2
<1> DEFINE m == Len(s) - 1
<1>2. m \in Nat /\ \A i \in 1 .. m : s[i] \in S
  BY <1>1, SMT
<1>3. /\ SubSeq(s, 1, m) \in Seq(S)
      /\ Len(SubSeq(s, 1, m)) = IF 1 <= m THEN m - 1 + 1 ELSE 0
      /\ \A i \in 1 .. m - 1 + 1 : SubSeq(s, 1, m)[i] = s[1 + i - 1]
  BY <1>2, SubSeqProperties, SMT
<1>4. \A i \in 1 .. m : SubSeq(s, 1, m)[i] = s[i]
  BY <1>2, <1>3, SMT
<1>5. Len(SubSeq(s, 1, m)) = m
  <2> DEFINE l == Len(SubSeq(s, 1, m))
  <2>1. m \in Nat /\ l = IF 1 <= m THEN m - 1 + 1 ELSE 0
    BY <1>2, <1>3
  <2> HIDE DEF l, m
  <2>2. l = m
    BY <2>1, SMT
  <2> QED
    BY <2>2 DEF l
<1> QED
  BY <1>1, <1>3, <1>4, <1>5, SMT

(* A bounded set of naturals that is not empty has a greatest element.     *)
LEMMA MaxOf ==
  ASSUME NEW S, NEW b \in Nat, S \subseteq 0 .. b, S # {}
  PROVE  Max(S) \in S
<1> DEFINE Above == {m \in Nat : \A x \in S : x <= m}
           R == OpToRel(<, Nat)
<1>1. IsWellFoundedOn(R, Nat)
  BY NatLessThanWellFounded
<1>2. \A x, y \in Nat : y < x => <<y, x>> \in R
  BY DEF OpToRel
<1>3. b \in Above /\ Above \subseteq Nat
  BY SMT
<1> HIDE DEF R
<1>4. PICK m \in Above : \A n \in Above : ~(<<n, m>> \in R)
  BY <1>1, <1>3, WFMin
<1>5. \A n \in Above : ~(n < m)
  BY <1>2, <1>4
<1>6. m \in S
  <2> SUFFICES ASSUME m \notin S PROVE FALSE
    OBVIOUS
  <2>1. \A x \in S : x \in Nat /\ x < m
    BY <1>4, SMT
  <2>2. m - 1 \in Nat /\ \A x \in S : x <= m - 1
    <3>1. PICK x \in S : TRUE
      OBVIOUS
    <3>2. m \in Nat /\ x \in Nat /\ x < m
      BY <1>4, <2>1
    <3> QED
      BY <2>1, <3>2, SMT
  <2>3. m - 1 \in Above
    BY <2>2
  <2> QED
    BY <1>4, <1>5, <2>3, SMT
<1>7. \A x \in S : m >= x
  BY <1>4
<1>8. \E x \in S : \A y \in S : x >= y
  BY <1>6, <1>7
<1> QED
  BY <1>8 DEF Max

-----------------------------------------------------------------------------
(***************************************************************************)
(* What a step does to the stack of dispatches.                            *)
(***************************************************************************)
Pushed(f) ==
  /\ calls' \in Seq(Frame) /\ Len(calls') = Len(calls) + 1
  /\ \A k \in 1 .. Len(calls) : calls'[k] = calls[k]
  /\ calls'[Len(calls) + 1] = f
Replaced(f) ==
  /\ calls' \in Seq(Frame) /\ Len(calls') = Len(calls) /\ Len(calls) # 0
  /\ \A k \in 1 .. Len(calls) - 1 : calls'[k] = calls[k]
  /\ calls'[Len(calls)] = f
Popped ==
  /\ calls' \in Seq(Frame) /\ Len(calls') = Len(calls) - 1 /\ Len(calls) # 0
  /\ \A k \in 1 .. Len(calls) - 1 : calls'[k] = calls[k]

(* A nested dispatch begins.                                               *)
LEMMA Pushing ==
  ASSUME calls \in Seq(Frame), NEW f \in Frame, calls' = Append(calls, f)
  PROVE  Pushed(f)
  BY AppendProperties, SMT DEF Pushed

(* A dispatch by the scheduler begins: no other one is in progress.        *)
LEMMA PushingFirst ==
  ASSUME calls \in Seq(Frame), NEW f \in Frame, calls = <<>>, calls' = <<f>>
  PROVE  Pushed(f) /\ Len(calls) = 0
<1>1. calls' \in Seq(Frame) /\ Len(calls') = 1 /\ calls'[1] = f
  BY SMT
<1>2. Len(calls) = 0
  OBVIOUS
<1> QED
  BY <1>1, <1>2, SMT DEF Pushed

(* The dispatch on top goes on to its next item.                           *)
LEMMA Replacing ==
  ASSUME calls \in Seq(Frame), NEW f \in Frame, calls # <<>>, calls' = Append(Below, f)
  PROVE  Replaced(f) /\ Top \in Frame /\ Top = calls[Len(calls)]
<1>1. /\ Len(calls) \in Nat \ {0} /\ calls[Len(calls)] \in Frame
      /\ Below \in Seq(Frame) /\ Len(Below) = Len(calls) - 1
      /\ \A k \in 1 .. Len(calls) - 1 : Below[k] = calls[k]
  BY AllButLast DEF Below
<1>2. /\ calls' \in Seq(Frame) /\ Len(calls') = Len(Below) + 1
      /\ \A k \in 1 .. Len(Below) : calls'[k] = Below[k]
      /\ calls'[Len(Below) + 1] = f
  BY <1>1, AppendProperties, SMT
<1>3. Len(Below) + 1 = Len(calls)
  BY <1>1, SMT
<1> QED
  BY <1>1, <1>2, <1>3 DEF Replaced, Top

(* The dispatch on top returns.                                            *)
LEMMA Popping ==
  ASSUME calls \in Seq(Frame), calls # <<>>, calls' = Below
  PROVE  Popped /\ Top \in Frame /\ Top = calls[Len(calls)]
  BY AllButLast DEF Below, Popped, Top

-----------------------------------------------------------------------------
(***************************************************************************)
(* What a step does to the registrations.                                  *)
(***************************************************************************)
LEMMA Registrations ==
  ASSUME TypeInv
  PROVE  /\ Known = 1 .. next_id - 1 /\ next_id \in Nat \ {0}
         /\ next_id \notin Known /\ next_id \notin Active
         /\ \A i \in Known : i \in Nat /\ history[i] \in Past /\ KindOf(i) \in Kinds
         /\ Active \subseteq Known
         /\ \A i \in Active : i \in Nat /\ records[i] \in Record
<1>1. Known = 1 .. next_id - 1 /\ next_id \in Nat \ {0}
  BY SMT DEF TypeInv, Known
<1>2. \A i \in Known : history[i] \in Past
  BY ElementOfSeq, SMT DEF TypeInv, Known
<1>3. \A i \in Known : KindOf(i) \in Kinds
  BY <1>2 DEF KindOf, Past
<1>4. Active \subseteq Known /\ \A i \in Active : records[i] \in Record
  BY DEF TypeInv
<1> QED
  BY <1>1, <1>2, <1>3, <1>4, SMT

(* StartCallback counts a run, and a change that is told.                  *)
LEMMA CountingRuns ==
  ASSUME TypeInv, NEW i \in Known, NEW n \in Nat, NEW change \in Nat,
         history' = [history EXCEPT ![i].runs = @ + n,
                                    ![i].seen = IF change = 0 THEN @ ELSE Append(@, change)]
  PROVE  /\ history' \in Seq(Past) /\ Len(history') = Len(history) /\ Known' = Known
         /\ \A j \in Known : j # i => history'[j] = history[j]
         /\ history'[i].kind = history[i].kind /\ history'[i].made = history[i].made
         /\ history'[i].runs = history[i].runs + n
<1>1. history[i] \in Past
  BY Registrations
<1> DEFINE after == [history[i] EXCEPT !.runs = @ + n,
                                       !.seen = IF change = 0 THEN @ ELSE Append(@, change)]
<1>2. /\ history[i].runs + n \in Nat
      /\ (IF change = 0 THEN history[i].seen ELSE Append(history[i].seen, change)) \in Seq(Nat)
  <2>1. history[i].runs \in Nat /\ history[i].seen \in Seq(Nat)
    BY <1>1 DEF Past
  <2>2. Append(history[i].seen, change) \in Seq(Nat)
    BY <2>1, AppendProperties
  <2> QED
    BY <2>1, <2>2, SMT
<1>3. /\ after \in Past /\ after.kind = history[i].kind /\ after.made = history[i].made
      /\ after.runs = history[i].runs + n
  BY <1>1, <1>2 DEF Past
<1>4. history' = [history EXCEPT ![i] = after]
  BY DEF TypeInv, Known
<1> HIDE DEF after
<1>5. history \in Seq(Past) /\ i \in 1 .. Len(history)
  BY SMT DEF TypeInv, Known
<1>6. /\ history' \in Seq(Past) /\ Len(history') = Len(history)
      /\ \A j \in 1 .. Len(history) : history'[j] = IF j = i THEN after ELSE history[j]
  <2> DEFINE n0 == Len(history)
  <2>1. history \in [1 .. n0 -> Past] /\ n0 \in Nat
    BY <1>5, LenProperties
  <2>2. history' \in [1 .. n0 -> Past]
    BY <1>3, <1>4, <2>1
  <2>3. \A j \in 1 .. n0 : history'[j] = IF j = i THEN after ELSE history[j]
    BY <1>4, <2>1
  <2> HIDE DEF n0
  <2>4. history' \in Seq(Past)
    <3>1. Seq(Past) = UNION {[1 .. m -> Past] : m \in Nat}
      BY SeqDef
    <3>2. [1 .. n0 -> Past] \in {[1 .. m -> Past] : m \in Nat}
      BY <2>1
    <3> QED
      BY <2>2, <3>1, <3>2
  <2>5. Len(history') = n0
    BY <2>1, <2>2, <2>4, SMT
  <2> QED
    BY <2>3, <2>4, <2>5 DEF n0
<1>7. Known' = Known /\ Known = 1 .. Len(history)
  BY <1>5, <1>6, SMT DEF Known
<1> QED
  BY <1>3, <1>5, <1>6, <1>7

(* A call of register_callback, whether or not it fails, takes an id.      *)
LEMMA TakingAnId ==
  ASSUME TypeInv, NEW kind \in Kinds, NEW made \in BOOLEAN,
         history' = Append(history, Registered(kind, made)), next_id' = next_id + 1
  PROVE  /\ history' \in Seq(Past) /\ Len(history') = next_id /\ Known' = Known \cup {next_id}
         /\ \A j \in Known : history'[j] = history[j]
         /\ history'[next_id].kind = kind /\ history'[next_id].made = made
         /\ history'[next_id].runs = 0 /\ history'[next_id].seen = <<>>
<1> DEFINE past == Registered(kind, made)
<1>1. past \in Past
  <2>1. next_change \in Nat /\ <<>> \in Seq(Nat)
    BY EmptySeq DEF TypeInv
  <2> QED
    BY <2>1 DEF Past, Registered
<1>2. past.kind = kind /\ past.made = made /\ past.runs = 0 /\ past.seen = <<>>
  BY DEF Registered
<1>3. history' = Append(history, past)
  OBVIOUS
<1> HIDE DEF past
<1>4. history \in Seq(Past) /\ Len(history) = next_id - 1 /\ next_id \in Nat \ {0}
  BY DEF TypeInv
<1>5. /\ history' \in Seq(Past) /\ Len(history') = Len(history) + 1
      /\ \A j \in 1 .. Len(history) : history'[j] = history[j]
      /\ history'[Len(history) + 1] = past
  BY <1>1, <1>3, <1>4, AppendProperties, SMT
<1>6. Len(history') = next_id /\ Len(history) + 1 = next_id
  BY <1>4, <1>5, SMT
<1>7. Known' = 1 .. next_id /\ Known = 1 .. next_id - 1
  BY <1>4, <1>5, <1>6, SMT DEF Known
<1>8. Known' = Known \cup {next_id}
  BY <1>4, <1>7, SMT
<1> QED
  BY <1>2, <1>4, <1>5, <1>6, <1>7, <1>8

(* register_callback that does not fail.                                   *)
LEMMA Registering ==
  ASSUME TypeInv, NEW kind \in Kinds, NEW keeps \in BOOLEAN, RegisterCallback(kind, keeps)
  PROVE  /\ history' \in Seq(Past) /\ Len(history') = next_id /\ Known' = Known \cup {next_id}
         /\ next_id' = next_id + 1
         /\ \A j \in Known : history'[j] = history[j]
         /\ history'[next_id].kind = kind /\ history'[next_id].runs = 0 /\ history'[next_id].made
         /\ Active' = Active \cup {next_id} /\ records' \in [Active' -> Record]
         /\ \A j \in Active : records'[j] = records[j]
         /\ records'[next_id].kind = kind /\ records'[next_id].keeps = keeps
<1> DEFINE record == [kind |-> kind, keeps |-> keeps, delivered_through |-> 0]
<1>1. history' = Append(history, Registered(kind, TRUE)) /\ next_id' = next_id + 1
  BY DEF RegisterCallback
<1>2. /\ history' \in Seq(Past) /\ Len(history') = next_id /\ Known' = Known \cup {next_id}
      /\ \A j \in Known : history'[j] = history[j]
      /\ history'[next_id].kind = kind /\ history'[next_id].made = TRUE
      /\ history'[next_id].runs = 0
  BY <1>1, TakingAnId
<1>3. records' = [i \in Active \cup {next_id} |-> IF i # next_id THEN records[i] ELSE record]
  BY DEF RegisterCallback
<1>4. record \in Record /\ record.kind = kind /\ record.keeps = keeps
  BY DEF Record
<1> HIDE DEF record
<1>5. next_id \notin Active /\ \A i \in Active : records[i] \in Record
  BY Registrations
<1>6. Active' = Active \cup {next_id}
  BY <1>3 DEF Active
<1>7. /\ records' \in [Active' -> Record]
      /\ \A j \in Active : records'[j] = records[j]
      /\ records'[next_id] = record
  BY <1>3, <1>4, <1>5, <1>6
<1> QED
  BY <1>1, <1>2, <1>4, <1>6, <1>7

(* register_callback that fails.                                           *)
LEMMA FailingToRegister ==
  ASSUME TypeInv, NEW kind \in Kinds, NEW keeps \in BOOLEAN, RegisterFails(kind, keeps)
  PROVE  /\ history' \in Seq(Past) /\ Len(history') = next_id /\ Known' = Known \cup {next_id}
         /\ next_id' = next_id + 1
         /\ \A j \in Known : history'[j] = history[j]
         /\ history'[next_id].kind = kind /\ history'[next_id].runs = 0
         /\ history'[next_id].seen = <<>> /\ ~history'[next_id].made
         /\ next_id \in Failed' /\ Active' = Active
<1>1. history' = Append(history, Registered(kind, FALSE)) /\ next_id' = next_id + 1
      /\ records' = records
  BY DEF RegisterFails
<1>2. /\ history' \in Seq(Past) /\ Len(history') = next_id /\ Known' = Known \cup {next_id}
      /\ \A j \in Known : history'[j] = history[j]
      /\ history'[next_id].kind = kind /\ history'[next_id].made = FALSE
      /\ history'[next_id].runs = 0 /\ history'[next_id].seen = <<>>
  BY <1>1, TakingAnId
<1>3. next_id \in Failed'
  BY <1>2 DEF Failed
<1>4. Active' = Active
  BY <1>1 DEF Active
<1> QED
  BY <1>1, <1>2, <1>3, <1>4

(* observe_value_change retires the registrations when it fails.           *)
LEMMA FailingToObserve ==
  ASSUME TypeInv, RecordsInv, ObserveFails
  PROVE  \E gone :
           /\ gone \subseteq indexed \cap Active
           /\ Active' = Active \ gone /\ records' \in [Active' -> Record]
           /\ \A j \in Active' : records'[j] = records[j]
           /\ indexed' = indexed \ gone
           /\ pending_value_count' = pending_value_count - Cardinality({i \in gone : records[i].keeps})
           /\ pending_values' = {}
<1> DEFINE gone == Due(next_change) \cap Active
<1>1. /\ records' = Without(gone) /\ indexed' = indexed \ gone
      /\ pending_value_count' = pending_value_count - Cardinality({i \in gone : records[i].keeps})
      /\ pending_values' = {}
  BY DEF ObserveFails
<1>2. gone \subseteq indexed \cap Active
  BY DEF Due
<1> HIDE DEF gone
<1>3. records' = [i \in Active \ gone |-> records[i]]
  BY <1>1 DEF Without
<1>4. Active' = Active \ gone
  BY <1>3 DEF Active
<1>5. \A i \in Active : records[i] \in Record
  BY Registrations
<1>6. records' \in [Active' -> Record] /\ \A j \in Active' : records'[j] = records[j]
  BY <1>3, <1>4, <1>5
<1> QED
  BY <1>1, <1>2, <1>4, <1>6

(* retire removes a registration and its kept changes.                     *)
LEMMA Retiring ==
  ASSUME TypeInv, NEW id \in Active, Retire(id)
  PROVE  /\ Active' = Active \ {id} /\ records' \in [Active' -> Record]
         /\ \A j \in Active' : records'[j] = records[j]
         /\ pending_values' \subseteq pending_values
<1>1. records' = [i \in Active \ {id} |-> records[i]]
  BY DEF Retire, Without
<1>2. Active' = Active \ {id}
  BY <1>1 DEF Active
<1>3. \A i \in Active : records[i] \in Record
  BY Registrations
<1>4. records' \in [Active' -> Record] /\ \A j \in Active' : records'[j] = records[j]
  BY <1>1, <1>2, <1>3
<1>5. pending_values' \subseteq pending_values
  BY DEF Retire
<1> QED
  BY <1>2, <1>4, <1>5

(* No step forgets a registration, changes its kind or makes it anew.      *)
Kept == /\ Known \subseteq Known'
        /\ \A i \in Known : KindOf(i)' = KindOf(i) /\ history'[i].made = history[i].made

(* Only a run of a callback changes what is known of a registration, and   *)
(* neither its kind nor whether it was made.                               *)
LEMMA PastKept ==
  ASSUME TypeInv, WaitingInv, ItemsInv, Next
  PROVE  Kept
<1>1. CASE history' = history
  BY <1>1 DEF Known, KindOf, Kept
<1>2. ASSUME NEW kind \in Kinds, NEW keeps \in BOOLEAN,
             RegisterCallback(kind, keeps) \/ RegisterFails(kind, keeps)
      PROVE  Kept
  <2>1. Known' = Known \cup {next_id} /\ \A j \in Known : history'[j] = history[j]
    BY <1>2, Registering, FailingToRegister
  <2> QED
    BY <2>1 DEF KindOf, Kept
<1>3. ASSUME StartCallback
      PROVE  Kept
  <2>1. CASE history' = history
    BY <1>1, <2>1
  <2>2. CASE history' # history
    <3>1. calls # <<>> /\ calls \in Seq(Frame)
      BY <1>3 DEF StartCallback, TypeInv
    <3>2. Len(calls) \in 1 .. Len(calls) /\ Top \in Frame /\ Top = calls[Len(calls)]
      BY <3>1, AllButLast, SMT DEF Top
    <3>3. PICK item \in Top.items :
            history' = [history EXCEPT ![item.id].runs = @ + IF OneShot(records[item.id].kind) THEN 1 ELSE 0,
                          ![item.id].seen = IF item.change = 0 THEN @ ELSE Append(@, item.change)]
      BY <1>3, <2>2 DEF StartCallback
    <3>4. item.id \in Known
      BY <3>2 DEF ItemsInv, Cleared
    <3>5. item.change \in Nat
      BY <3>2 DEF Frame
    <3>6. (IF OneShot(records[item.id].kind) THEN 1 ELSE 0) \in Nat
      OBVIOUS
    <3>7. /\ Known' = Known
          /\ \A j \in Known : j # item.id => history'[j] = history[j]
          /\ history'[item.id].kind = history[item.id].kind
          /\ history'[item.id].made = history[item.id].made
      BY <3>3, <3>4, <3>5, <3>6, CountingRuns
    <3> QED
      BY <3>7 DEF KindOf, Kept
  <2> QED
    BY <2>1, <2>2
<1>4. \/ history' = history \/ StartCallback
      \/ \E kind \in Kinds, keeps \in BOOLEAN :
           RegisterCallback(kind, keeps) \/ RegisterFails(kind, keeps)
  BY DEF Next, RemoveCallback, DispatchPending, ObserveValueChange, ObserveFails,
         RunValueChange, RunTimed, RunEnd, RunLifecycle, SlotStart, DispatchLifecycle,
         DispatchNow, EndDispatch, CallbackReturns
<1> QED
  BY <1>1, <1>2, <1>3, <1>4

(* The same, of kinds and of failed registrations.                         *)
LEMMA KindsKept ==
  ASSUME TypeInv, WaitingInv, ItemsInv, Next
  PROVE  /\ Known \subseteq Known' /\ \A i \in Known : KindOf(i)' = KindOf(i)
         /\ Failed \subseteq Failed' /\ Failed' \cap Known \subseteq Failed
  BY PastKept DEF Kept, Failed

(* No step makes a registration reachable again.                           *)
LEMMA ClearedKept ==
  ASSUME TypeInv, WaitingInv, ItemsInv, Next
  PROVE  \A i : Cleared(i) => Cleared(i)'
<1>1. Known \subseteq Known'
  BY KindsKept
<1>2. next_id \notin Known
  BY Registrations
<1>3. ASSUME NEW kind \in Kinds, NEW keeps \in BOOLEAN,
             RegisterCallback(kind, keeps) \/ RegisterFails(kind, keeps)
      PROVE  /\ slot_start_waiting' \subseteq slot_start_waiting \cup {next_id}
             /\ \A t \in scheduled' : t.kind \in Own => t \in scheduled \/ t.id = next_id
  <2>1. CASE RegisterCallback(kind, keeps)
    BY <2>1, SMT DEF RegisterCallback, Task
  <2>2. CASE RegisterFails(kind, keeps)
    BY <2>2 DEF RegisterFails
  <2> QED
    BY <1>3, <2>1, <2>2
<1>4. CASE ~\E kind \in Kinds, keeps \in BOOLEAN :
             RegisterCallback(kind, keeps) \/ RegisterFails(kind, keeps)
  <2>1. slot_start_waiting' \subseteq slot_start_waiting
    BY <1>4 DEF Next, RemoveCallback, DispatchPending, ObserveValueChange, ObserveFails,
       RunValueChange, RunTimed, RunEnd, RunLifecycle, SlotStart, DispatchLifecycle, DispatchNow,
       StartCallback, EndDispatch, CallbackReturns
  <2>2. \A t \in scheduled' : t.kind \in Own => t \in scheduled
    <3>1. ASSUME ObserveValueChange \/ DispatchLifecycle \/ \E t \in scheduled : RunEnd(t)
          PROVE  \A t \in scheduled' : t.kind \in Own => t \in scheduled
      BY <3>1, SMT DEF ObserveValueChange, DispatchLifecycle, RunEnd, Task, Own
    <3>2. CASE scheduled' \subseteq scheduled
      BY <3>2
    <3>3. \/ ObserveValueChange \/ DispatchLifecycle \/ \E t \in scheduled : RunEnd(t)
          \/ scheduled' \subseteq scheduled
      BY <1>4 DEF Next, RemoveCallback, DispatchPending, ObserveFails, RunValueChange,
         RunTimed, RunLifecycle, SlotStart, DispatchNow, StartCallback, EndDispatch, CallbackReturns
    <3> QED
      BY <3>1, <3>2, <3>3
  <2> QED
    BY <1>1, <2>1, <2>2 DEF Cleared
<1> QED
  BY <1>1, <1>2, <1>3, <1>4 DEF Cleared

(* A dispatch that begins: of registrations that nothing else reaches, in  *)
(* another dispatch only of the kinds that may be nested.                  *)
Begins(f) ==
  /\ f \in Frame /\ Pushed(f) /\ f.running = FALSE
  /\ \A x \in f.items :
       /\ x.id \in Known /\ (Cleared(x.id) \/ Cleared(x.id)')
       /\ Len(calls) # 0 => KindOf(x.id) \in {"life", "assert", "value"}
       /\ KindOf(x.id) = "life" => f.guarded = "life"
  /\ f.guarded = "life" => /\ "life" \in dispatching'
                           /\ \A k \in 1 .. Len(calls) : calls[k].guarded # "life"
  /\ dispatching \subseteq dispatching'
GoesOn(f) ==
  /\ f \in Frame /\ Replaced(f) /\ dispatching' = dispatching
  /\ f.items \subseteq calls[Len(calls)].items /\ f.guarded = calls[Len(calls)].guarded
Ends == Popped /\ dispatching' = dispatching \ {calls[Len(calls)].guarded}

(* Registrations of the kinds that neither wait nor have tasks are cleared.*)
LEMMA ClearedKinds ==
  ASSUME TypeInv, WaitingInv, NEW i \in Known, KindOf(i) \in {"value", "life", "assert"}
  PROVE  Cleared(i)
<1>1. i \notin slot_start_waiting
  BY DEF WaitingInv
<1>2. ASSUME NEW t \in scheduled, t.kind \in Own, t.id = i PROVE FALSE
  <2>1. t = Task(KindOf(i), i, 0, {})
    BY <1>2 DEF WaitingInv
  <2>2. t.kind = KindOf(i)
    BY <2>1 DEF Task
  <2> QED
    BY <1>2, <2>2 DEF Own
<1> QED
  BY <1>1, <1>2 DEF Cleared

(* A change is dispatched in its turn to registrations of the index, which *)
(* neither wait nor have tasks.                                            *)
LEMMA BeginsValue ==
  ASSUME TypeInv, RecordsInv, WaitingInv, NEW t \in scheduled, RunValueChange(t)
  PROVE  UNCHANGED <<calls, dispatching>> \/ \E f : Begins(f)
<1>0. PICK f : f = Dispatch(Items(Due(t.change), t.change), "value")
  OBVIOUS
<1>1. CASE Due(t.change) = {}
  BY <1>1 DEF RunValueChange
<1>2. CASE Due(t.change) # {}
  <2>1. calls = <<>> /\ calls' = <<f>> /\ dispatching' = dispatching \cup {"value"}
    BY <1>0, <1>2 DEF RunValueChange
  <2>2. \A i \in Due(t.change) : i \in Known /\ i \in Nat /\ KindOf(i) = "value"
    <3>1. Due(t.change) \subseteq indexed
      BY DEF Due
    <3>2. indexed \subseteq Known /\ \A i \in indexed : KindOf(i) = "value"
      BY Registrations DEF RecordsInv, Failed
    <3> QED
      BY <3>1, <3>2, Registrations
  <2>3. t.change \in Nat /\ calls \in Seq(Frame)
    BY DEF TypeInv
  <2>4. /\ f \in Frame /\ f.running = FALSE /\ f.guarded = "value"
        /\ \A x \in f.items : x.id \in Due(t.change)
    <3>1. Due(t.change) \subseteq Nat /\ "value" \in Guards
      BY <2>2 DEF Guards
    <3> QED
      BY <1>0, <2>3, <3>1, SMT DEF Dispatch, Items, Frame
  <2>5. Pushed(f) /\ Len(calls) = 0
    BY <2>1, <2>3, <2>4, PushingFirst
  <2>6. \A x \in f.items : x.id \in Known /\ Cleared(x.id) /\ KindOf(x.id) # "life"
    BY <2>2, <2>4, ClearedKinds
  <2>7. "value" # "life" /\ dispatching \subseteq dispatching'
    BY <2>1
  <2>8. Begins(f)
    BY <2>4, <2>5, <2>6, <2>7 DEF Begins
  <2> QED
    BY <2>8
<1> QED
  BY <1>1, <1>2

(* The task of a registration, gone when it runs, dispatches it.           *)
LEMMA BeginsTimed ==
  ASSUME TypeInv, WaitingInv, NEW t \in scheduled, RunTimed(t)
  PROVE  \E f : Begins(f)
<1>0. PICK f : f = Dispatch(Items({t.id}, 0), "none")
  OBVIOUS
<1>1. /\ calls = <<>> /\ calls' = <<f>> /\ dispatching' = dispatching
      /\ scheduled' = scheduled \ {t} /\ t.kind \in {"timed", "last"}
      /\ slot_start_waiting' = slot_start_waiting /\ history' = history
  BY <1>0 DEF RunTimed
<1>2. t.id \in Known /\ t.id \in Nat /\ KindOf(t.id) # "life" /\ (Cleared(t.id) \/ Cleared(t.id)')
  <2>1. CASE t.kind = "last"
    <3>1. Cleared(t.id) /\ KindOf(t.id) = "end"
      BY <2>1 DEF WaitingInv
    <3>2. t.id \in Known /\ t.id \in Nat
      BY <3>1, Registrations DEF Cleared
    <3> QED
      BY <3>1, <3>2
  <2>2. CASE t.kind = "timed"
    <3>1. t.id \in Active /\ t = Task(KindOf(t.id), t.id, 0, {})
      BY <2>2 DEF WaitingInv, Own
    <3>2. KindOf(t.id) = "timed"
      BY <2>2, <3>1, SMT DEF Task
    <3>3. t.id \in Known /\ t.id \in Nat
      BY <3>1, Registrations
    <3>4. t.id \notin slot_start_waiting
      BY <3>2 DEF WaitingInv
    <3>5. \A u \in scheduled : u.kind \in Own /\ u.id = t.id => u = t
      BY <3>1 DEF WaitingInv
    <3>6. PICK i : i = t.id
      OBVIOUS
    <3>7. Cleared(i)'
      BY <1>1, <3>3, <3>4, <3>5, <3>6 DEF Cleared, Known
    <3> QED
      BY <3>2, <3>3, <3>6, <3>7
  <2> QED
    BY <1>1, <2>1, <2>2
<1>3. /\ f \in Frame /\ f.running = FALSE /\ f.guarded = "none"
      /\ \A x \in f.items : x.id = t.id
  <2>1. {t.id} \subseteq Nat /\ 0 \in Nat /\ "none" \in Guards
    BY <1>2 DEF Guards
  <2>2. /\ f \in Frame /\ f.running = FALSE /\ f.guarded = "none"
        /\ \A x \in f.items : x.id \in {t.id}
    BY <1>0, <2>1, SMT DEF Dispatch, Items, Frame
  <2> QED
    BY <2>2
<1>4. calls \in Seq(Frame)
  BY DEF TypeInv
<1>5. Pushed(f) /\ Len(calls) = 0
  BY <1>1, <1>3, <1>4, PushingFirst
<1>6. "none" # "life" /\ dispatching \subseteq dispatching'
  BY <1>1
<1>7. \A x \in f.items : /\ x.id \in Known /\ KindOf(x.id) # "life"
                         /\ Cleared(x.id) \/ Cleared(x.id)'
  BY <1>2, <1>3
<1>8. Begins(f)
  BY <1>3, <1>5, <1>6, <1>7 DEF Begins
<1> QED
  BY <1>8

(* A slot start takes out of the waiting what it dispatches.               *)
LEMMA BeginsSlotStart ==
  ASSUME TypeInv, WaitingInv, NEW due \in SUBSET slot_start_waiting, SlotStart(due)
  PROVE  \E f : Begins(f)
<1>0. PICK f : f = Dispatch(Items(due, 0), "none")
  OBVIOUS
<1>1. /\ calls = <<>> /\ calls' = <<f>> /\ dispatching' = dispatching
      /\ scheduled' = scheduled /\ history' = history
      /\ slot_start_waiting' = slot_start_waiting \ due
  BY <1>0 DEF SlotStart
<1>2. \A i \in due : i \in Known /\ i \in Nat /\ KindOf(i) \in {"next", "slot"}
  BY Registrations DEF WaitingInv, Failed
<1>3. \A i \in due : Cleared(i)'
  <2> SUFFICES ASSUME NEW i \in due PROVE Cleared(i)'
    OBVIOUS
  <2>1. ASSUME NEW t \in scheduled, t.kind \in Own, t.id = i PROVE FALSE
    <3>1. t = Task(KindOf(i), i, 0, {})
      BY <2>1 DEF WaitingInv
    <3>2. t.kind = KindOf(i)
      BY <3>1 DEF Task
    <3> QED
      BY <1>2, <2>1, <3>2 DEF Own
  <2> QED
    BY <1>1, <1>2, <2>1 DEF Cleared, Known
<1>4. /\ f \in Frame /\ f.running = FALSE /\ f.guarded = "none"
      /\ \A x \in f.items : x.id \in due
  <2>1. due \subseteq Nat /\ "none" \in Guards
    BY <1>2 DEF Guards
  <2> QED
    BY <1>0, <2>1, SMT DEF Dispatch, Items, Frame
<1>5. calls \in Seq(Frame)
  BY DEF TypeInv
<1>6. Pushed(f) /\ Len(calls) = 0
  BY <1>1, <1>4, <1>5, PushingFirst
<1>7. "none" # "life" /\ dispatching \subseteq dispatching'
  BY <1>1
<1>8. \A x \in f.items : x.id \in Known /\ KindOf(x.id) # "life"
  BY <1>2, <1>4
<1>9. \A x \in f.items : Cleared(x.id)'
  BY <1>3, <1>4
<1>10. Begins(f)
  BY <1>4, <1>6, <1>7, <1>8, <1>9 DEF Begins
<1> QED
  BY <1>10

(* A lifecycle task dispatches registrations of its kind only.             *)
LEMMA BeginsLifecycle ==
  ASSUME TypeInv, WaitingInv, NEW t \in scheduled, RunLifecycle(t)
  PROVE  \E f : Begins(f)
<1>0. PICK f : f = Dispatch(Items(t.ids, 0), "life")
  OBVIOUS
<1>1. calls = <<>> /\ calls' = <<f>> /\ dispatching' = dispatching \cup {"life"} /\ t.kind = "life"
  BY <1>0 DEF RunLifecycle
<1>2. \A i \in t.ids : i \in Known /\ i \in Nat /\ KindOf(i) = "life"
  BY <1>1, Registrations DEF WaitingInv
<1>3. /\ f \in Frame /\ f.running = FALSE /\ f.guarded = "life"
      /\ \A x \in f.items : x.id \in t.ids
  <2>1. t.ids \subseteq Nat /\ "life" \in Guards
    BY <1>2 DEF Guards
  <2> QED
    BY <1>0, <2>1, SMT DEF Dispatch, Items, Frame
<1>4. calls \in Seq(Frame)
  BY DEF TypeInv
<1>5. Pushed(f) /\ Len(calls) = 0
  BY <1>1, <1>3, <1>4, PushingFirst
<1>6. \A x \in f.items : x.id \in Known /\ Cleared(x.id)
  BY <1>2, <1>3, ClearedKinds
<1>7. "life" \in dispatching' /\ dispatching \subseteq dispatching'
  BY <1>1
<1>8. Begins(f)
  BY <1>3, <1>5, <1>6, <1>7, SMT DEF Begins
<1> QED
  BY <1>8

(* An immediate dispatch is refused when one of its kind is in progress.   *)
LEMMA BeginsNow ==
  ASSUME TypeInv, RecordsInv, WaitingInv, StackInv,
         NEW kind \in {"life", "assert"}, DispatchNow(kind)
  PROVE  \E f : Begins(f)
<1>0. PICK f : f = Dispatch(Items(OfKind(kind), 0), kind)
  OBVIOUS
<1>1. /\ calls' = Append(calls, f) /\ dispatching' = dispatching \cup {kind}
      /\ kind \notin dispatching
  BY <1>0 DEF DispatchNow
<1>2. \A i \in OfKind(kind) : i \in Known /\ i \in Nat /\ KindOf(i) = kind
  BY Registrations DEF RecordsInv, OfKind
<1>3. /\ f \in Frame /\ f.running = FALSE /\ f.guarded = kind
      /\ \A x \in f.items : x.id \in OfKind(kind)
  <2>1. OfKind(kind) \subseteq Nat /\ kind \in Guards
    BY <1>2 DEF Guards
  <2> QED
    BY <1>0, <2>1, SMT DEF Dispatch, Items, Frame
<1>4. calls \in Seq(Frame)
  BY DEF TypeInv
<1>5. Pushed(f)
  BY <1>1, <1>3, <1>4, Pushing
<1>6. \A x \in f.items : x.id \in Known /\ Cleared(x.id) /\ KindOf(x.id) = kind
  BY <1>2, <1>3, ClearedKinds
<1>7. kind \in dispatching' /\ dispatching \subseteq dispatching'
  BY <1>1
<1>8. kind = "life" => \A k \in 1 .. Len(calls) : calls[k].guarded # "life"
  BY <1>1 DEF StackInv
<1>9. Begins(f)
  BY <1>3, <1>5, <1>6, <1>7, <1>8 DEF Begins
<1> QED
  BY <1>9

(* dispatch_pending dispatches one registration, of the value-change kind. *)
LEMMA BeginsPending ==
  ASSUME TypeInv, RecordsInv, WaitingInv, NEW id \in Ids, DispatchPending(id)
  PROVE  \E f : Begins(f)
<1>1. PICK new : /\ new \subseteq pending_values
                 /\ calls' = Append(calls, Dispatch({[id |-> id, change |-> c] : c \in new}, "none"))
  BY DEF DispatchPending
<1>2. PICK f : f = Dispatch({[id |-> id, change |-> c] : c \in new}, "none")
  OBVIOUS
<1>3. id \in Known /\ id \in Nat /\ KindOf(id) = "value" /\ dispatching' = dispatching
  BY Registrations DEF DispatchPending, RecordsInv
<1>4. f \in Frame /\ f.running = FALSE /\ f.guarded = "none" /\ \A x \in f.items : x.id = id
  <2>1. \A c \in new : c \in Nat
    BY <1>1, SMT DEF TypeInv
  <2>2. "none" \in Guards
    BY DEF Guards
  <2> QED
    BY <1>2, <1>3, <2>1, <2>2, SMT DEF Dispatch, Frame
<1>5. calls \in Seq(Frame)
  BY DEF TypeInv
<1>6. Pushed(f)
  BY <1>1, <1>2, <1>4, <1>5, Pushing
<1>7. \A x \in f.items : x.id \in Known /\ Cleared(x.id) /\ KindOf(x.id) = "value"
  BY <1>3, <1>4, ClearedKinds
<1>8. "none" # "life" /\ dispatching \subseteq dispatching'
  BY <1>3
<1>9. Begins(f)
  BY <1>4, <1>6, <1>7, <1>8 DEF Begins
<1> QED
  BY <1>9

(* A callback that starts or returns leaves the dispatches below alone.    *)
LEMMA GoingOn ==
  ASSUME TypeInv, StartCallback \/ \E failed \in BOOLEAN : CallbackReturns(failed)
  PROVE  \E f : GoesOn(f)
<1>1. calls # <<>> /\ calls \in Seq(Frame) /\ dispatching' = dispatching
  BY DEF StartCallback, CallbackReturns, TypeInv
<1>2. Top \in Frame /\ Top = calls[Len(calls)]
  BY <1>1, AllButLast DEF Top
<1> DEFINE Fits(f) == f \in Frame /\ f.items \subseteq Top.items /\ f.guarded = Top.guarded
<1>3. /\ Fits([Top EXCEPT !.running = TRUE])
      /\ \A item : Fits([Top EXCEPT !.items = @ \ {item}])
      /\ \A item : Fits([Top EXCEPT !.running = FALSE, !.items = @ \ {item}])
  BY <1>2 DEF Frame
<1> HIDE DEF Fits
<1>4. PICK f : Fits(f) /\ calls' = Append(Below, f)
  <2>1. CASE StartCallback
    <3>1. \/ calls' = Append(Below, [Top EXCEPT !.running = TRUE])
          \/ \E item \in Top.items : calls' = Append(Below, [Top EXCEPT !.items = @ \ {item}])
      BY <2>1 DEF StartCallback
    <3> QED
      BY <1>3, <3>1
  <2>2. CASE \E failed \in BOOLEAN : CallbackReturns(failed)
    <3>1. \E item \in Top.items :
            calls' = Append(Below, [Top EXCEPT !.running = FALSE, !.items = @ \ {item}])
      BY <2>2 DEF CallbackReturns
    <3> QED
      BY <1>3, <3>1
  <2> QED
    BY <2>1, <2>2
<1>5. Replaced(f)
  BY <1>1, <1>4, Replacing DEF Fits
<1> QED
  BY <1>1, <1>2, <1>4, <1>5 DEF GoesOn, Fits

(* Every step leaves the stack, or is one of these.                        *)
LEMMA StackStep ==
  ASSUME TypeInv, RecordsInv, WaitingInv, StackInv, Next
  PROVE  \/ UNCHANGED <<calls, dispatching>>
         \/ \E f : Begins(f)
         \/ \E f : GoesOn(f)
         \/ Ends
<1>1. CASE EndDispatch
  <2>1. /\ calls # <<>> /\ calls \in Seq(Frame) /\ calls' = Below
        /\ dispatching' = dispatching \ {Top.guarded}
    BY <1>1 DEF EndDispatch, TypeInv
  <2>2. Popped /\ Top = calls[Len(calls)]
    BY <2>1, Popping
  <2> QED
    BY <2>1, <2>2 DEF Ends
<1>2. CASE UNCHANGED <<calls, dispatching>>
  BY <1>2
<1>3. CASE StartCallback \/ \E failed \in BOOLEAN : CallbackReturns(failed)
  BY <1>3, GoingOn
<1>4. CASE \/ \E t \in scheduled : RunValueChange(t) \/ RunTimed(t) \/ RunLifecycle(t)
           \/ \E id \in Ids : DispatchPending(id)
           \/ \E due \in SUBSET slot_start_waiting : SlotStart(due)
           \/ \E kind \in {"life", "assert"} : DispatchNow(kind)
  BY <1>4, BeginsValue, BeginsTimed, BeginsLifecycle, BeginsPending, BeginsSlotStart, BeginsNow
<1>5. \/ \E kind \in Kinds, keeps \in BOOLEAN :
           RegisterCallback(kind, keeps) \/ RegisterFails(kind, keeps)
      \/ \E id \in Ids : RemoveCallback(id)
      \/ ObserveValueChange \/ ObserveFails \/ DispatchLifecycle \/ \E t \in scheduled : RunEnd(t)
      => UNCHANGED <<calls, dispatching>>
  BY DEF RegisterCallback, RegisterFails, RemoveCallback, ObserveValueChange, ObserveFails,
     DispatchLifecycle, RunEnd
<1> QED
  BY <1>1, <1>2, <1>3, <1>4, <1>5 DEF Next

-----------------------------------------------------------------------------
(***************************************************************************)
(* The invariant through the steps.                                        *)
(***************************************************************************)
(* The frames of the stack after a step.                                   *)
LEMMA Frames ==
  ASSUME TypeInv
  PROVE  /\ Len(calls) \in Nat
         /\ \A f : Begins(f) => /\ Len(calls') = Len(calls) + 1
                                /\ \A k \in 1 .. Len(calls) + 1 :
                                     IF k = Len(calls) + 1 THEN calls'[k] = f ELSE calls'[k] = calls[k]
         /\ \A f : GoesOn(f) => /\ Len(calls') = Len(calls) /\ Len(calls) # 0
                                /\ \A k \in 1 .. Len(calls) :
                                     IF k = Len(calls) THEN calls'[k] = f ELSE calls'[k] = calls[k]
         /\ Ends => /\ Len(calls') = Len(calls) - 1 /\ Len(calls) # 0
                    /\ \A k \in 1 .. Len(calls) - 1 : calls'[k] = calls[k]
<1>1. Len(calls) \in Nat
  BY LenProperties DEF TypeInv
<1> QED
  BY <1>1, SMT DEF Begins, Pushed, GoesOn, Replaced, Ends, Popped

(* What is being dispatched is not waiting as well.                        *)
LEMMA ItemsKept ==
  ASSUME TypeInv, RecordsInv, WaitingInv, ItemsInv, StackInv, Next
  PROVE  ItemsInv'
<1>1. \A i : Cleared(i) => Cleared(i)'
  BY ClearedKept
<1>2. CASE UNCHANGED <<calls, dispatching>>
  BY <1>1, <1>2 DEF ItemsInv
<1>3. ASSUME NEW f, Begins(f) PROVE ItemsInv'
  <2> SUFFICES ASSUME NEW k \in 1 .. Len(calls'), NEW x \in calls'[k].items
               PROVE  Cleared(x.id)'
    BY DEF ItemsInv
  <2>1. CASE k = Len(calls) + 1
    <3>1. calls'[k] = f
      BY <1>3, <2>1, Frames
    <3> QED
      BY <1>1, <1>3, <3>1 DEF Begins
  <2>2. CASE k # Len(calls) + 1
    <3>1. k \in 1 .. Len(calls) /\ calls'[k] = calls[k]
      BY <1>3, <2>2, Frames, SMT
    <3> QED
      BY <1>1, <3>1 DEF ItemsInv
  <2> QED
    BY <2>1, <2>2
<1>4. ASSUME NEW f, GoesOn(f) PROVE ItemsInv'
  <2> SUFFICES ASSUME NEW k \in 1 .. Len(calls'), NEW x \in calls'[k].items
               PROVE  k \in 1 .. Len(calls) /\ x \in calls[k].items
    BY <1>1 DEF ItemsInv
  <2>1. k \in 1 .. Len(calls) /\ IF k = Len(calls) THEN calls'[k] = f ELSE calls'[k] = calls[k]
    BY <1>4, Frames
  <2> QED
    BY <1>4, <2>1 DEF GoesOn
<1>5. ASSUME Ends PROVE ItemsInv'
  <2> SUFFICES ASSUME NEW k \in 1 .. Len(calls'), NEW x \in calls'[k].items
               PROVE  k \in 1 .. Len(calls) /\ x \in calls[k].items
    BY <1>1 DEF ItemsInv
  <2> QED
    BY <1>5, Frames, SMT
<1> QED
  BY <1>2, <1>3, <1>4, <1>5, StackStep

(* Nested dispatches are of the kinds that may nest, one of the lifecycle  *)
(* kind.                                                                   *)
LEMMA StackKept ==
  ASSUME TypeInv, RecordsInv, WaitingInv, ItemsInv, StackInv, Next
  PROVE  StackInv'
<1>1. \A k \in 1 .. Len(calls) : \A x \in calls[k].items : KindOf(x.id)' = KindOf(x.id)
  BY KindsKept DEF ItemsInv, Cleared
<1>2. CASE UNCHANGED <<calls, dispatching>>
  BY <1>1, <1>2 DEF StackInv
<1>3. ASSUME NEW f, Begins(f) PROVE StackInv'
  <2>1. /\ Len(calls) \in Nat /\ Len(calls') = Len(calls) + 1
        /\ \A k \in 1 .. Len(calls) + 1 :
             IF k = Len(calls) + 1 THEN calls'[k] = f ELSE calls'[k] = calls[k] /\ k \in 1 .. Len(calls)
    BY <1>3, Frames, SMT
  <2>2. \A x \in f.items : KindOf(x.id)' = KindOf(x.id)
    BY <1>3, KindsKept DEF Begins
  <2>3. \A x \in f.items :
          /\ Len(calls) + 1 > 1 => KindOf(x.id) \in {"life", "assert", "value"}
          /\ KindOf(x.id) = "life" => f.guarded = "life"
    BY <1>3, <2>1, SMT DEF Begins
  <2>4. /\ f.guarded = "life" => /\ "life" \in dispatching'
                                 /\ \A k \in 1 .. Len(calls) : calls[k].guarded # "life"
        /\ dispatching \subseteq dispatching'
    BY <1>3 DEF Begins
  <2>5. \A k \in 1 .. Len(calls') : \A x \in calls'[k].items :
          /\ k > 1 => KindOf(x.id)' \in {"life", "assert", "value"}
          /\ KindOf(x.id)' = "life" => calls'[k].guarded = "life"
    <3> SUFFICES ASSUME NEW k \in 1 .. Len(calls'), NEW x \in calls'[k].items
                 PROVE  /\ k > 1 => KindOf(x.id)' \in {"life", "assert", "value"}
                        /\ KindOf(x.id)' = "life" => calls'[k].guarded = "life"
      OBVIOUS
    <3>1. CASE k = Len(calls) + 1
      BY <2>1, <2>2, <2>3, <3>1
    <3>2. CASE k # Len(calls) + 1
      BY <1>1, <2>1, <3>2, SMT DEF StackInv
    <3> QED
      BY <3>1, <3>2
  <2>6. \A k \in 1 .. Len(calls') : calls'[k].guarded = "life" => "life" \in dispatching'
    BY <2>1, <2>4, SMT DEF StackInv
  <2>7. \A j, k \in 1 .. Len(calls') :
          calls'[j].guarded = "life" /\ calls'[k].guarded = "life" => j = k
    BY <2>1, <2>4 DEF StackInv
  <2> QED
    BY <2>5, <2>6, <2>7 DEF StackInv
<1>4. ASSUME NEW f, GoesOn(f) PROVE StackInv'
  <2>1. /\ Len(calls) \in Nat /\ Len(calls') = Len(calls)
        /\ \A k \in 1 .. Len(calls) :
             IF k = Len(calls) THEN calls'[k] = f ELSE calls'[k] = calls[k]
    BY <1>4, Frames
  <2>2. dispatching' = dispatching
    BY <1>4 DEF GoesOn
  <2>3. \A k \in 1 .. Len(calls) : calls'[k].items \subseteq calls[k].items /\ calls'[k].guarded = calls[k].guarded
    BY <1>4, <2>1 DEF GoesOn
  <2> QED
    BY <1>1, <2>1, <2>2, <2>3, SMT DEF StackInv
<1>5. ASSUME Ends PROVE StackInv'
  <2>1. /\ Len(calls) \in Nat /\ Len(calls') = Len(calls) - 1 /\ Len(calls) # 0
        /\ \A k \in 1 .. Len(calls) - 1 : calls'[k] = calls[k]
    BY <1>5, Frames
  <2>2. dispatching' = dispatching \ {calls[Len(calls)].guarded}
    BY <1>5 DEF Ends
  <2>3. \A k \in 1 .. Len(calls') : k \in 1 .. Len(calls) /\ k # Len(calls) /\ calls'[k] = calls[k]
    BY <2>1, SMT
  <2>4. Len(calls) \in 1 .. Len(calls)
    BY <2>1, SMT
  <2>5. \A k \in 1 .. Len(calls') : calls'[k].guarded = "life" => "life" \in dispatching'
    BY <2>2, <2>3, <2>4 DEF StackInv
  <2>6. \A k \in 1 .. Len(calls') : \A x \in calls'[k].items :
          /\ k > 1 => KindOf(x.id)' \in {"life", "assert", "value"}
          /\ KindOf(x.id)' = "life" => calls'[k].guarded = "life"
    BY <1>1, <2>3, SMT DEF StackInv
  <2>7. \A j, k \in 1 .. Len(calls') :
          calls'[j].guarded = "life" /\ calls'[k].guarded = "life" => j = k
    BY <2>3 DEF StackInv
  <2> QED
    BY <2>5, <2>6, <2>7 DEF StackInv
<1> QED
  BY <1>2, <1>3, <1>4, <1>5, StackStep

(* DispatchPending changes only how far the registration was told.         *)
LEMMA Telling ==
  ASSUME TypeInv, NEW id \in Ids, DispatchPending(id)
  PROVE  /\ Active' = Active /\ records' \in [Active' -> Record]
         /\ \A j \in Active : records'[j].kind = records[j].kind /\ records'[j].keeps = records[j].keeps
<1> DEFINE new == {c \in pending_values : c > records[id].delivered_through}
<1>1. /\ id \in Active /\ new # {}
      /\ records' = [records EXCEPT ![id].delivered_through = Max(new)]
  BY DEF DispatchPending
<1>2. new \subseteq 0 .. next_change /\ next_change \in Nat
  BY DEF TypeInv
<1> HIDE DEF new
<1>3. Max(new) \in Nat
  <2>1. Max(new) \in new
    <3>1. \A b \in Nat : new \subseteq 0 .. b => Max(new) \in new
      BY <1>1, MaxOf
    <3> QED
      BY <1>2, <3>1
  <2>2. Max(new) \in 0 .. next_change
    BY <1>2, <2>1
  <2>3. 0 .. next_change \subseteq Nat
    BY <1>2, SMT
  <2> QED
    BY <2>2, <2>3
<1>4. records \in [Active -> Record]
  BY DEF TypeInv
<1>5. PICK m \in Nat : m = Max(new)
  BY <1>3
<1>6. records' = [records EXCEPT ![id].delivered_through = m]
  BY <1>1, <1>5
<1>7. records' \in [Active -> Record]
  BY <1>1, <1>4, <1>6 DEF Record
<1>8. \A j \in Active : records'[j].kind = records[j].kind /\ records'[j].keeps = records[j].keeps
  BY <1>1, <1>4, <1>6, SMT DEF Record
<1>9. Active' = Active
  BY <1>4, <1>7 DEF Active
<1> QED
  BY <1>7, <1>8, <1>9

(* StartCallback: a run of the registration that is first in the dispatch. *)
LEMMA Starting ==
  ASSUME TypeInv, ItemsInv, StartCallback
  PROVE  \/ /\ history' = history
            /\ \E item \in Top.items : GoesOn([Top EXCEPT !.items = @ \ {item}])
         \/ \E item \in Top.items :
              /\ item.id \in Active /\ item.id \in Known /\ First(item, Top.items)
              /\ GoesOn([Top EXCEPT !.running = TRUE])
              /\ history' \in Seq(Past) /\ Len(history') = Len(history) /\ Known' = Known
              /\ \A j \in Known : j # item.id => history'[j] = history[j]
              /\ history'[item.id].kind = history[item.id].kind
              /\ history'[item.id].made = history[item.id].made
              /\ history'[item.id].runs =
                   history[item.id].runs + IF OneShot(records[item.id].kind) THEN 1 ELSE 0
<1>1. calls # <<>> /\ calls \in Seq(Frame) /\ dispatching' = dispatching
  BY DEF StartCallback, TypeInv
<1>2. Top \in Frame /\ Top = calls[Len(calls)] /\ Len(calls) \in 1 .. Len(calls)
  BY <1>1, AllButLast, SMT DEF Top
<1>3. \A f \in Frame : calls' = Append(Below, f) => Replaced(f)
  BY <1>1, Replacing
<1>4. PICK item \in Top.items :
        /\ First(item, Top.items)
        /\ IF item.id \in Active
           THEN /\ calls' = Append(Below, [Top EXCEPT !.running = TRUE])
                /\ history' = [history EXCEPT ![item.id].runs = @ + IF OneShot(records[item.id].kind) THEN 1 ELSE 0,
                     ![item.id].seen = IF item.change = 0 THEN @ ELSE Append(@, item.change)]
           ELSE /\ calls' = Append(Below, [Top EXCEPT !.items = @ \ {item}])
                /\ UNCHANGED history
  BY DEF StartCallback
<1>5. LET f == [Top EXCEPT !.running = TRUE]
      IN  f \in Frame /\ f.items \subseteq Top.items /\ f.guarded = Top.guarded
  BY <1>2 DEF Frame
<1>6. CASE item.id \notin Active
  <2> DEFINE f == [Top EXCEPT !.items = @ \ {item}]
  <2>1. f \in Frame /\ f.items \subseteq Top.items /\ f.guarded = Top.guarded
    BY <1>2 DEF Frame
  <2>2. calls' = Append(Below, f) /\ history' = history
    BY <1>4, <1>6
  <2> HIDE DEF f
  <2>3. GoesOn(f)
    BY <1>1, <1>2, <1>3, <2>1, <2>2 DEF GoesOn
  <2> QED
    BY <2>2, <2>3 DEF f
<1>7. CASE item.id \in Active
  <2> DEFINE f == [Top EXCEPT !.running = TRUE]
             n == IF OneShot(records[item.id].kind) THEN 1 ELSE 0
  <2>1. f \in Frame /\ f.items \subseteq Top.items /\ f.guarded = Top.guarded
    BY <1>5
  <2>2. /\ calls' = Append(Below, f)
        /\ history' = [history EXCEPT ![item.id].runs = @ + n,
                         ![item.id].seen = IF item.change = 0 THEN @ ELSE Append(@, item.change)]
    BY <1>4, <1>7
  <2>3. n \in Nat
    OBVIOUS
  <2>4. item.id \in Known /\ item.change \in Nat
    <3>1. Cleared(item.id)
      BY <1>2 DEF ItemsInv
    <3> QED
      BY <1>2, <3>1 DEF Cleared, Frame
  <2> HIDE DEF f, n
  <2>5. GoesOn(f)
    BY <1>1, <1>2, <1>3, <2>1, <2>2 DEF GoesOn
  <2>6. /\ history' \in Seq(Past) /\ Len(history') = Len(history) /\ Known' = Known
        /\ \A j \in Known : j # item.id => history'[j] = history[j]
        /\ history'[item.id].kind = history[item.id].kind
        /\ history'[item.id].made = history[item.id].made
        /\ history'[item.id].runs = history[item.id].runs + n
    BY <2>2, <2>3, <2>4, CountingRuns
  <2> QED
    BY <1>4, <1>7, <2>4, <2>5, <2>6 DEF f, n
<1> QED
  BY <1>6, <1>7

(* Every step keeps the types.                                             *)
LEMMA TypeKept ==
  ASSUME TypeInv, RecordsInv, WaitingInv, ItemsInv, StackInv, Next
  PROVE  TypeInv'
<1>1. calls' \in Seq(Frame)
  <2>1. calls \in Seq(Frame)
    BY DEF TypeInv
  <2> QED
    BY <2>1, StackStep DEF Begins, Pushed, GoesOn, Replaced, Ends, Popped
<1>2. /\ next_id' \in Nat \ {0} /\ history' \in Seq(Past) /\ Len(history') = next_id' - 1
      /\ Known \subseteq Known'
  <2>1. CASE history' = history /\ next_id' = next_id
    BY <2>1 DEF TypeInv, Known
  <2>2. CASE StartCallback
    <3>1. next_id' = next_id
      BY <2>2 DEF StartCallback
    <3> QED
      BY <2>2, <3>1, Starting DEF TypeInv, Known
  <2>3. ASSUME NEW kind \in Kinds, NEW keeps \in BOOLEAN,
               RegisterCallback(kind, keeps) \/ RegisterFails(kind, keeps)
        PROVE  /\ next_id' \in Nat \ {0} /\ history' \in Seq(Past) /\ Len(history') = next_id' - 1
               /\ Known \subseteq Known'
    <3>1. next_id \in Nat \ {0}
      BY Registrations
    <3>2. /\ history' \in Seq(Past) /\ Len(history') = next_id
          /\ Known' = Known \cup {next_id} /\ next_id' = next_id + 1
      BY <2>3, Registering, FailingToRegister
    <3> QED
      BY <3>1, <3>2, SMT
  <2>4. \/ history' = history /\ next_id' = next_id
        \/ StartCallback
        \/ \E kind \in Kinds, keeps \in BOOLEAN :
             RegisterCallback(kind, keeps) \/ RegisterFails(kind, keeps)
    BY DEF Next, RemoveCallback, DispatchPending, ObserveValueChange, ObserveFails,
         RunValueChange, RunTimed, RunEnd, RunLifecycle, SlotStart, DispatchLifecycle, DispatchNow, EndDispatch,
         CallbackReturns
  <2> QED
    BY <2>1, <2>2, <2>3, <2>4
<1>3. records' \in [Active' -> Record] /\ Active' \subseteq Known'
  <2>1. CASE records' = records
    <3>1. Active' = Active
      BY <2>1 DEF Active
    <3> QED
      BY <1>2, <2>1, <3>1 DEF TypeInv
  <2>2. ASSUME NEW kind \in Kinds, NEW keeps \in BOOLEAN, RegisterCallback(kind, keeps)
        PROVE  records' \in [Active' -> Record] /\ Active' \subseteq Known'
    BY <2>2, Registering, Registrations
  <2>3. ASSUME NEW id \in Active, Retire(id)
        PROVE  records' \in [Active' -> Record] /\ Active' \subseteq Known'
    BY <1>2, <2>3, Retiring, Registrations
  <2>4. ASSUME NEW id \in Ids, DispatchPending(id)
        PROVE  records' \in [Active' -> Record] /\ Active' \subseteq Known'
    BY <1>2, <2>4, Telling, Registrations
  <2>5. ASSUME ObserveFails
        PROVE  records' \in [Active' -> Record] /\ Active' \subseteq Known'
    <3>1. records' \in [Active' -> Record] /\ Active' \subseteq Active
      BY <2>5, FailingToObserve
    <3>2. Active \subseteq Known
      BY Registrations
    <3> QED
      BY <1>2, <3>1, <3>2
  <2>6. \/ records' = records
        \/ \E kind \in Kinds, keeps \in BOOLEAN : RegisterCallback(kind, keeps)
        \/ \E id \in Active : Retire(id)
        \/ \E id \in Ids : DispatchPending(id)
        \/ ObserveFails
    BY DEF Next, RegisterFails, RemoveCallback, ObserveValueChange, RunValueChange, RunTimed,
         RunEnd, RunLifecycle, SlotStart, DispatchLifecycle, DispatchNow, StartCallback,
         EndDispatch, CallbackReturns
  <2> QED
    BY <2>1, <2>2, <2>3, <2>4, <2>6, <2>5
<1>4. next_change' \in Nat /\ pending_values' \subseteq 0 .. next_change'
  <2>1. next_change \in Nat /\ pending_values \subseteq 0 .. next_change
    BY DEF TypeInv
  <2>2. CASE ObserveValueChange \/ ObserveFails
    <3>1. next_change' = next_change + 1 /\ pending_values' \subseteq pending_values \cup {next_change}
      BY <2>2 DEF ObserveValueChange, ObserveFails
    <3> QED
      BY <2>1, <3>1, SMT
  <2>3. CASE ~(ObserveValueChange \/ ObserveFails)
    <3>1. next_change' = next_change /\ pending_values' \subseteq pending_values
      BY <2>3 DEF Next, RegisterCallback, RegisterFails, RemoveCallback, DispatchPending, RunValueChange,
         RunTimed, RunEnd, RunLifecycle, SlotStart, DispatchLifecycle, DispatchNow,
         StartCallback, EndDispatch, CallbackReturns, Retire, values
    <3> QED
      BY <2>1, <3>1
  <2> QED
    BY <2>2, <2>3
<1>5. \A t \in scheduled' : t.change \in Nat
  <2>1. next_change \in Nat /\ \A t \in scheduled : t.change \in Nat
    BY DEF TypeInv
  <2>2. CASE scheduled' \subseteq scheduled
    BY <2>1, <2>2
  <2>3. ASSUME \/ ObserveValueChange \/ DispatchLifecycle \/ \E t \in scheduled : RunEnd(t)
               \/ \E kind \in Kinds, keeps \in BOOLEAN : RegisterCallback(kind, keeps)
        PROVE  \A t \in scheduled' : t.change \in Nat
    <3>1. \A kind, id, change, ids : Task(kind, id, change, ids).change = change
      BY DEF Task
    <3>2. CASE ObserveValueChange
      BY <2>1, <3>1, <3>2, SMT DEF ObserveValueChange
    <3>3. CASE DispatchLifecycle
      BY <2>1, <3>1, <3>3, SMT DEF DispatchLifecycle
    <3>4. CASE \E t \in scheduled : RunEnd(t)
      BY <2>1, <3>1, <3>4, SMT DEF RunEnd
    <3>5. CASE \E kind \in Kinds, keeps \in BOOLEAN : RegisterCallback(kind, keeps)
      <4>1. PICK kind, id : scheduled' \subseteq scheduled \cup {Task(kind, id, 0, {})}
        <5>1. PICK kind, keeps : RegisterCallback(kind, keeps)
          BY <3>5
        <5>2. scheduled' = IF kind \in Own THEN scheduled \cup {Task(kind, next_id, 0, {})} ELSE scheduled
          BY <5>1 DEF RegisterCallback
        <5>3. scheduled' \subseteq scheduled \cup {Task(kind, next_id, 0, {})}
          BY <5>2
        <5> QED
          BY <5>3
      <4>2. Task(kind, id, 0, {}).change = 0
        BY DEF Task
      <4>3. \A t \in scheduled' : t \in scheduled \/ t = Task(kind, id, 0, {})
        BY <4>1
      <4>4. ASSUME NEW t \in scheduled' PROVE t.change \in Nat
        <5>1. CASE t = Task(kind, id, 0, {})
          <6>1. t.change = 0
            BY <4>2, <5>1
          <6> QED
            BY <6>1, SMT
        <5>2. CASE t \in scheduled
          BY <2>1, <5>2
        <5> QED
          BY <4>3, <5>1, <5>2
      <4> QED
        BY <4>4
    <3> QED
      BY <2>3, <3>2, <3>3, <3>4, <3>5
  <2>4. \/ ObserveValueChange \/ DispatchLifecycle \/ \E t \in scheduled : RunEnd(t)
        \/ \E kind \in Kinds, keeps \in BOOLEAN : RegisterCallback(kind, keeps)
        \/ scheduled' \subseteq scheduled
    BY DEF Next, RegisterFails, RemoveCallback, DispatchPending, ObserveFails, RunValueChange, RunTimed,
         RunLifecycle, SlotStart, DispatchNow, StartCallback, EndDispatch, CallbackReturns
  <2> QED
    BY <2>2, <2>3, <2>4
<1> QED
  BY <1>1, <1>2, <1>3, <1>4, <1>5 DEF TypeInv

(* retire takes the registration out of the index and out of the count.    *)
LEMMA RetiringKeepsRecords ==
  ASSUME TypeInv, RecordsInv, NEW id \in Active, Retire(id),
         \A i \in Known : KindOf(i)' = KindOf(i), Failed \subseteq Failed'
  PROVE  RecordsInv'
<1>1. /\ Active' = Active \ {id} /\ \A j \in Active' : records'[j] = records[j]
      /\ pending_values' \subseteq pending_values
  BY Retiring
<1>2. \A i \in Active' : i \in Known /\ i \in Active
  BY <1>1, Registrations
<1>3. \A i \in Active' : records'[i].kind = KindOf(i)' /\ (records'[i].keeps => KindOf(i)' = "value")
  BY <1>1, <1>2 DEF RecordsInv
<1>4. /\ indexed' \cap Active' = OfKind("value")' /\ indexed' \subseteq Active' \cup Failed'
      /\ \A i \in indexed' : KindOf(i)' = "value"
  <2>1. indexed' = indexed \ {id}
    BY DEF Retire
  <2>2. indexed' \cap Active' = OfKind("value")'
    BY <1>1, <1>2, <2>1 DEF RecordsInv, OfKind
  <2>3. indexed' \subseteq Active' \cup Failed'
    BY <1>1, <2>1 DEF RecordsInv
  <2>4. indexed \subseteq Known /\ \A i \in indexed : KindOf(i) = "value"
    BY Registrations DEF RecordsInv, Failed
  <2> QED
    BY <2>1, <2>2, <2>3, <2>4
<1>5. IsFiniteSet(Active')
  BY <1>1, FS_Subset DEF RecordsInv
<1> DEFINE K == {i \in Active : records[i].keeps}
           L == {i \in Active' : records'[i].keeps}
<1>6. IsFiniteSet(K) /\ Cardinality(K) \in Nat /\ pending_value_count = Cardinality(K)
  BY FS_Subset, FS_CardinalityType DEF RecordsInv
<1>7. CASE records[id].keeps
  <2>1. id \in K /\ L = K \ {id}
    BY <1>1, <1>7
  <2>2. Cardinality(L) = Cardinality(K) - 1
    BY <1>6, <2>1, FS_RemoveElement
  <2>3. pending_value_count' = pending_value_count - 1
    BY <1>7 DEF Retire
  <2>4. pending_value_count' = 0 => pending_values' = {}
    <3>1. pending_value_count \in Nat
      BY <1>6
    <3>2. pending_value_count' = 0 => pending_value_count = 1
      BY <2>3, <3>1, SMT
    <3> QED
      BY <1>7, <3>2 DEF Retire
  <2>5. pending_value_count' = Cardinality(L)
    BY <1>6, <2>2, <2>3
  <2> QED
    BY <1>3, <1>4, <1>5, <2>4, <2>5 DEF RecordsInv
<1>8. CASE ~records[id].keeps
  <2>1. L = K
    BY <1>1, <1>8
  <2>2. pending_value_count' = pending_value_count - 0
    BY <1>8 DEF Retire
  <2>3. pending_value_count \in Nat
    BY <1>6
  <2>4. pending_value_count' = pending_value_count
    BY <2>2, <2>3, SMT
  <2>5. pending_value_count' = Cardinality(L)
    BY <1>6, <2>1, <2>4
  <2>6. pending_value_count' = 0 => pending_values' = {}
    BY <1>1, <2>4 DEF RecordsInv
  <2> QED
    BY <1>3, <1>4, <1>5, <2>5, <2>6 DEF RecordsInv
<1> QED
  BY <1>7, <1>8

(* register_callback enters the registration in the index and in the       *)
(* count.                                                                  *)
LEMMA RegisteringKeepsRecords ==
  ASSUME TypeInv, RecordsInv, NEW kind \in Kinds, NEW keeps \in BOOLEAN,
         RegisterCallback(kind, keeps)
  PROVE  RecordsInv'
<1>1. /\ Active' = Active \cup {next_id} /\ Known' = Known \cup {next_id}
      /\ \A j \in Known : history'[j] = history[j]
      /\ \A j \in Active : records'[j] = records[j]
      /\ records'[next_id].kind = kind /\ records'[next_id].keeps = keeps
      /\ history'[next_id].kind = kind
  BY Registering
<1>2. next_id \notin Active /\ next_id \notin Known /\ Active \subseteq Known
  BY Registrations
<1>3. \A i \in Active' : records'[i].kind = KindOf(i)' /\ (records'[i].keeps => KindOf(i)' = "value")
  <2> SUFFICES ASSUME NEW i \in Active'
               PROVE  records'[i].kind = KindOf(i)' /\ (records'[i].keeps => KindOf(i)' = "value")
    OBVIOUS
  <2>1. CASE i = next_id
    BY <1>1, <2>1 DEF KindOf, RegisterCallback
  <2>2. CASE i # next_id
    BY <1>1, <1>2, <2>2 DEF RecordsInv, KindOf
  <2> QED
    BY <2>1, <2>2
<1>4. /\ indexed' \cap Active' = OfKind("value")' /\ indexed' \subseteq Active' \cup Failed'
      /\ \A i \in indexed' : KindOf(i)' = "value"
  <2>1. indexed' = IF kind = "value" THEN indexed \cup {next_id} ELSE indexed
    BY DEF RegisterCallback
  <2>2. indexed \subseteq Known /\ \A i \in indexed : KindOf(i) = "value"
    BY Registrations DEF RecordsInv, Failed
  <2>3. indexed' \cap Active' = OfKind("value")'
    BY <1>1, <1>2, <2>1, <2>2 DEF RecordsInv, OfKind
  <2>4. Failed \subseteq Failed'
    BY <1>1 DEF Failed
  <2>5. indexed' \subseteq Active' \cup Failed'
    BY <1>1, <2>1, <2>4 DEF RecordsInv
  <2>6. \A i \in indexed' : KindOf(i)' = "value"
    BY <1>1, <2>1, <2>2 DEF KindOf
  <2> QED
    BY <2>3, <2>5, <2>6
<1>5. IsFiniteSet(Active')
  BY <1>1, FS_AddElement DEF RecordsInv
<1> DEFINE K == {i \in Active : records[i].keeps}
           L == {i \in Active' : records'[i].keeps}
<1>6. IsFiniteSet(K) /\ Cardinality(K) \in Nat /\ pending_value_count = Cardinality(K)
  BY FS_Subset, FS_CardinalityType DEF RecordsInv
<1>7. CASE keeps
  <2>1. next_id \notin K /\ L = K \cup {next_id}
    BY <1>1, <1>2, <1>7
  <2>2. Cardinality(L) = Cardinality(K) + 1
    BY <1>6, <2>1, FS_AddElement
  <2>3. pending_value_count' = pending_value_count + 1
    BY <1>7 DEF RegisterCallback
  <2>4. pending_value_count' = Cardinality(L) /\ pending_value_count' # 0
    BY <1>6, <2>2, <2>3, SMT
  <2> QED
    BY <1>3, <1>4, <1>5, <2>4 DEF RecordsInv
<1>8. CASE ~keeps
  <2>1. L = K
    BY <1>1, <1>2, <1>8
  <2>2. pending_value_count' = pending_value_count + 0 /\ pending_values' = pending_values
    BY <1>8 DEF RegisterCallback
  <2>3. pending_value_count \in Nat
    BY <1>6
  <2>4. pending_value_count' = pending_value_count
    BY <2>2, <2>3, SMT
  <2>5. pending_value_count' = Cardinality(L)
    BY <1>6, <2>1, <2>4
  <2>6. pending_value_count' = 0 => pending_values' = {}
    BY <2>2, <2>4 DEF RecordsInv
  <2> QED
    BY <1>3, <1>4, <1>5, <2>5, <2>6 DEF RecordsInv
<1> QED
  BY <1>7, <1>8

(* A failing registration leaves the records, and may leave an index entry.*)
LEMMA FailingKeepsRecords ==
  ASSUME TypeInv, RecordsInv, NEW kind \in Kinds, NEW keeps \in BOOLEAN,
         RegisterFails(kind, keeps)
  PROVE  RecordsInv'
<1>1. /\ Active' = Active /\ Known' = Known \cup {next_id} /\ next_id \in Failed'
      /\ \A j \in Known : history'[j] = history[j]
      /\ history'[next_id].kind = kind
  BY FailingToRegister
<1>2. records' = records /\ UNCHANGED <<pending_value_count, pending_values>>
  BY DEF RegisterFails
<1>3. next_id \notin Active /\ next_id \notin Known /\ Active \subseteq Known
  BY Registrations
<1>4. OfKind("value")' = OfKind("value")
  BY <1>1, <1>2 DEF OfKind
<1>5. \A i \in Active' : records'[i].kind = KindOf(i)' /\ (records'[i].keeps => KindOf(i)' = "value")
  BY <1>1, <1>2, <1>3 DEF RecordsInv, KindOf
<1>6. /\ indexed' \cap Active' = OfKind("value")' /\ indexed' \subseteq Active' \cup Failed'
      /\ \A i \in indexed' : KindOf(i)' = "value"
  <2>1. indexed' = indexed \/ (indexed' = indexed \cup {next_id} /\ kind = "value")
    BY DEF RegisterFails
  <2>2. indexed \subseteq Known /\ \A i \in indexed : KindOf(i) = "value"
    BY Registrations DEF RecordsInv, Failed
  <2>3. Failed \subseteq Failed'
    BY <1>1 DEF Failed
  <2>4. indexed' \cap Active = indexed \cap Active
    BY <1>3, <2>1
  <2>5. indexed' \cap Active' = OfKind("value")'
    BY <1>1, <1>4, <2>4 DEF RecordsInv
  <2>6. indexed' \subseteq Active' \cup Failed'
    BY <1>1, <2>1, <2>3 DEF RecordsInv
  <2>7. \A i \in indexed' : KindOf(i)' = "value"
    BY <1>1, <2>1, <2>2 DEF KindOf
  <2> QED
    BY <2>5, <2>6, <2>7
<1>7. /\ IsFiniteSet(Active')
      /\ pending_value_count' = Cardinality({i \in Active' : records'[i].keeps})
      /\ pending_value_count' = 0 => pending_values' = {}
  BY <1>1, <1>2 DEF RecordsInv
<1> QED
  BY <1>5, <1>6, <1>7 DEF RecordsInv

(* A change that cannot be scheduled takes its registrations, and as many  *)
(* from the count of those that keep changes.                              *)
LEMMA RefusedKeepsRecords ==
  ASSUME TypeInv, RecordsInv, ObserveFails
  PROVE  RecordsInv'
<1>1. PICK gone :
        /\ gone \subseteq indexed \cap Active
        /\ Active' = Active \ gone
        /\ \A j \in Active' : records'[j] = records[j]
        /\ indexed' = indexed \ gone
        /\ pending_value_count' = pending_value_count - Cardinality({i \in gone : records[i].keeps})
        /\ pending_values' = {}
  BY FailingToObserve
<1>2. history' = history
  BY DEF ObserveFails
<1>3. Failed' = Failed /\ \A i : KindOf(i)' = KindOf(i)
  BY <1>2 DEF Failed, Known, KindOf
<1>4. \A i \in Active' : records'[i].kind = KindOf(i)' /\ (records'[i].keeps => KindOf(i)' = "value")
  BY <1>1, <1>3 DEF RecordsInv
<1>5. /\ indexed' \cap Active' = OfKind("value")' /\ indexed' \subseteq Active' \cup Failed'
      /\ \A i \in indexed' : KindOf(i)' = "value"
  <2>1. \A i : i \in OfKind("value")' <=> i \in Active /\ i \notin gone /\ records[i].kind = "value"
    BY <1>1 DEF OfKind
  <2>2. \A i : i \in indexed /\ i \in Active <=> i \in Active /\ records[i].kind = "value"
    BY DEF RecordsInv, OfKind
  <2>3. indexed' \cap Active' = OfKind("value")'
    BY <1>1, <2>1, <2>2
  <2>4. indexed' \subseteq Active' \cup Failed'
    BY <1>1, <1>3 DEF RecordsInv
  <2>5. \A i \in indexed' : KindOf(i)' = "value"
    BY <1>1, <1>3 DEF RecordsInv
  <2> QED
    BY <2>3, <2>4, <2>5
<1>6. IsFiniteSet(Active) /\ IsFiniteSet(Active')
  BY <1>1, FS_Subset DEF RecordsInv
<1> DEFINE K == {i \in Active : records[i].keeps}
           G == {i \in gone : records[i].keeps}
           L == {i \in Active' : records'[i].keeps}
<1>7. IsFiniteSet(K) /\ pending_value_count = Cardinality(K)
  BY <1>6, FS_Subset DEF RecordsInv
<1>8. K \cap G = G /\ L = K \ G
  BY <1>1
<1> HIDE DEF K, G, L
<1>9. Cardinality(K \ G) = Cardinality(K) - Cardinality(K \cap G)
  BY <1>7, FS_Difference
<1>10. pending_value_count' = Cardinality(L)
  BY <1>1, <1>7, <1>8, <1>9 DEF G
<1> QED
  BY <1>1, <1>4, <1>5, <1>6, <1>10 DEF RecordsInv, L

(* Every step keeps the index and the count in line with the records.      *)
LEMMA RecordsKept ==
  ASSUME TypeInv, RecordsInv, WaitingInv, ItemsInv, Next
  PROVE  RecordsInv'
<1>1. (\A i \in Known : KindOf(i)' = KindOf(i)) /\ Failed \subseteq Failed'
  BY KindsKept
<1>2. Active \subseteq Known
  BY Registrations
<1>3. ASSUME NEW id \in Active, Retire(id) PROVE RecordsInv'
  BY <1>1, <1>3, RetiringKeepsRecords
<1>4. ASSUME NEW kind \in Kinds, NEW keeps \in BOOLEAN, RegisterCallback(kind, keeps)
      PROVE  RecordsInv'
  BY <1>4, RegisteringKeepsRecords
<1>5. ASSUME NEW kind \in Kinds, NEW keeps \in BOOLEAN, RegisterFails(kind, keeps)
       PROVE  RecordsInv'
  BY <1>5, FailingKeepsRecords
<1>6. ASSUME ObserveFails PROVE RecordsInv'
  BY <1>6, RefusedKeepsRecords
<1>7. ASSUME /\ Active' = Active
             /\ \A j \in Active : records'[j].kind = records[j].kind /\ records'[j].keeps = records[j].keeps
             /\ UNCHANGED <<indexed, pending_value_count>>
             /\ pending_value_count = 0 => pending_values' \subseteq pending_values
      PROVE  RecordsInv'
  <2>1. OfKind("value")' = OfKind("value")
    BY <1>7 DEF OfKind
  <2>2. {i \in Active' : records'[i].keeps} = {i \in Active : records[i].keeps}
    BY <1>7
  <2>3. \A i \in Active' : records'[i].kind = KindOf(i)' /\ (records'[i].keeps => KindOf(i)' = "value")
    BY <1>1, <1>2, <1>7 DEF RecordsInv
  <2>4. pending_value_count' = Cardinality({i \in Active' : records'[i].keeps})
    BY <1>7, <2>2 DEF RecordsInv
  <2>5. pending_value_count' = 0 => pending_values' = {}
    BY <1>7 DEF RecordsInv
  <2>6. indexed \subseteq Known /\ \A i \in indexed : KindOf(i) = "value"
    BY <1>2 DEF RecordsInv, Failed
  <2>7. /\ indexed' \cap Active' = OfKind("value")' /\ indexed' \subseteq Active' \cup Failed'
        /\ \A i \in indexed' : KindOf(i)' = "value"
    BY <1>1, <1>7, <2>1, <2>6 DEF RecordsInv
  <2> QED
    BY <1>7, <2>3, <2>4, <2>5, <2>7 DEF RecordsInv
<1>8. ASSUME NEW id \in Ids, DispatchPending(id) PROVE RecordsInv'
  <2>1. UNCHANGED <<indexed, pending_value_count, pending_values>>
    BY <1>8 DEF DispatchPending, values
  <2> QED
    BY <1>7, <1>8, <2>1, Telling
<1>9. ASSUME UNCHANGED <<records, indexed, pending_value_count>>,
             pending_value_count = 0 => pending_values' \subseteq pending_values
      PROVE  RecordsInv'
  <2>1. Active' = Active
    BY <1>9 DEF Active
  <2> QED
    BY <1>7, <1>9, <2>1
<1>10. ASSUME ObserveValueChange PROVE RecordsInv'
  <2>1. pending_value_count = 0 => pending_values' = pending_values
    BY <1>10, SMT DEF ObserveValueChange
  <2>2. UNCHANGED <<records, indexed, pending_value_count>>
    BY <1>10 DEF ObserveValueChange
  <2> QED
    BY <1>9, <2>1, <2>2
<1>11. \/ ObserveValueChange \/ ObserveFails
       \/ \E kind \in Kinds, keeps \in BOOLEAN :
            RegisterCallback(kind, keeps) \/ RegisterFails(kind, keeps)
       \/ \E id \in Active : Retire(id)
       \/ \E id \in Ids : DispatchPending(id)
       \/ UNCHANGED <<records, indexed, pending_value_count>> /\ pending_values' \subseteq pending_values
  BY DEF Next, RemoveCallback, RunValueChange, RunTimed, RunEnd, RunLifecycle, SlotStart,
     DispatchLifecycle, DispatchNow, StartCallback, EndDispatch, CallbackReturns, values
<1> QED
  BY <1>3, <1>4, <1>8, <1>9, <1>10, <1>11, <1>5, <1>6

(* What the invariant asks of a task.                                      *)
TaskFits(t) ==
  /\ t.kind \in Own => t.id \in Active /\ t = Task(KindOf(t.id), t.id, 0, {})
  /\ t.kind = "last" => Cleared(t.id) /\ KindOf(t.id) = "end"
  /\ t.kind = "life" => \A i \in t.ids : i \in Known /\ KindOf(i) = "life"

(* A task that stays still fits, if the registration it would dispatch is  *)
(* active.                                                                 *)
LEMMA TasksKept ==
  ASSUME TypeInv, WaitingInv, ItemsInv, Next
  PROVE  \A t \in scheduled : (t.kind \in Own => t.id \in Active') => TaskFits(t)'
<1> SUFFICES ASSUME NEW t \in scheduled, t.kind \in Own => t.id \in Active'
             PROVE  TaskFits(t)'
  OBVIOUS
<1>1. Known \subseteq Known' /\ Active \subseteq Known /\ \A i \in Known : KindOf(i)' = KindOf(i)
  BY KindsKept, Registrations
<1>2. t.kind \in Own => t.id \in Active' /\ t = Task(KindOf(t.id)', t.id, 0, {})
  BY <1>1 DEF WaitingInv
<1>3. t.kind = "last" => Cleared(t.id)' /\ KindOf(t.id)' = "end"
  <2>1. t.kind = "last" => Cleared(t.id) /\ KindOf(t.id) = "end"
    BY DEF WaitingInv
  <2>2. t.kind = "last" => t.id \in Known
    BY <2>1 DEF Cleared
  <2> QED
    BY <1>1, <2>1, <2>2, ClearedKept
<1>4. t.kind = "life" => \A i \in t.ids : i \in Known' /\ KindOf(i)' = "life"
  BY <1>1 DEF WaitingInv
<1> QED
  BY <1>2, <1>3, <1>4 DEF TaskFits

(* Every step keeps what waits in line with the records.                   *)
LEMMA WaitingKept ==
  ASSUME TypeInv, RecordsInv, WaitingInv, ItemsInv, Next
  PROVE  WaitingInv'
<1>1. /\ Known \subseteq Known' /\ Active \subseteq Known /\ \A i \in Known : KindOf(i)' = KindOf(i)
      /\ Failed \subseteq Failed' /\ Failed \subseteq Known
  BY KindsKept, Registrations DEF Failed
<1>2. \A t \in scheduled : (t.kind \in Own => t.id \in Active') => TaskFits(t)'
  BY TasksKept
<1>3. ASSUME /\ slot_start_waiting' \subseteq Active' \cup Failed'
             /\ \A i \in slot_start_waiting' : KindOf(i)' \in {"next", "slot"}
             /\ \A t \in scheduled' : TaskFits(t)'
      PROVE  WaitingInv'
  BY <1>3 DEF WaitingInv, TaskFits
<1>4. ASSUME slot_start_waiting' \subseteq slot_start_waiting,
             slot_start_waiting' \subseteq Active' \cup Failed',
             scheduled' \subseteq scheduled,
             \A t \in scheduled' : t.kind \in Own => t.id \in Active'
      PROVE  WaitingInv'
  <2>1. \A i \in slot_start_waiting' : KindOf(i)' \in {"next", "slot"}
    BY <1>1, <1>4 DEF WaitingInv
  <2> QED
    BY <1>2, <1>3, <1>4, <2>1
<1>5. ASSUME Active' = Active, slot_start_waiting' \subseteq slot_start_waiting,
             scheduled' \subseteq scheduled
      PROVE  WaitingInv'
  BY <1>1, <1>4, <1>5 DEF WaitingInv
<1>6. ASSUME Active' = Active, slot_start_waiting' = slot_start_waiting,
             NEW n, scheduled' \subseteq scheduled \cup {n}, TaskFits(n)'
      PROVE  WaitingInv'
  <2>1. \A t \in scheduled' : TaskFits(t)'
    BY <1>2, <1>6 DEF WaitingInv
  <2>2. /\ slot_start_waiting' \subseteq Active' \cup Failed'
        /\ \A i \in slot_start_waiting' : KindOf(i)' \in {"next", "slot"}
    BY <1>1, <1>6 DEF WaitingInv
  <2> QED
    BY <1>3, <2>1, <2>2
<1>7. ASSUME NEW kind \in Kinds, NEW keeps \in BOOLEAN, RegisterCallback(kind, keeps)
      PROVE  WaitingInv'
  <2>0. PICK new, n : new = next_id /\ n = Task(kind, new, 0, {})
    OBVIOUS
  <2>1. Active' = Active \cup {new} /\ KindOf(new)' = kind
    BY <1>7, <2>0, Registering DEF KindOf
  <2>2. /\ \A i \in slot_start_waiting' : i \in slot_start_waiting \/ (i = new /\ kind \in {"next", "slot"})
        /\ \A t \in scheduled' : t \in scheduled \/ (t = n /\ kind \in Own)
    BY <1>7, <2>0 DEF RegisterCallback
  <2>3. kind \in Own => TaskFits(n)'
    <3>1. n.kind = kind /\ n.id = new
      BY <2>0 DEF Task
    <3> QED
      BY <2>0, <2>1, <3>1 DEF TaskFits, Own
  <2>4. \A t \in scheduled' : TaskFits(t)'
    BY <1>2, <2>1, <2>2, <2>3 DEF WaitingInv
  <2>5. /\ slot_start_waiting' \subseteq Active' \cup Failed'
        /\ \A i \in slot_start_waiting' : KindOf(i)' \in {"next", "slot"}
    BY <1>1, <2>1, <2>2 DEF WaitingInv
  <2> QED
    BY <1>3, <2>4, <2>5
<1>8. ASSUME NEW id \in Ids, RemoveCallback(id) PROVE WaitingInv'
  <2>1. /\ Active' = Active \ {id}
        /\ slot_start_waiting' = slot_start_waiting \ {id}
        /\ scheduled' = {t \in scheduled : t.kind \in Own => t.id # id}
    BY <1>8, Retiring DEF RemoveCallback
  <2> QED
    BY <1>1, <1>4, <2>1 DEF WaitingInv
<1>9. ASSUME ObserveValueChange PROVE WaitingInv'
  <2>0. PICK n : n = Task("value", 0, next_change, {})
    OBVIOUS
  <2>1. /\ Active' = Active /\ slot_start_waiting' = slot_start_waiting
        /\ scheduled' = scheduled \cup {n}
    BY <1>9, <2>0 DEF ObserveValueChange, Active
  <2>2. TaskFits(n)'
    BY <2>0 DEF TaskFits, Task, Own
  <2> QED
    BY <1>6, <2>1, <2>2
<1>10. ASSUME NEW t \in scheduled, RunEnd(t) PROVE WaitingInv'
  <2>1. /\ Active' = Active /\ slot_start_waiting' = slot_start_waiting /\ t.kind = "end"
        /\ scheduled' = (scheduled \ {t}) \cup {Task("last", t.id, 0, {})}
    BY <1>10 DEF RunEnd, Active
  <2>2. t.id \in Active /\ t = Task(KindOf(t.id), t.id, 0, {})
    BY <2>1 DEF WaitingInv, Own
  <2>3. KindOf(t.id) = "end"
    BY <2>1, <2>2, SMT DEF Task
  <2>4. t.id \in Known /\ t.id \notin slot_start_waiting
    BY <1>1, <2>2, <2>3 DEF WaitingInv
  <2>5. \A u \in scheduled : u.kind \in Own /\ u.id = t.id => u = t
    BY <2>2 DEF WaitingInv
  <2>6. \A u \in scheduled' : u.kind \in Own => u.id # t.id
    <3>1. Task("last", t.id, 0, {}).kind \notin Own
      BY DEF Task, Own
    <3> QED
      BY <2>1, <2>5, <3>1
  <2>7. Cleared(t.id)' /\ KindOf(t.id)' = "end"
    BY <1>1, <2>1, <2>3, <2>4, <2>6 DEF Cleared
  <2>8. TaskFits(Task("last", t.id, 0, {}))'
    BY <2>7 DEF TaskFits, Task, Own
  <2> QED
    BY <1>6, <2>1, <2>8
<1>11. ASSUME DispatchLifecycle PROVE WaitingInv'
  <2>0. PICK n : n = Task("life", 0, 0, OfKind("life"))
    OBVIOUS
  <2>1. Active' = Active /\ slot_start_waiting' = slot_start_waiting /\ scheduled' = scheduled \cup {n}
    BY <1>11, <2>0 DEF DispatchLifecycle, Active
  <2>2. n.kind = "life" /\ n.ids = OfKind("life")
    BY <2>0 DEF Task
  <2>3. \A i \in OfKind("life") : i \in Known' /\ KindOf(i)' = "life"
    BY <1>1 DEF OfKind, RecordsInv
  <2>4. TaskFits(n)'
    <3>1. n.kind \notin Own /\ n.kind # "last"
      BY <2>2 DEF Own
    <3>2. \A i \in n.ids : i \in Known' /\ KindOf(i)' = "life"
      BY <2>2, <2>3
    <3> QED
      BY <3>1, <3>2 DEF TaskFits
  <2> QED
    BY <1>6, <2>1, <2>4
<1>12. ASSUME NEW failed \in BOOLEAN, CallbackReturns(failed) PROVE WaitingInv'
  <2>1. /\ UNCHANGED <<slot_start_waiting, scheduled>>
        /\ \E item \in Top.items : (Retire(item.id) /\ item.id \in Active) \/ UNCHANGED records
    BY <1>12 DEF CallbackReturns
  <2>2. CASE UNCHANGED records
    BY <1>5, <2>1, <2>2 DEF Active
  <2>3. ASSUME NEW item \in Top.items, Retire(item.id), item.id \in Active PROVE WaitingInv'
    <3>1. Cleared(item.id)
      <4>1. calls \in Seq(Frame) /\ calls # <<>>
        BY <1>12 DEF TypeInv, CallbackReturns
      <4>2. Len(calls) \in 1 .. Len(calls)
        BY <4>1, AllButLast, SMT
      <4> QED
        BY <4>2, <2>3 DEF ItemsInv, Top
    <3>2. Active' = Active \ {item.id}
      BY <2>3, Retiring
    <3> QED
      BY <1>1, <1>4, <2>1, <3>1, <3>2 DEF WaitingInv, Cleared
  <2> QED
    BY <2>1, <2>2, <2>3
<1>13. ASSUME NEW id \in Ids, DispatchPending(id) PROVE WaitingInv'
  <2>1. UNCHANGED <<slot_start_waiting, scheduled>>
    BY <1>13 DEF DispatchPending
  <2> QED
    BY <1>5, <1>13, <2>1, Telling
<1>14. ASSUME UNCHANGED records, slot_start_waiting' \subseteq slot_start_waiting, scheduled' \subseteq scheduled
       PROVE  WaitingInv'
  BY <1>5, <1>14 DEF Active
<1>15. ASSUME NEW kind \in Kinds, NEW keeps \in BOOLEAN, RegisterFails(kind, keeps)
       PROVE  WaitingInv'
  <2>0. PICK new : new = next_id
    OBVIOUS
  <2>1. Active' = Active /\ new \in Failed' /\ KindOf(new)' = kind
    BY <1>15, <2>0, FailingToRegister DEF KindOf
  <2>2. /\ \A i \in slot_start_waiting' : i \in slot_start_waiting \/ (i = new /\ kind = "slot")
        /\ scheduled' = scheduled
    BY <1>15, <2>0 DEF RegisterFails
  <2>3. \A t \in scheduled' : TaskFits(t)'
    BY <1>2, <2>1, <2>2 DEF WaitingInv
  <2>4. slot_start_waiting' \subseteq Active' \cup Failed'
    BY <1>1, <2>1, <2>2 DEF WaitingInv
  <2>5. \A i \in slot_start_waiting' : KindOf(i)' \in {"next", "slot"}
    <3>1. \A i \in slot_start_waiting : i \in Known /\ KindOf(i) \in {"next", "slot"}
      BY <1>1 DEF WaitingInv
    <3> QED
      BY <1>1, <2>1, <2>2, <3>1
  <2> QED
    BY <1>3, <2>3, <2>4, <2>5
<1>16. ASSUME ObserveFails PROVE WaitingInv'
  <2>1. UNCHANGED <<slot_start_waiting, scheduled>>
    BY <1>16 DEF ObserveFails
  <2>2. PICK gone : gone \subseteq indexed \cap Active /\ Active' = Active \ gone
    BY <1>16, FailingToObserve
  <2>3. \A i \in gone : Cleared(i)
    <3>1. \A i \in gone : i \in Known /\ KindOf(i) = "value"
      BY <1>1, <2>2 DEF RecordsInv
    <3> QED
      BY <3>1, ClearedKinds
  <2>4. slot_start_waiting' \subseteq Active' \cup Failed'
    BY <1>1, <2>1, <2>2, <2>3 DEF WaitingInv, Cleared
  <2>5. \A t \in scheduled' : t.kind \in Own => t.id \in Active'
    BY <2>1, <2>2, <2>3 DEF WaitingInv, Cleared
  <2> QED
    BY <1>4, <2>1, <2>4, <2>5
<1>17. \/ \E kind \in Kinds, keeps \in BOOLEAN :
            RegisterCallback(kind, keeps) \/ RegisterFails(kind, keeps)
       \/ ObserveFails
       \/ \E id \in Ids : RemoveCallback(id) \/ DispatchPending(id)
       \/ ObserveValueChange
       \/ \E t \in scheduled : RunEnd(t)
       \/ DispatchLifecycle
       \/ \E failed \in BOOLEAN : CallbackReturns(failed)
       \/ /\ UNCHANGED records
          /\ slot_start_waiting' \subseteq slot_start_waiting /\ scheduled' \subseteq scheduled
  BY DEF Next, RunValueChange, RunTimed, RunLifecycle, SlotStart, DispatchNow, StartCallback, EndDispatch
<1> QED
  BY <1>7, <1>8, <1>9, <1>10, <1>11, <1>12, <1>13, <1>14, <1>17, <1>15, <1>16

(* A callback that runs in a dispatch the step leaves alone goes on.       *)
LEMMA RunningStays ==
  ASSUME NEW i, NEW k \in 1 .. Len(calls), k \in 1 .. Len(calls'), calls'[k] = calls[k],
         \E x \in calls[k].items : calls[k].running /\ First(x, calls[k].items) /\ x.id = i
  PROVE  Running(i)'
  BY DEF Running, First

(* Only the return of a callback ends its run.                             *)
LEMMA RunningKept ==
  ASSUME TypeInv, RecordsInv, WaitingInv, StackInv, Next,
         ~StartCallback, ~\E failed \in BOOLEAN : CallbackReturns(failed)
  PROVE  \A i : Running(i) => Running(i)'
<1> SUFFICES ASSUME NEW i, NEW k \in 1 .. Len(calls),
                    \E x \in calls[k].items : calls[k].running /\ First(x, calls[k].items) /\ x.id = i
             PROVE  Running(i)'
  BY DEF Running
<1>1. CASE calls' = calls
  BY <1>1, RunningStays
<1>2. ASSUME NEW f, Begins(f) PROVE Running(i)'
  <2>1. Len(calls) \in Nat /\ k \in 1 .. Len(calls')
    BY <1>2, Frames, SMT
  <2>2. calls'[k] = calls[k]
    BY <1>2, <2>1 DEF Begins, Pushed
  <2> QED
    BY <2>1, <2>2, RunningStays
<1>3. CASE EndDispatch
  <2>1. /\ calls # <<>> /\ calls \in Seq(Frame) /\ calls' = Below
        /\ ~Top.running
    BY <1>3 DEF EndDispatch, TypeInv
  <2>2. Popped /\ Top = calls[Len(calls)] /\ Len(calls) \in Nat
    BY <2>1, Popping, LenProperties
  <2>3. k # Len(calls)
    BY <2>1, <2>2
  <2>4. k \in 1 .. Len(calls') /\ calls'[k] = calls[k]
    BY <2>2, <2>3, SMT DEF Popped
  <2> QED
    BY <2>4, RunningStays
<1>4. \/ \E t \in scheduled : RunValueChange(t) \/ RunTimed(t) \/ RunLifecycle(t)
      \/ \E id \in Ids : DispatchPending(id)
      \/ \E due \in SUBSET slot_start_waiting : SlotStart(due)
      \/ \E kind \in {"life", "assert"} : DispatchNow(kind)
      => calls' = calls \/ \E f : Begins(f)
  BY BeginsValue, BeginsTimed, BeginsLifecycle, BeginsPending, BeginsSlotStart, BeginsNow
<1>5. \/ \E kind \in Kinds, keeps \in BOOLEAN :
           RegisterCallback(kind, keeps) \/ RegisterFails(kind, keeps)
      \/ \E id \in Ids : RemoveCallback(id)
      \/ ObserveValueChange \/ ObserveFails \/ DispatchLifecycle \/ \E t \in scheduled : RunEnd(t)
      => calls' = calls
  BY DEF RegisterCallback, RegisterFails, RemoveCallback, ObserveValueChange, ObserveFails,
     DispatchLifecycle, RunEnd
<1> QED
  BY <1>1, <1>2, <1>3, <1>4, <1>5 DEF Next

(* The runs of one registration, before and after a step.                  *)
RunsFit(i) == OneShot(KindOf(i)) =>
  history[i].runs \in {0, 1} /\ (history[i].runs = 1 /\ i \in Active => Running(i))

(* A one-shot callback that starts had not run: it is in one dispatch at a *)
(* time.                                                                   *)
LEMMA StartingKeepsRuns ==
  ASSUME TypeInv, RecordsInv, WaitingInv, ItemsInv, StackInv, RunsInv, StartCallback
  PROVE  RunsInv'
<1>1. Active' = Active /\ calls \in Seq(Frame) /\ calls # <<>> /\ ~Top.running
  BY DEF StartCallback, Active, TypeInv
<1>2. Top \in Frame /\ Top = calls[Len(calls)] /\ Len(calls) \in Nat \ {0}
  BY <1>1, AllButLast DEF Top
<1>3. ASSUME NEW f, GoesOn(f), NEW i, Running(i) PROVE Running(i)'
  <2>1. PICK k \in 1 .. Len(calls) :
          \E x \in calls[k].items : calls[k].running /\ First(x, calls[k].items) /\ x.id = i
    BY <1>3 DEF Running
  <2>2. k # Len(calls)
    BY <1>1, <1>2, <2>1
  <2>3. k \in 1 .. Len(calls') /\ calls'[k] = calls[k]
    BY <1>2, <1>3, <2>2, SMT DEF GoesOn, Replaced
  <2> QED
    BY <2>1, <2>3, RunningStays
<1>4. CASE history' = history /\ \E item \in Top.items : GoesOn([Top EXCEPT !.items = @ \ {item}])
  <2>1. \A i : Running(i) => Running(i)'
    BY <1>3, <1>4
  <2>2. Known' = Known /\ \A i : KindOf(i)' = KindOf(i)
    BY <1>4 DEF Known, KindOf
  <2>3. \A i \in Known : RunsFit(i)
    BY DEF RunsInv, RunsFit
  <2>4. \A i \in Known : RunsFit(i)'
    BY <1>1, <1>4, <2>1, <2>2, <2>3 DEF RunsFit
  <2> QED
    BY <2>2, <2>4 DEF RunsInv, RunsFit
<1>5. ASSUME NEW item \in Top.items,
             /\ item.id \in Active /\ item.id \in Known /\ First(item, Top.items)
             /\ GoesOn([Top EXCEPT !.running = TRUE])
             /\ Known' = Known
             /\ \A j \in Known : j # item.id => history'[j] = history[j]
             /\ history'[item.id].kind = history[item.id].kind
             /\ history'[item.id].runs =
                  history[item.id].runs + IF OneShot(records[item.id].kind) THEN 1 ELSE 0
      PROVE  RunsInv'
  <2> DEFINE f == [Top EXCEPT !.running = TRUE]
  <2>1. f.items = Top.items /\ f.running = TRUE
    BY <1>2 DEF Frame
  <2>2. GoesOn(f)
    BY <1>5
  <2> HIDE DEF f
  <2>3. Running(item.id)'
    <3>1. calls'[Len(calls)] = f /\ Len(calls) \in 1 .. Len(calls')
      BY <1>2, <2>2, SMT DEF GoesOn, Replaced
    <3>2. PICK k : k = Len(calls)
      OBVIOUS
    <3>3. k \in 1 .. Len(calls') /\ item \in calls'[k].items /\ calls'[k].running
          /\ First(item, calls'[k].items)
      BY <1>5, <2>1, <3>1, <3>2
    <3> QED
      BY <3>3 DEF Running, First
  <2>4. OneShot(KindOf(item.id)) => history[item.id].runs = 0
    <3> SUFFICES ASSUME OneShot(KindOf(item.id)), history[item.id].runs = 1 PROVE FALSE
      BY <1>5 DEF RunsInv
    <3>1. PICK k \in 1 .. Len(calls) : \E x \in calls[k].items : calls[k].running /\ x.id = item.id
      BY <1>5 DEF RunsInv, Running
    <3>2. k # Len(calls) /\ Len(calls) > 1 /\ Len(calls) \in 1 .. Len(calls)
      BY <1>1, <1>2, <3>1, SMT
    <3>3. KindOf(item.id) \in {"life", "assert", "value"}
      BY <1>2, <3>2 DEF StackInv
    <3>4. KindOf(item.id) = "life"
      BY <3>3 DEF OneShot
    <3>5. calls[Len(calls)].guarded = "life" /\ calls[k].guarded = "life"
      BY <1>2, <3>1, <3>2, <3>4 DEF StackInv
    <3> QED
      BY <3>2, <3>5 DEF StackInv
  <2>5. RunsFit(item.id)'
    <3>1. KindOf(item.id)' = KindOf(item.id) /\ records[item.id].kind = KindOf(item.id)
      BY <1>5 DEF KindOf, RecordsInv
    <3>2. OneShot(KindOf(item.id)) => history'[item.id].runs = 1
      BY <1>5, <2>4, <3>1, SMT
    <3> QED
      BY <2>3, <3>1, <3>2 DEF RunsFit
  <2>6. ASSUME NEW i \in Known, i # item.id PROVE RunsFit(i)'
    <3>1. history'[i] = history[i] /\ KindOf(i)' = KindOf(i)
      BY <1>5, <2>6 DEF KindOf
    <3>2. Running(i) => Running(i)'
      BY <1>3, <2>2
    <3>3. RunsFit(i)
      BY DEF RunsInv, RunsFit
    <3> QED
      BY <1>1, <3>1, <3>2, <3>3 DEF RunsFit
  <2> QED
    BY <1>5, <2>5, <2>6 DEF RunsInv, RunsFit
<1> QED
  BY <1>4, <1>5, Starting

(* A one-shot callback that returns is retired.                            *)
LEMMA ReturningKeepsRuns ==
  ASSUME TypeInv, RecordsInv, ItemsInv, RunsInv,
         NEW failed \in BOOLEAN, CallbackReturns(failed)
  PROVE  RunsInv'
<1>1. calls \in Seq(Frame) /\ calls # <<>> /\ history' = history
  BY DEF CallbackReturns, TypeInv
<1>2. Top \in Frame /\ Top = calls[Len(calls)] /\ Len(calls) \in Nat \ {0}
  BY <1>1, AllButLast DEF Top
<1>3. PICK f : GoesOn(f)
  BY GoingOn
<1>4. PICK item \in Top.items :
        /\ First(item, Top.items)
        /\ IF item.id \in Active /\ (failed \/ OneShot(records[item.id].kind))
           THEN Retire(item.id) ELSE UNCHANGED <<records, values>>
  BY DEF CallbackReturns
<1>5. Active' \subseteq Active /\ (item.id \in Active' => ~OneShot(KindOf(item.id)))
  <2>1. CASE item.id \in Active /\ (failed \/ OneShot(records[item.id].kind))
    <3>1. Active' = Active \ {item.id}
      BY <1>4, <2>1, Retiring
    <3> QED
      BY <3>1
  <2>2. CASE ~(item.id \in Active /\ (failed \/ OneShot(records[item.id].kind)))
    <3>1. Active' = Active
      BY <1>4, <2>2 DEF Active
    <3> QED
      BY <2>2, <3>1 DEF RecordsInv
  <2> QED
    BY <2>1, <2>2
<1>6. ASSUME NEW i \in Active', OneShot(KindOf(i)), Running(i) PROVE Running(i)'
  <2>1. PICK k \in 1 .. Len(calls) : \E x \in calls[k].items :
          calls[k].running /\ First(x, calls[k].items) /\ x.id = i
    BY <1>6 DEF Running
  <2>2. CASE k = Len(calls)
    <3>0. PICK x \in Top.items : First(x, Top.items) /\ x.id = i
      BY <1>2, <2>1, <2>2
    <3>1. x.id \in Nat /\ item.id \in Nat
      BY <1>2 DEF Frame
    <3>2. /\ x.id < item.id \/ x.id = item.id
          /\ item.id < x.id \/ x.id = item.id
      BY <1>4, <3>0 DEF First
    <3>3. x.id = item.id
      BY <3>1, <3>2, SMT
    <3> QED
      BY <1>5, <1>6, <3>0, <3>3
  <2>3. CASE k # Len(calls)
    <3>1. k \in 1 .. Len(calls') /\ calls'[k] = calls[k]
      BY <1>2, <1>3, <2>3, SMT DEF GoesOn, Replaced
    <3> QED
      BY <2>1, <3>1, RunningStays
  <2> QED
    BY <2>2, <2>3
<1>7. Known' = Known /\ \A i : KindOf(i)' = KindOf(i)
  BY <1>1 DEF Known, KindOf
<1>8. \A i \in Known : RunsFit(i)
  BY DEF RunsInv, RunsFit
<1>9. \A i \in Known : RunsFit(i)'
  BY <1>1, <1>5, <1>6, <1>7, <1>8 DEF RunsFit
<1> QED
  BY <1>7, <1>9 DEF RunsInv, RunsFit

(* Every step keeps one-shot callbacks from running twice.                 *)
LEMMA RunsKept ==
  ASSUME TypeInv, RecordsInv, WaitingInv, ItemsInv, StackInv, RunsInv, Next
  PROVE  RunsInv'
<1>1. CASE StartCallback
  BY <1>1, StartingKeepsRuns
<1>2. CASE \E failed \in BOOLEAN : CallbackReturns(failed)
  BY <1>2, ReturningKeepsRuns
<1>3. CASE ~StartCallback /\ ~\E failed \in BOOLEAN : CallbackReturns(failed)
  <2>1. \A i : Running(i) => Running(i)'
    BY <1>3, RunningKept
  <2>2. \A i \in Known : RunsFit(i)
    BY DEF RunsInv, RunsFit
  <2>3. ASSUME history' = history, Active' \subseteq Active PROVE RunsInv'
    <3>1. Known' = Known /\ \A i : KindOf(i)' = KindOf(i)
      BY <2>3 DEF Known, KindOf
    <3>2. \A i \in Known : RunsFit(i)'
      BY <2>1, <2>2, <2>3, <3>1 DEF RunsFit
    <3> QED
      BY <3>1, <3>2 DEF RunsInv, RunsFit
  <2>4. ASSUME NEW kind \in Kinds, NEW keeps \in BOOLEAN,
               RegisterCallback(kind, keeps) \/ RegisterFails(kind, keeps)
        PROVE  RunsInv'
    <3>1. /\ Known' = Known \cup {next_id} /\ Active' \subseteq Active \cup {next_id}
          /\ next_id \notin Known
          /\ \A j \in Known : history'[j] = history[j]
          /\ history'[next_id].runs = 0
      BY <2>4, Registering, FailingToRegister, Registrations
    <3>2. \A i \in Known : RunsFit(i)'
      BY <2>1, <2>2, <3>1 DEF RunsFit, KindOf
    <3>3. ASSUME NEW i \in Known', i \notin Known PROVE RunsFit(i)'
      <4>1. history'[i].runs = 0
        BY <3>1, <3>3
      <4> QED
        BY <4>1, SMT DEF RunsFit
    <3> QED
      BY <3>2, <3>3 DEF RunsInv, RunsFit
  <2>5. ASSUME NEW id \in Ids, RemoveCallback(id) PROVE history' = history /\ Active' \subseteq Active
    BY <2>5, Retiring DEF RemoveCallback
  <2>6. ASSUME NEW id \in Ids, DispatchPending(id) PROVE history' = history /\ Active' \subseteq Active
    BY <2>6, Telling DEF DispatchPending
  <2>7. ASSUME ObserveFails PROVE history' = history /\ Active' \subseteq Active
    <3>1. history' = history
      BY <2>7 DEF ObserveFails
    <3> QED
      BY <2>7, <3>1, FailingToObserve
  <2>8. \/ \E kind \in Kinds, keeps \in BOOLEAN :
             RegisterCallback(kind, keeps) \/ RegisterFails(kind, keeps)
        \/ ObserveFails
        \/ \E id \in Ids : RemoveCallback(id) \/ DispatchPending(id)
        \/ UNCHANGED <<records, history>>
    BY <1>3 DEF Next, ObserveValueChange, RunValueChange, RunTimed, RunEnd, RunLifecycle, SlotStart,
       DispatchLifecycle, DispatchNow, EndDispatch
  <2>9. UNCHANGED <<records, history>> => history' = history /\ Active' \subseteq Active
    BY DEF Active
  <2> QED
    BY <2>3, <2>4, <2>5, <2>6, <2>8, <2>9, <2>7
<1> QED
  BY <1>1, <1>2, <1>3

(* A registration that failed is never found by dispatch_callback.         *)
LEMMA FailedKept ==
  ASSUME TypeInv, RecordsInv, WaitingInv, ItemsInv, FailedInv, Next
  PROVE  FailedInv'
<1>1. Failed' \cap Known \subseteq Failed /\ Active \subseteq Known
  BY KindsKept, Registrations
<1>2. ASSUME Known' = Known, Active' \subseteq Active, \A i \in Failed : history'[i] = history[i]
      PROVE  FailedInv'
  <2>1. Failed' \subseteq Known'
    BY DEF Failed
  <2> QED
    BY <1>1, <1>2, <2>1 DEF FailedInv
<1>3. ASSUME history' = history, Active' \subseteq Active PROVE FailedInv'
  BY <1>2, <1>3 DEF Known
<1>4. ASSUME NEW kind \in Kinds, NEW keeps \in BOOLEAN, RegisterCallback(kind, keeps)
      PROVE  FailedInv'
  <2>1. /\ Known' = Known \cup {next_id} /\ Active' = Active \cup {next_id}
        /\ \A j \in Known : history'[j] = history[j]
        /\ history'[next_id].made /\ next_id \notin Known
    BY <1>4, Registering, Registrations
  <2>2. \A i \in Failed' : i \in Failed /\ i # next_id /\ i \in Known
    BY <1>1, <2>1 DEF Failed
  <2> QED
    BY <2>1, <2>2 DEF FailedInv
<1>5. ASSUME NEW kind \in Kinds, NEW keeps \in BOOLEAN, RegisterFails(kind, keeps)
      PROVE  FailedInv'
  <2>1. /\ Known' = Known \cup {next_id} /\ Active' = Active
        /\ \A j \in Known : history'[j] = history[j]
        /\ history'[next_id].runs = 0 /\ history'[next_id].seen = <<>>
        /\ next_id \notin Active
    BY <1>5, FailingToRegister, Registrations
  <2>2. \A i \in Failed' : i = next_id \/ (i \in Failed /\ i \in Known)
    BY <1>1, <2>1 DEF Failed
  <2> QED
    BY <2>1, <2>2 DEF FailedInv
<1>6. ASSUME StartCallback PROVE FailedInv'
  <2>1. Active' = Active
    BY <1>6 DEF StartCallback, Active
  <2>2. CASE history' = history
    BY <1>3, <2>1, <2>2
  <2>3. ASSUME NEW i \in Active, Known' = Known, \A j \in Known : j # i => history'[j] = history[j]
        PROVE  FailedInv'
    <3>1. \A j \in Failed : j \in Known /\ j # i
      BY DEF FailedInv, Failed
    <3> QED
      BY <1>2, <2>1, <2>3, <3>1
  <2> QED
    BY <1>6, <2>2, <2>3, Starting
<1>7. ASSUME NEW failed \in BOOLEAN, CallbackReturns(failed)
      PROVE  history' = history /\ Active' \subseteq Active
  <2>1. /\ history' = history
        /\ (\E id \in Active : Retire(id)) \/ UNCHANGED records
    BY <1>7 DEF CallbackReturns
  <2> QED
    BY <2>1, Retiring DEF Active
<1>8. ASSUME \/ \E id \in Ids : RemoveCallback(id) \/ DispatchPending(id)
             \/ ObserveFails \/ UNCHANGED <<records, history>>
      PROVE  history' = history /\ Active' \subseteq Active
  <2>1. ASSUME NEW id \in Ids, RemoveCallback(id) PROVE history' = history /\ Active' \subseteq Active
    BY <2>1, Retiring DEF RemoveCallback
  <2>2. ASSUME NEW id \in Ids, DispatchPending(id) PROVE history' = history /\ Active' \subseteq Active
    BY <2>2, Telling DEF DispatchPending
  <2>3. ASSUME ObserveFails PROVE history' = history /\ Active' \subseteq Active
    BY <2>3, FailingToObserve DEF ObserveFails
  <2>4. UNCHANGED <<records, history>> => history' = history /\ Active' \subseteq Active
    BY DEF Active
  <2> QED
    BY <1>8, <2>1, <2>2, <2>3, <2>4
<1>9. \/ \E kind \in Kinds, keeps \in BOOLEAN :
           RegisterCallback(kind, keeps) \/ RegisterFails(kind, keeps)
      \/ \E id \in Ids : RemoveCallback(id) \/ DispatchPending(id)
      \/ StartCallback \/ \E failed \in BOOLEAN : CallbackReturns(failed)
      \/ ObserveFails \/ UNCHANGED <<records, history>>
  BY DEF Next, ObserveValueChange, RunValueChange, RunTimed, RunEnd, RunLifecycle, SlotStart,
     DispatchLifecycle, DispatchNow, EndDispatch
<1> QED
  BY <1>3, <1>4, <1>5, <1>6, <1>7, <1>8, <1>9

-----------------------------------------------------------------------------
(***************************************************************************)
(* The theorems.                                                           *)
(***************************************************************************)
(* The manager starts in the invariant.                                    *)
LEMMA InitGood ==
  ASSUME Init
  PROVE  IInv
<1>1. /\ records = <<>> /\ next_id = 1 /\ indexed = {} /\ pending_value_count = 0
      /\ pending_values = {} /\ next_change = 1 /\ slot_start_waiting = {} /\ scheduled = {}
      /\ dispatching = {} /\ calls = <<>> /\ history = <<>>
  BY DEF Init
<1>2. Active = {} /\ Known = {}
  BY <1>1, SMT DEF Active, Known
<1>3. Len(calls) = 0 /\ Len(history) = 0 /\ calls \in Seq(Frame) /\ history \in Seq(Past)
  BY <1>1, SMT
<1>4. records \in [Active -> Record]
  BY <1>1, <1>2, SMT DEF Active
<1>5. TypeInv
  BY <1>1, <1>2, <1>3, <1>4, SMT DEF TypeInv
<1>6. RecordsInv
  <2>1. {i \in Active : records[i].keeps} = {} /\ OfKind("value") = {}
    BY <1>2 DEF OfKind
  <2>2. Cardinality({}) = 0 /\ IsFiniteSet({})
    BY FS_EmptySet
  <2> QED
    BY <1>1, <1>2, <2>1, <2>2 DEF RecordsInv
<1>7. WaitingInv
  BY <1>1, <1>2 DEF WaitingInv
<1>8. ItemsInv /\ StackInv
  <2>1. 1 .. Len(calls) = {}
    BY <1>3, SMT
  <2> QED
    BY <2>1 DEF ItemsInv, StackInv
<1>9. RunsInv
  BY <1>2 DEF RunsInv
<1>10. FailedInv
  BY <1>2 DEF FailedInv, Failed
<1> QED
  BY <1>5, <1>6, <1>7, <1>8, <1>9, <1>10 DEF IInv

(* Every step keeps the invariant.                                         *)
LEMMA StepGood ==
  ASSUME IInv, [Next]_vars
  PROVE  IInv'
<1>1. CASE Next
  BY <1>1, TypeKept, RecordsKept, WaitingKept, ItemsKept, StackKept, RunsKept, FailedKept
     DEF IInv
<1>2. CASE UNCHANGED vars
  <2>1. /\ records' = records /\ next_id' = next_id /\ indexed' = indexed
        /\ pending_value_count' = pending_value_count /\ pending_values' = pending_values
        /\ next_change' = next_change /\ slot_start_waiting' = slot_start_waiting
        /\ scheduled' = scheduled /\ dispatching' = dispatching /\ calls' = calls
        /\ history' = history
    BY <1>2 DEF vars, values
  <2>2. /\ Known' = Known /\ Active' = Active /\ Failed' = Failed /\ OfKind("value")' = OfKind("value")
        /\ \A i : KindOf(i)' = KindOf(i) /\ Cleared(i)' = Cleared(i) /\ Running(i)' = Running(i)
    BY <2>1 DEF Known, Active, Failed, OfKind, KindOf, Cleared, Running, First
  <2>3. TypeInv' /\ RecordsInv'
    BY <2>1, <2>2 DEF IInv, TypeInv, RecordsInv
  <2>4. WaitingInv' /\ ItemsInv' /\ StackInv'
    BY <2>1, <2>2 DEF IInv, WaitingInv, ItemsInv, StackInv
  <2>5. RunsInv'
    BY <2>1, <2>2 DEF IInv, RunsInv
  <2>6. FailedInv'
    BY <2>1, <2>2 DEF IInv, FailedInv
  <2> QED
    BY <2>3, <2>4, <2>5, <2>6 DEF IInv
<1> QED
  BY <1>1, <1>2

(* The invariant holds in every state of the manager, whatever callbacks   *)
(* register, remove and dispatch while they run.                           *)
THEOREM InvariantHolds == Spec => []IInv
<1>1. Init => IInv
  BY InitGood
<1>2. IInv /\ [Next]_vars => IInv'
  BY StepGood
<1> QED
  BY <1>1, <1>2, PTL DEF Spec

(* What retire, remove_callback and calls of register_callback that fail   *)
(* leave: whatever is indexed or waits is active, or an id whose           *)
(* registration failed and that never runs; no cancellable task outlives   *)
(* its registration; changes are kept for as many registrations as keep    *)
(* them.                                                                   *)
THEOREM RetirementClean == Spec => []RetiredLeavesNothing
<1>1. IInv => RetiredLeavesNothing
  BY DEF IInv, RecordsInv, WaitingInv, FailedInv, Failed, Known, RetiredLeavesNothing
<1> QED
  BY <1>1, InvariantHolds, PTL

(* dispatch_callback runs a one-shot callback at most once, whatever else  *)
(* makes it due while it runs.                                             *)
THEOREM OneShotRunsOnce == Spec => []OneShotOnce
<1>1. IInv => OneShotOnce
  <2> SUFFICES ASSUME IInv, NEW i \in DOMAIN history, OneShot(history[i].kind)
               PROVE  history[i].runs <= 1
    BY DEF OneShotOnce
  <2>1. history[i].runs \in {0, 1}
    BY DEF IInv, RunsInv, Known, KindOf
  <2> QED
    BY <2>1, SMT
<1> QED
  BY <1>1, InvariantHolds, PTL

=============================================================================
