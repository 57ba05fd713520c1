------------------------- MODULE SimirMailboxProofs -------------------------
(***************************************************************************)
(* The mailbox of the SimIR interpreter is first-in first-out and loses    *)
(* nothing, for every capacity, any number of processes and any program.   *)
(*                                                                         *)
(* MailboxFair speaks of the entries and the waiting writers as one        *)
(* sequence, and it is not inductive: it does not say that a value given   *)
(* up with a killed writer is not waiting as well, nor that the box is     *)
(* never over its capacity.  MailboxInv says both, entries and writers     *)
(* apart.                                                                  *)
(***************************************************************************)
EXTENDS SimirSynchronization, NaturalsInduction, WellFoundedInduction, TLAPS

Readers == [process : Processes, peek : BOOLEAN]
Writers == [process : Processes, value : Nat]

(* The shape of the mailbox.                                               *)
MailboxType ==
  /\ sent \in Nat
  /\ entries \in Seq(Nat) /\ Len(entries) <= Capacity
  /\ readers \in Seq(Readers)
  /\ writers \in Seq(Writers)

(* The values that wait in the box, and with the writers.                  *)
InBox == {entries[i] : i \in 1 .. Len(entries)}
WithWriters == {writers[j].value : j \in 1 .. Len(writers)}

(* The order of the puts.                                                  *)
InOrder ==
  /\ \A i, j \in 1 .. Len(entries) : i < j => entries[i] < entries[j]
  /\ \A i, j \in 1 .. Len(writers) : i < j => writers[i].value < writers[j].value
  /\ \A v \in InBox, w \in WithWriters : v < w
  /\ \A v \in taken, w \in InBox \cup WithWriters : v < w

(* Every value is at one place.                                            *)
Accounted ==
  /\ InBox \cup WithWriters \cup taken \cup dropped = 1 .. sent
  /\ dropped \cap (InBox \cup WithWriters \cup taken) = {}

(* Nobody waits at a box that could serve them.                            *)
Served ==
  /\ readers # <<>> => entries = <<>> /\ writers = <<>>
  /\ writers # <<>> => Len(entries) = Capacity

MailboxInv == MailboxType /\ InOrder /\ Accounted /\ Served

-----------------------------------------------------------------------------
(* A set of positions that is not empty has a least element, which Least   *)
(* is.                                                                     *)
LEMMA LeastPosition ==
  ASSUME NEW S \in SUBSET Nat, S # {}, NEW default
  PROVE  /\ Least(S, default) \in S
         /\ \A j \in S : Least(S, default) <= j
<1> DEFINE R == OpToRel(<, Nat)
<1>1. IsWellFoundedOn(R, Nat)
  BY NatLessThanWellFounded
<1>2. \A x, y \in Nat : y < x => <<y, x>> \in R
  BY DEF OpToRel
<1> HIDE DEF R
<1>3. PICK x \in S : \A y \in S : ~(<<y, x>> \in R)
  BY <1>1, WFMin
<1>4. \A y \in S : ~(y < x)
  BY <1>2, <1>3
<1>5. \A y \in S : x <= y
  BY <1>4
<1>6. Least(S, default) = CHOOSE i \in S : \A j \in S : i <= j
  BY DEF Least
<1>7. QED
  BY <1>5, <1>6, Zenon

(* What remains of a sequence behind its first n elements.                 *)
LEMMA AfterDef ==
  ASSUME NEW T, NEW seq \in Seq(T), NEW n \in 0 .. Len(seq)
  PROVE  /\ After(seq, n) \in Seq(T)
         /\ Len(After(seq, n)) = Len(seq) - n
         /\ \A i \in 1 .. Len(seq) - n : After(seq, n)[i] = seq[i + n]
BY DEF After

(* A waiting writer holds a value.                                         *)
LEMMA WriterValue ==
  ASSUME MailboxType
  PROVE  \A j \in 1 .. Len(writers) : writers[j].value \in Nat
<1> TAKE j \in 1 .. Len(writers)
<1>1. writers[j] \in Writers
  BY DEF MailboxType
<1>2. QED
  BY <1>1 DEF Writers

(* The whole queue, position by position.                                  *)
LEMMA ContentsDef ==
  ASSUME MailboxType
  PROVE  /\ Positions(Contents) = 1 .. Len(entries) + Len(writers)
         /\ \A i \in 1 .. Len(entries) : Contents[i] = entries[i]
         /\ \A i \in 1 .. Len(writers) : Contents[i + Len(entries)] = writers[i].value
<1> DEFINE values == [i \in Positions(writers) |-> writers[i].value]
<1>1. DOMAIN writers = 1 .. Len(writers) /\ Len(writers) \in Nat
  BY DEF MailboxType
<1>2. \A i \in 1 .. Len(writers) : writers[i].value \in Nat
  BY WriterValue
<1>3. values \in Seq(Nat) /\ Len(values) = Len(writers)
  BY <1>1, <1>2 DEF Positions
<1>4. \A i \in 1 .. Len(writers) : values[i] = writers[i].value
  BY <1>1 DEF Positions
<1>5. Contents = entries \o values
  BY DEF Contents
<1> HIDE DEF values
<1>6. QED
  BY <1>1, <1>3, <1>4, <1>5 DEF Positions, MailboxType

(* MailboxInv is enough.                                                   *)
LEMMA InvIsFair == MailboxInv => MailboxFair
<1> SUFFICES ASSUME MailboxInv PROVE MailboxFair
  OBVIOUS
<1> DEFINE E == Len(entries)
           W == Len(writers)
<1>1. E \in Nat /\ W \in Nat
  BY DEF MailboxInv, MailboxType
<1>2. /\ Positions(Contents) = 1 .. E + W
      /\ \A i \in 1 .. E : Contents[i] = entries[i]
      /\ \A i \in 1 .. W : Contents[i + E] = writers[i].value
  BY ContentsDef DEF MailboxInv
<1>3. \A i \in 1 .. E : entries[i] \in InBox /\ entries[i] \in Nat
  BY DEF InBox, MailboxInv, MailboxType
<1>4. \A i \in 1 .. W : writers[i].value \in WithWriters /\ writers[i].value \in Nat
  BY WriterValue DEF WithWriters, MailboxInv
<1> HIDE DEF E, W
<1>5. \A i \in 1 .. E + W : i \in 1 .. E \/ \E k \in 1 .. W : i = k + E
  <2> TAKE i \in 1 .. E + W
  <2>1. CASE i <= E
    BY <1>1, <2>1
  <2>2. CASE i > E
    <3>1. i - E \in 1 .. W /\ i = (i - E) + E
      BY <1>1, <2>2
    <3>2. QED
      BY <3>1
  <2>3. QED
    BY <1>1, <2>1, <2>2
<1>6. \A i \in 1 .. E : i \in 1 .. E + W
  BY <1>1
<1>7. \A k \in 1 .. W : k + E \in 1 .. E + W
  BY <1>1
<1>8. ASSUME NEW i \in 1 .. E + W, NEW j \in 1 .. E + W, i < j
      PROVE  Contents[i] < Contents[j]
  <2>1. CASE i \in 1 .. E /\ j \in 1 .. E
    BY <1>2, <1>8, <2>1 DEF MailboxInv, InOrder, E
  <2>2. ASSUME NEW k \in 1 .. W, j = k + E, i \in 1 .. E
        PROVE  Contents[i] < Contents[j]
    BY <1>2, <1>3, <1>4, <2>2 DEF MailboxInv, InOrder
  <2>3. ASSUME NEW k \in 1 .. W, i = k + E
        PROVE  Contents[i] < Contents[j]
    <3>1. PICK l \in 1 .. W : j = l + E
      BY <1>1, <1>5, <1>8, <2>3
    <3>2. k < l
      BY <1>1, <1>8, <2>3, <3>1
    <3>3. writers[k].value < writers[l].value
      BY <3>2 DEF MailboxInv, InOrder, W
    <3>4. QED
      BY <1>2, <2>3, <3>1, <3>3
  <2>4. QED
    BY <1>5, <2>1, <2>2, <2>3
<1>9. {Contents[i] : i \in 1 .. E + W} = InBox \cup WithWriters
  <2>1. ASSUME NEW i \in 1 .. E + W PROVE Contents[i] \in InBox \cup WithWriters
    BY <1>2, <1>3, <1>4, <1>5
  <2>2. ASSUME NEW v \in InBox PROVE \E i \in 1 .. E + W : v = Contents[i]
    <3>1. PICK i \in 1 .. E : v = entries[i]
      BY <2>2 DEF InBox, E
    <3>2. QED
      BY <1>2, <1>6, <3>1
  <2>3. ASSUME NEW v \in WithWriters PROVE \E i \in 1 .. E + W : v = Contents[i]
    <3>1. PICK k \in 1 .. W : v = writers[k].value
      BY <2>3 DEF WithWriters, W
    <3>2. QED
      BY <1>2, <1>7, <3>1
  <2>4. QED
    BY <2>1, <2>2, <2>3
<1>10. \A i \in 1 .. E + W : Contents[i] \in InBox \cup WithWriters
  BY <1>9
<1>11. \A i \in 1 .. E + W : \A v \in taken : v < Contents[i]
  BY <1>10 DEF MailboxInv, InOrder
<1>12. QED
  BY <1>2, <1>8, <1>9, <1>11 DEF MailboxFair, MailboxInv, Accounted, Served

(* A new mailbox is empty.                                                 *)
LEMMA InitGood == Init => MailboxInv
BY MailboxAssumption
   DEF Init, MailboxInv, MailboxType, InOrder, Accounted, Served, InBox, WithWriters

-----------------------------------------------------------------------------
(***************************************************************************)
(* What an operation does to the mailbox.                                  *)
(***************************************************************************)
(* A value finds room, and no reader or only ones that peek or have ended. *)
Accepts ==
  /\ writers = <<>> /\ Len(entries) < Capacity
  /\ readers' = <<>> /\ entries' = Append(entries, sent + 1) /\ sent' = sent + 1
  /\ UNCHANGED <<writers, taken, dropped>>

(* A value goes to a waiting get.                                          *)
HandsOver ==
  /\ readers # <<>> /\ readers' \in Seq(Readers)
  /\ taken' = taken \cup {sent + 1} /\ sent' = sent + 1
  /\ UNCHANGED <<entries, writers, dropped>>

(* A value waits with its writer.                                          *)
Parks(p) ==
  /\ readers = <<>> /\ Len(entries) = Capacity
  /\ writers' = Append(writers, [process |-> p, value |-> sent + 1])
  /\ sent' = sent + 1
  /\ UNCHANGED <<entries, readers, taken, dropped>>

(* The first value is got; no writer is alive.                             *)
Drains ==
  /\ entries # <<>>
  /\ entries' = Tail(entries) /\ writers' = <<>>
  /\ taken' = taken \cup {Head(entries)} /\ dropped' = dropped \cup WithWriters
  /\ UNCHANGED <<readers, sent>>

(* The first value is got; writer n is let in, those before it have ended. *)
Refills(n) ==
  /\ entries # <<>>
  /\ entries' = Append(Tail(entries), writers[n].value)
  /\ writers' = After(writers, n)
  /\ taken' = taken \cup {Head(entries)}
  /\ dropped' = dropped \cup {writers[i].value : i \in 1 .. n - 1}
  /\ UNCHANGED <<readers, sent>>

(* A reader waits.                                                         *)
Listens ==
  /\ entries = <<>> /\ readers' \in Seq(Readers)
  /\ UNCHANGED <<entries, writers, sent, taken, dropped>>

-----------------------------------------------------------------------------
(* A step that does not touch the mailbox keeps the invariant.             *)
LEMMA QuietKeeps == MailboxInv /\ UNCHANGED mailboxVars => MailboxInv'
<1> SUFFICES ASSUME MailboxInv, UNCHANGED mailboxVars PROVE MailboxInv'
  OBVIOUS
<1>1. UNCHANGED <<entries, readers, writers, sent, taken, dropped>>
  BY DEF mailboxVars
<1>2. InBox' = InBox /\ WithWriters' = WithWriters
  BY <1>1 DEF InBox, WithWriters
<1>3. MailboxType' /\ Served'
  BY <1>1 DEF MailboxInv, MailboxType, Served
<1>4. Accounted'
  BY <1>1, <1>2 DEF MailboxInv, Accounted
<1>5. InOrder'
  BY <1>1, <1>2 DEF MailboxInv, InOrder
<1>6. QED
  BY <1>3, <1>4, <1>5 DEF MailboxInv

(* So does a reader that begins to wait ...                                *)
LEMMA ListensKeeps == MailboxInv /\ Listens => MailboxInv'
<1> SUFFICES ASSUME MailboxInv, Listens PROVE MailboxInv'
  OBVIOUS
<1>1. writers = <<>>
  BY MailboxAssumption DEF MailboxInv, Served, Listens
<1>2. Served'
  BY <1>1 DEF Served, Listens, MailboxInv
<1>3. MailboxType' /\ InOrder' /\ Accounted'
  BY DEF Listens, MailboxInv, MailboxType, InOrder, Accounted, InBox, WithWriters
<1>4. QED
  BY <1>2, <1>3 DEF MailboxInv

(* ... a value that finds room ...                                         *)
LEMMA AcceptsKeeps == MailboxInv /\ Accepts => MailboxInv'
<1> SUFFICES ASSUME MailboxInv, Accepts PROVE MailboxInv'
  OBVIOUS
<1> DEFINE E == Len(entries)
<1>1. /\ sent \in Nat /\ entries \in Seq(Nat) /\ E \in Nat /\ E < Capacity
      /\ writers = <<>>
  BY DEF Accepts, MailboxInv, MailboxType
<1>2. /\ entries' \in Seq(Nat) /\ Len(entries') = E + 1
      /\ \A i \in 1 .. E : entries'[i] = entries[i]
      /\ entries'[E + 1] = sent + 1
  BY <1>1 DEF Accepts
<1>3. MailboxType'
  BY <1>1, <1>2, MailboxAssumption DEF Accepts, MailboxInv, MailboxType
<1>4. WithWriters = {} /\ WithWriters' = {}
  BY <1>1 DEF WithWriters, Accepts
<1>5. InBox' = InBox \cup {sent + 1}
  <2>1. 1 .. E + 1 = (1 .. E) \cup {E + 1}
    BY <1>1
  <2>2. InBox' = {entries'[i] : i \in 1 .. E + 1}
    BY <1>2 DEF InBox
  <2> HIDE DEF E
  <2>3. InBox = {entries[i] : i \in 1 .. E}
    BY DEF InBox, E
  <2>4. QED
    BY <1>2, <2>1, <2>2, <2>3
<1>6. InBox \cup taken \cup dropped = 1 .. sent
  BY <1>4 DEF MailboxInv, Accounted
<1>7. \A i \in 1 .. E : entries[i] \in 1 .. sent
  BY <1>6 DEF InBox
<1>8. Accounted'
  BY <1>1, <1>4, <1>5, <1>6 DEF Accepts, MailboxInv, Accounted
<1>9. \A i, j \in 1 .. E + 1 : i < j => entries'[i] < entries'[j]
  <2> SUFFICES ASSUME NEW i \in 1 .. E + 1, NEW j \in 1 .. E + 1, i < j
               PROVE  entries'[i] < entries'[j]
    OBVIOUS
  <2>1. i \in 1 .. E /\ entries'[i] = entries[i]
    <3>1. E \in Nat
      BY <1>1
    <3> HIDE DEF E
    <3>2. i \in 1 .. E
      BY <3>1
    <3>3. QED
      BY <1>2, <3>2
  <2>2. CASE j \in 1 .. E
    <3>1. entries[i] < entries[j] /\ entries'[j] = entries[j]
      BY <1>2, <2>1, <2>2 DEF MailboxInv, InOrder
    <3>2. QED
      BY <2>1, <3>1
  <2>3. CASE j = E + 1
    <3>1. entries[i] < sent + 1
      BY <1>1, <1>7, <2>1
    <3>2. QED
      BY <1>2, <2>1, <2>3, <3>1
  <2>4. QED
    BY <1>1, <2>2, <2>3
<1>10. \A v \in taken, w \in InBox \cup {sent + 1} : v < w
  BY <1>1, <1>6 DEF MailboxInv, InOrder
<1>11. InOrder'
  <2>1. \A i, j \in 1 .. Len(entries') : i < j => entries'[i] < entries'[j]
    BY <1>2, <1>9
  <2>2. \A i, j \in 1 .. Len(writers') : i < j => writers'[i].value < writers'[j].value
    BY <1>1 DEF Accepts
  <2>3. \A v \in taken', w \in InBox' \cup WithWriters' : v < w
    BY <1>4, <1>5, <1>10 DEF Accepts
  <2>4. QED
    BY <1>4, <2>1, <2>2, <2>3 DEF InOrder
<1>12. Served'
  BY <1>1 DEF Served, Accepts
<1>13. QED
  BY <1>3, <1>8, <1>11, <1>12 DEF MailboxInv

(* ... one that goes to a waiting get ...                                  *)
LEMMA HandsOverKeeps == MailboxInv /\ HandsOver => MailboxInv'
<1> SUFFICES ASSUME MailboxInv, HandsOver PROVE MailboxInv'
  OBVIOUS
<1>1. sent \in Nat /\ entries = <<>> /\ writers = <<>>
  BY DEF HandsOver, MailboxInv, MailboxType, Served
<1>2. InBox = {} /\ WithWriters = {} /\ InBox' = {} /\ WithWriters' = {}
  BY <1>1 DEF InBox, WithWriters, HandsOver
<1>3. taken \cup dropped = 1 .. sent /\ dropped \cap taken = {}
  BY <1>2 DEF MailboxInv, Accounted
<1>4. Accounted'
  BY <1>1, <1>2, <1>3 DEF HandsOver, Accounted
<1>5. InOrder'
  BY <1>1, <1>2 DEF HandsOver, InOrder
<1>6. MailboxType' /\ Served'
  BY <1>1 DEF HandsOver, MailboxInv, MailboxType, Served
<1>7. QED
  BY <1>4, <1>5, <1>6 DEF MailboxInv

(* ... and one that waits with its writer.                                 *)
LEMMA ParksKeeps ==
  ASSUME MailboxInv, NEW p \in Processes, Parks(p)
  PROVE  MailboxInv'
<1> DEFINE W == Len(writers)
<1>1. sent \in Nat /\ writers \in Seq(Writers) /\ W \in Nat
  BY DEF MailboxInv, MailboxType
<1>2. [process |-> p, value |-> sent + 1] \in Writers
  BY <1>1 DEF Writers
<1>3. /\ writers' \in Seq(Writers) /\ Len(writers') = W + 1
      /\ \A j \in 1 .. W : writers'[j] = writers[j]
      /\ writers'[W + 1] = [process |-> p, value |-> sent + 1]
  BY <1>1, <1>2 DEF Parks
<1>4. writers'[W + 1].value = sent + 1
  BY <1>3
<1>5. MailboxType'
  BY <1>1, <1>3 DEF Parks, MailboxInv, MailboxType
<1>6. InBox' = InBox
  BY DEF InBox, Parks
<1>7. WithWriters' = WithWriters \cup {sent + 1}
  <2>1. 1 .. W + 1 = (1 .. W) \cup {W + 1}
    BY <1>1
  <2>2. WithWriters' = {writers'[j].value : j \in 1 .. W + 1}
    BY <1>3 DEF WithWriters
  <2> HIDE DEF W
  <2>3. WithWriters = {writers[j].value : j \in 1 .. W}
    BY DEF WithWriters, W
  <2>4. QED
    BY <1>3, <1>4, <2>1, <2>2, <2>3
<1>8. InBox \cup WithWriters \cup taken \cup dropped = 1 .. sent
  BY DEF MailboxInv, Accounted
<1>9. Accounted'
  BY <1>1, <1>6, <1>7, <1>8 DEF Parks, MailboxInv, Accounted
<1>10. \A j \in 1 .. W : writers[j].value \in 1 .. sent
  BY <1>8 DEF WithWriters
<1>11. \A i, j \in 1 .. W + 1 : i < j => writers'[i].value < writers'[j].value
  <2> SUFFICES ASSUME NEW i \in 1 .. W + 1, NEW j \in 1 .. W + 1, i < j
               PROVE  writers'[i].value < writers'[j].value
    OBVIOUS
  <2>1. i \in 1 .. W /\ writers'[i] = writers[i]
    <3>1. W \in Nat
      BY <1>1
    <3> HIDE DEF W
    <3>2. i \in 1 .. W
      BY <3>1
    <3>3. QED
      BY <1>3, <3>2
  <2>2. CASE j \in 1 .. W
    <3>1. writers[i].value < writers[j].value /\ writers'[j] = writers[j]
      BY <1>3, <2>1, <2>2 DEF MailboxInv, InOrder
    <3>2. QED
      BY <2>1, <3>1
  <2>3. CASE j = W + 1
    <3>1. writers[i].value < sent + 1
      BY <1>1, <1>10, <2>1
    <3>2. QED
      BY <1>4, <2>1, <2>3, <3>1
  <2>4. QED
    BY <1>1, <2>2, <2>3
<1>12. \A v \in InBox \cup taken : v < sent + 1
  BY <1>1, <1>8
<1>13. InOrder'
  <2>1. \A i, j \in 1 .. Len(entries') : i < j => entries'[i] < entries'[j]
    BY DEF MailboxInv, InOrder, Parks
  <2>2. \A i, j \in 1 .. Len(writers') : i < j => writers'[i].value < writers'[j].value
    BY <1>3, <1>11
  <2>3. \A v \in InBox', w \in WithWriters' : v < w
    BY <1>6, <1>7, <1>12 DEF MailboxInv, InOrder
  <2>4. \A v \in taken', w \in InBox' \cup WithWriters' : v < w
    BY <1>6, <1>7, <1>12 DEF MailboxInv, InOrder, Parks
  <2>5. QED
    BY <2>1, <2>2, <2>3, <2>4 DEF InOrder
<1>14. Served'
  BY DEF Served, Parks
<1>15. QED
  BY <1>5, <1>9, <1>13, <1>14 DEF MailboxInv

(* The box without its first value, which is the least.                    *)
Behind == {Tail(entries)[i] : i \in 1 .. Len(entries) - 1}
(* Taking the first value leaves the rest in order.                        *)
LEMMA FirstValue ==
  ASSUME MailboxInv, entries # <<>>
  PROVE  /\ Tail(entries) \in Seq(Nat) /\ Len(Tail(entries)) = Len(entries) - 1
         /\ Len(entries) \in Nat \ {0}
         /\ \A i, j \in 1 .. Len(entries) - 1 :
              i < j => Tail(entries)[i] < Tail(entries)[j]
         /\ InBox = {Head(entries)} \cup Behind
         /\ \A v \in Behind : Head(entries) < v
<1> DEFINE E == Len(entries)
           T == Tail(entries)
<1>1. entries \in Seq(Nat) /\ E \in Nat \ {0}
  BY DEF MailboxInv, MailboxType
<1>2. T \in Seq(Nat) /\ Len(T) = E - 1 /\ \A i \in 1 .. E - 1 : T[i] = entries[i + 1]
  BY <1>1
<1>3. Head(entries) = entries[1]
  BY <1>1
<1>4. \A i, j \in 1 .. E : i < j => entries[i] < entries[j]
  BY DEF MailboxInv, InOrder
<1>5. InBox = {entries[i] : i \in 1 .. E}
  BY DEF InBox
<1>6. Behind = {T[i] : i \in 1 .. E - 1}
  BY DEF Behind
<1> HIDE DEF E, T
<1>7. \A i \in 1 .. E - 1 : i + 1 \in 1 .. E /\ 1 < i + 1
  BY <1>1
<1>8. 1 \in 1 .. E
  BY <1>1
<1>9. ASSUME NEW i \in 1 .. E - 1, NEW j \in 1 .. E - 1, i < j
      PROVE  T[i] < T[j]
  <2>1. i + 1 < j + 1
    BY <1>9, <1>1
  <2>2. entries[i + 1] < entries[j + 1]
    BY <1>4, <1>7, <2>1
  <2>3. QED
    BY <1>2, <2>2
<1>10. InBox = {entries[1]} \cup Behind
  <2>1. ASSUME NEW i \in 1 .. E PROVE entries[i] \in {entries[1]} \cup Behind
    <3>1. CASE i = 1
      BY <3>1
    <3>2. CASE i # 1
      <4>1. i - 1 \in 1 .. E - 1 /\ (i - 1) + 1 = i
        BY <1>1, <3>2
      <4>2. T[i - 1] = entries[i]
        BY <1>2, <4>1
      <4>3. QED
        BY <1>6, <4>1, <4>2
    <3>3. QED
      BY <3>1, <3>2
  <2>2. \A i \in 1 .. E - 1 : T[i] \in InBox
    BY <1>2, <1>5, <1>7
  <2>3. QED
    BY <1>5, <1>6, <1>8, <2>1, <2>2
<1>11. \A v \in Behind : entries[1] < v
  BY <1>2, <1>4, <1>6, <1>7, <1>8
<1>12. QED
  BY <1>1, <1>2, <1>3, <1>9, <1>10, <1>11 DEF E, T

(* A get keeps the invariant when no writer is alive ...                   *)
LEMMA DrainsKeeps == MailboxInv /\ Drains => MailboxInv'
<1> SUFFICES ASSUME MailboxInv, Drains PROVE MailboxInv'
  OBVIOUS
<1>1. entries # <<>>
  BY DEF Drains
<1>2. /\ entries' \in Seq(Nat) /\ Len(entries') = Len(entries) - 1
      /\ Len(entries) \in Nat \ {0}
      /\ \A i, j \in 1 .. Len(entries') : i < j => entries'[i] < entries'[j]
  BY <1>1, FirstValue DEF Drains
<1>3. InBox = {Head(entries)} \cup Behind /\ \A v \in Behind : Head(entries) < v
  BY <1>1, FirstValue
<1>4. InBox' = Behind
  BY <1>2 DEF InBox, Behind, Drains
<1>5. writers' = <<>> /\ WithWriters' = {}
  BY DEF Drains, WithWriters
<1>6. readers = <<>>
  BY <1>1 DEF MailboxInv, Served
<1>7. MailboxType'
  BY <1>2, <1>5, MailboxAssumption DEF MailboxInv, MailboxType, Drains
<1>8. Served'
  BY <1>5, <1>6 DEF Served, Drains
<1>9. taken' = taken \cup {Head(entries)} /\ dropped' = dropped \cup WithWriters /\ sent' = sent
  BY DEF Drains
<1>10. \A v \in taken \cup InBox : \A w \in WithWriters : v < w /\ v \in Nat /\ w \in Nat
  BY DEF MailboxInv, InOrder, Accounted, MailboxType
<1>11. (taken \cup InBox) \cap WithWriters = {}
  BY <1>10
<1>12. Accounted'
  BY <1>3, <1>4, <1>5, <1>9, <1>11 DEF MailboxInv, Accounted
<1>13. InOrder'
  <2>1. \A i, j \in 1 .. Len(writers') : i < j => writers'[i].value < writers'[j].value
    BY <1>5
  <2>2. \A v \in taken', w \in InBox' \cup WithWriters' : v < w
    BY <1>3, <1>4, <1>5, <1>9 DEF MailboxInv, InOrder
  <2>3. QED
    BY <1>2, <1>5, <2>1, <2>2 DEF InOrder
<1>14. QED
  BY <1>7, <1>8, <1>12, <1>13 DEF MailboxInv

(* The writers before the one that is let in, and those behind it.         *)
Before(n) == {writers[i].value : i \in 1 .. n - 1}
Later(n) == {writers[i].value : i \in n + 1 .. Len(writers)}
(* The writers are these and the one between them, in order.               *)
LEMMA SplitWriters ==
  ASSUME MailboxInv, NEW n \in 1 .. Len(writers)
  PROVE  /\ WithWriters = Before(n) \cup {writers[n].value} \cup Later(n)
         /\ \A v \in Before(n) : v < writers[n].value
         /\ \A w \in Later(n) : writers[n].value < w
         /\ \A v \in Before(n), w \in Later(n) : v < w
         /\ WithWriters \subseteq Nat
<1> DEFINE W == Len(writers)
<1>1. W \in Nat
  BY DEF MailboxInv, MailboxType
<1>2. \A i, j \in 1 .. W : i < j => writers[i].value < writers[j].value
  BY DEF MailboxInv, InOrder
<1>3. \A i \in 1 .. W : writers[i].value \in Nat
  BY WriterValue DEF MailboxInv
<1>4. /\ WithWriters = {writers[i].value : i \in 1 .. W}
      /\ Before(n) = {writers[i].value : i \in 1 .. n - 1}
      /\ Later(n) = {writers[i].value : i \in n + 1 .. W}
  BY DEF WithWriters, Before, Later
<1>5. n \in 1 .. W
  OBVIOUS
<1> HIDE DEF W
<1>6. 1 .. W = (1 .. n - 1) \cup {n} \cup (n + 1 .. W)
  BY <1>1, <1>5
<1>7. /\ \A i \in 1 .. n - 1 : i \in 1 .. W /\ i < n
      /\ \A i \in n + 1 .. W : i \in 1 .. W /\ n < i
      /\ \A i \in 1 .. n - 1 : \A j \in n + 1 .. W : i < j
  BY <1>1, <1>5
<1>8. WithWriters = Before(n) \cup {writers[n].value} \cup Later(n)
  BY <1>4, <1>6
<1>9. \A v \in Before(n) : v < writers[n].value
  BY <1>2, <1>4, <1>5, <1>7
<1>10. \A w \in Later(n) : writers[n].value < w
  BY <1>2, <1>4, <1>5, <1>7
<1>11. \A v \in Before(n), w \in Later(n) : v < w
  BY <1>2, <1>4, <1>7
<1>12. WithWriters \subseteq Nat
  BY <1>3, <1>4
<1>13. QED
  BY <1>8, <1>9, <1>10, <1>11, <1>12

(* ... and when writer n is let in.                                        *)
LEMMA RefillsKeeps ==
  ASSUME MailboxInv, NEW n \in 1 .. Len(writers), Refills(n)
  PROVE  MailboxInv'
<1> DEFINE E == Len(entries)
           W == Len(writers)
           h == Head(entries)
           x == writers[n].value
           T == Tail(entries)
<1>1. entries # <<>> /\ W \in Nat /\ writers \in Seq(Writers) /\ n \in 1 .. W
  BY DEF Refills, MailboxInv, MailboxType
<1>2. /\ T \in Seq(Nat) /\ Len(T) = E - 1 /\ E \in Nat \ {0}
      /\ \A i, j \in 1 .. E - 1 : i < j => T[i] < T[j]
      /\ InBox = {h} \cup Behind /\ \A v \in Behind : h < v
      /\ Behind = {T[i] : i \in 1 .. E - 1}
  BY <1>1, FirstValue DEF Behind
<1>3. /\ WithWriters = Before(n) \cup {x} \cup Later(n) /\ WithWriters \subseteq Nat
      /\ \A v \in Before(n) : v < x
      /\ \A w \in Later(n) : x < w
      /\ \A v \in Before(n), w \in Later(n) : v < w
  BY SplitWriters
<1>4. x \in Nat
  BY <1>3
<1>5. entries' = Append(T, x)
  BY DEF Refills
<1>6. /\ entries' \in Seq(Nat) /\ Len(entries') = E
      /\ \A i \in 1 .. E - 1 : entries'[i] = T[i]
      /\ entries'[E] = x
  <2> HIDE DEF T, x, E
  <2>1. QED
    BY <1>2, <1>4, <1>5
<1>7. /\ writers' \in Seq(Writers) /\ Len(writers') = W - n
      /\ \A i \in 1 .. W - n : writers'[i] = writers[i + n]
  <2>1. n \in 0 .. Len(writers) /\ writers' = After(writers, n)
    BY <1>1 DEF Refills
  <2>2. QED
    BY <1>1, <2>1, AfterDef
<1>8. /\ taken' = taken \cup {h} /\ dropped' = dropped \cup Before(n)
      /\ sent' = sent /\ readers' = readers
  BY DEF Refills, Before
<1>9. InBox' = Behind \cup {x}
  <2>1. InBox' = {entries'[i] : i \in 1 .. E}
    BY <1>6 DEF InBox
  <2> HIDE DEF E, x, T
  <2>2. 1 .. E = (1 .. E - 1) \cup {E}
    BY <1>2
  <2>3. InBox' = {entries'[i] : i \in 1 .. E - 1} \cup {entries'[E]}
    BY <2>1, <2>2
  <2>4. {entries'[i] : i \in 1 .. E - 1} = Behind
    BY <1>2, <1>6
  <2>5. QED
    BY <1>6, <2>3, <2>4
<1>10. WithWriters' = Later(n)
  <2>1. WithWriters' = {writers'[i].value : i \in 1 .. W - n}
    BY <1>7 DEF WithWriters
  <2>2. Later(n) = {writers[i].value : i \in n + 1 .. W}
    BY DEF Later
  <2> HIDE DEF W
  <2>3. \A i \in 1 .. W - n : i + n \in n + 1 .. W
    BY <1>1
  <2>4. \A i \in n + 1 .. W : i - n \in 1 .. W - n /\ (i - n) + n = i
    BY <1>1
  <2>5. ASSUME NEW v \in WithWriters' PROVE v \in Later(n)
    <3>1. PICK i \in 1 .. W - n : v = writers'[i].value
      BY <2>1, <2>5
    <3>2. v = writers[i + n].value
      BY <1>7, <3>1
    <3>3. QED
      BY <2>2, <2>3, <3>2
  <2>6. ASSUME NEW v \in Later(n) PROVE v \in WithWriters'
    <3>1. PICK i \in n + 1 .. W : v = writers[i].value
      BY <2>2, <2>6
    <3>2. writers'[i - n] = writers[i]
      BY <1>7, <2>4
    <3>3. QED
      BY <2>1, <2>4, <3>1, <3>2
  <2>7. QED
    BY <2>5, <2>6
<1>11. Len(entries) = Capacity /\ readers = <<>>
  <2>1. writers # <<>>
    BY <1>1
  <2>2. QED
    BY <1>1, <2>1 DEF MailboxInv, Served
<1>12. MailboxType'
  BY <1>6, <1>7, <1>8 DEF MailboxInv, MailboxType
<1>13. Served'
  BY <1>6, <1>8, <1>11 DEF Served
<1>14. /\ \A v \in InBox, w \in WithWriters : v < w
       /\ \A v \in taken, w \in InBox \cup WithWriters : v < w
       /\ InBox \cup WithWriters \cup taken \cup dropped = 1 .. sent
       /\ dropped \cap (InBox \cup WithWriters \cup taken) = {}
       /\ sent \in Nat
  BY DEF MailboxInv, InOrder, Accounted, MailboxType
<1> HIDE DEF h, x, T, E, W
<1>15. InBox \subseteq Nat /\ taken \subseteq Nat /\ WithWriters \subseteq Nat
  BY <1>14
<1>16. Before(n) \cap (InBox \cup {x} \cup Later(n) \cup taken) = {}
  <2>1. ASSUME NEW v \in Before(n) PROVE v \notin InBox /\ v \notin taken
    <3>1. v \in WithWriters
      BY <1>3, <2>1
    <3>2. QED
      BY <1>14, <1>15, <3>1
  <2>2. ASSUME NEW v \in Before(n) PROVE v # x /\ v \notin Later(n)
    <3>1. v \in Nat
      BY <1>3, <2>2
    <3>2. QED
      BY <1>3, <3>1
  <2>3. QED
    BY <2>1, <2>2
<1>17. Accounted'
  <2>1. InBox' \cup WithWriters' \cup taken' \cup dropped' = 1 .. sent'
    BY <1>2, <1>3, <1>8, <1>9, <1>10, <1>14
  <2>2. dropped' \cap (InBox' \cup WithWriters' \cup taken') = {}
    BY <1>2, <1>3, <1>8, <1>9, <1>10, <1>14, <1>16
  <2>3. QED
    BY <2>1, <2>2 DEF Accounted
<1>18. \A i, j \in 1 .. Len(entries') : i < j => entries'[i] < entries'[j]
  <2> SUFFICES ASSUME NEW i \in 1 .. E, NEW j \in 1 .. E, i < j
               PROVE  entries'[i] < entries'[j]
    BY <1>6
  <2>1. i \in 1 .. E - 1
    BY <1>2
  <2>2. CASE j \in 1 .. E - 1
    BY <1>2, <1>6, <2>1, <2>2
  <2>3. CASE j = E
    <3>1. T[i] \in InBox
      BY <1>2, <2>1
    <3>2. T[i] < x
      BY <1>3, <1>14, <3>1
    <3>3. QED
      BY <1>6, <2>1, <2>3, <3>2
  <2>4. QED
    BY <1>2, <2>2, <2>3
<1>19. \A i, j \in 1 .. Len(writers') : i < j => writers'[i].value < writers'[j].value
  <2> SUFFICES ASSUME NEW i \in 1 .. W - n, NEW j \in 1 .. W - n, i < j
               PROVE  writers'[i].value < writers'[j].value
    BY <1>7
  <2>1. i + n \in 1 .. W /\ j + n \in 1 .. W /\ i + n < j + n
    BY <1>1
  <2>2. writers[i + n].value < writers[j + n].value
    BY <2>1 DEF MailboxInv, InOrder, W
  <2>3. QED
    BY <1>7, <2>2
<1>20. \A v \in InBox', w \in WithWriters' : v < w
  BY <1>2, <1>3, <1>9, <1>10, <1>14
<1>21. \A v \in taken', w \in InBox' \cup WithWriters' : v < w
  <2>1. h \in InBox /\ x \in WithWriters /\ Later(n) \subseteq WithWriters /\ Behind \subseteq InBox
    BY <1>2, <1>3
  <2>2. \A w \in InBox' \cup WithWriters' : h < w
    BY <1>2, <1>9, <1>10, <1>14, <2>1
  <2>3. \A v \in taken : \A w \in InBox' \cup WithWriters' : v < w
    BY <1>9, <1>10, <1>14, <2>1
  <2>4. QED
    BY <1>8, <2>2, <2>3
<1>22. InOrder'
  BY <1>18, <1>19, <1>20, <1>21 DEF InOrder
<1>23. QED
  BY <1>12, <1>13, <1>17, <1>22 DEF MailboxInv

-----------------------------------------------------------------------------
(***************************************************************************)
(* The operations.                                                         *)
(***************************************************************************)
LEMMA PutKeeps ==
  ASSUME MailboxInv, NEW p \in Processes, NEW try \in BOOLEAN, Put(p, try)
  PROVE  MailboxInv'
<1>1. /\ readers \in Seq(Readers) /\ Len(readers) \in Nat
      /\ DOMAIN readers = 1 .. Len(readers)
      /\ entries \in Seq(Nat) /\ Len(entries) \in Nat /\ Len(entries) <= Capacity
  BY DEF MailboxInv, MailboxType
<1>2. Getters \subseteq 1 .. Len(readers)
  BY <1>1 DEF Getters, Positions
<1> DEFINE available == writers = <<>> /\ (readers # <<>> \/ Len(entries) < Capacity)
<1>3. CASE available
  <2>1. /\ Deliver(p, sent + 1) /\ sent' = sent + 1
        /\ UNCHANGED <<writers, dropped>>
    BY <1>3 DEF Put
  <2>2. CASE Getters = {}
    <3>1. readers' = After(readers, Len(readers))
      BY <2>1, <2>2 DEF Deliver, Least
    <3>2. readers' \in Seq(Readers) /\ Len(readers') = 0
      <4>1. Len(readers) \in 0 .. Len(readers)
        BY <1>1
      <4>2. QED
        BY <1>1, <3>1, <4>1, AfterDef
    <3>3. readers' = <<>>
      BY <3>2
    <3>4. entries' = Append(entries, sent + 1) /\ taken' = taken
      BY <2>1, <2>2 DEF Deliver
    <3>5. Len(entries) < Capacity
      <4>1. CASE readers # <<>>
        <5>1. entries = <<>>
          BY <4>1 DEF MailboxInv, Served
        <5>2. QED
          BY <5>1, MailboxAssumption
      <4>2. QED
        BY <1>3, <4>1
    <3>6. Accepts
      BY <1>3, <2>1, <3>3, <3>4, <3>5 DEF Accepts
    <3>7. QED
      BY <3>6, AcceptsKeeps
  <2>3. CASE Getters # {}
    <3> DEFINE n == Least(Getters, Len(readers))
    <3>1. n \in 0 .. Len(readers)
      <4>1. Getters \in SUBSET Nat
        BY <1>1, <1>2
      <4>2. n \in Getters
        BY <2>3, <4>1, LeastPosition
      <4> HIDE DEF n
      <4>3. n \in 1 .. Len(readers)
        BY <1>2, <4>2
      <4>4. QED
        BY <1>1, <4>3
    <3>2. readers' = After(readers, n)
      BY <2>1 DEF Deliver
    <3> HIDE DEF n
    <3>3. readers' \in Seq(Readers)
      BY <1>1, <3>1, <3>2, AfterDef
    <3>4. readers # <<>>
      <4>1. PICK i \in Getters : TRUE
        BY <2>3
      <4>2. i \in 1 .. Len(readers)
        BY <1>2
      <4>3. QED
        BY <1>1, <4>2
    <3>5. entries' = entries /\ taken' = taken \cup {sent + 1}
      BY <2>1, <2>3 DEF Deliver
    <3>6. HandsOver
      BY <2>1, <3>3, <3>4, <3>5 DEF HandsOver
    <3>7. QED
      BY <3>6, HandsOverKeeps
  <2>4. QED
    BY <2>2, <2>3
<1>4. CASE ~available
  <2>1. UNCHANGED <<entries, readers, taken, dropped>>
    BY <1>4 DEF Put
  <2>2. CASE try
    <3>1. UNCHANGED mailboxVars
      BY <1>4, <2>1, <2>2 DEF Put, mailboxVars
    <3>2. QED
      BY <3>1, QuietKeeps
  <2>3. CASE ~try
    <3>1. /\ sent' = sent + 1
          /\ writers' = Append(writers, [process |-> p, value |-> sent + 1])
      BY <1>4, <2>3 DEF Put
    <3>2. readers = <<>> /\ Len(entries) = Capacity
      <4>1. CASE writers # <<>>
        <5>1. readers = <<>> /\ Len(entries) = Capacity
          BY <4>1 DEF MailboxInv, Served
        <5>2. QED
          BY <5>1
      <4>2. CASE writers = <<>>
        <5>1. readers = <<>> /\ ~(Len(entries) < Capacity)
          BY <1>4, <4>2
        <5>2. QED
          BY <1>1, <5>1, MailboxAssumption
      <4>3. QED
        BY <4>1, <4>2
    <3>3. Parks(p)
      BY <2>1, <3>1, <3>2 DEF Parks
    <3>4. QED
      BY <3>3, ParksKeeps
  <2>4. QED
    BY <2>2, <2>3
<1>5. QED
  BY <1>3, <1>4

(* A get of an entry lets in the first live writer or drains.              *)
LEMMA RefillKeeps ==
  ASSUME MailboxInv, NEW p \in Processes, entries # <<>>, Refill(p),
         taken' = taken \cup {Head(entries)}, UNCHANGED <<readers, sent>>
  PROVE  MailboxInv'
<1> DEFINE alive == {i \in Positions(writers) : writers[i].process \in Live}
           W == Len(writers)
           n == Least(alive, W)
<1>1. writers \in Seq(Writers) /\ W \in Nat /\ alive \subseteq 1 .. W
  BY DEF MailboxInv, MailboxType, Positions
<1>2. /\ writers' = After(writers, n)
      /\ entries' = Tail(entries) \o (IF alive = {} THEN <<>> ELSE <<writers[n].value>>)
      /\ dropped' = dropped \cup {writers[i].value : i \in (1 .. n) \ alive}
  BY DEF Refill
<1>3. Tail(entries) \in Seq(Nat)
  BY FirstValue
<1>4. CASE alive = {}
  <2>1. n = W
    BY <1>4 DEF Least
  <2>2. W \in 0 .. Len(writers)
    BY <1>1
  <2>3. writers' \in Seq(Writers) /\ Len(writers') = 0
    <3>1. writers' = After(writers, Len(writers))
      BY <1>2, <2>1
    <3>2. After(writers, Len(writers)) \in Seq(Writers)
      BY <1>1, <2>2, AfterDef
    <3>3. Len(After(writers, Len(writers))) = Len(writers) - Len(writers)
      BY <1>1, <2>2, AfterDef
    <3>4. QED
      BY <1>1, <3>1, <3>2, <3>3
  <2>4. writers' = <<>>
    BY <2>3
  <2>5. entries' = Tail(entries)
    BY <1>2, <1>3, <1>4
  <2>6. dropped' = dropped \cup WithWriters
    <3>1. (1 .. n) \ alive = 1 .. Len(writers)
      BY <1>4, <2>1
    <3> HIDE DEF alive, n, W
    <3>2. QED
      BY <1>2, <3>1 DEF WithWriters
  <2>7. Drains
    BY <2>4, <2>5, <2>6 DEF Drains
  <2>8. QED
    BY <2>7, DrainsKeeps
<1>5. CASE alive # {}
  <2>1. alive \in SUBSET Nat
    BY <1>1
  <2>2. n \in alive /\ \A j \in alive : n <= j
    <3> HIDE DEF alive, W
    <3>1. QED
      BY <1>5, <2>1, LeastPosition
  <2>3. n \in 1 .. W
    <3> HIDE DEF alive, n
    <3>1. QED
      BY <1>1, <2>2
  <2>4. (1 .. n) \ alive = 1 .. n - 1
    <3> HIDE DEF alive, n, W
    <3>1. QED
      BY <1>1, <2>1, <2>2, <2>3
  <2>5. writers[n].value \in Nat
    <3> HIDE DEF n
    <3>1. QED
      BY <2>3, WriterValue DEF MailboxInv
  <2>6. entries' = Append(Tail(entries), writers[n].value)
    <3>1. entries' = Tail(entries) \o <<writers[n].value>>
      BY <1>2, <1>5
    <3> HIDE DEF n, alive
    <3>2. QED
      BY <1>3, <2>5, <3>1
  <2>7. Refills(n)
    <3> HIDE DEF n, alive
    <3>1. QED
      BY <1>2, <2>4, <2>6 DEF Refills
  <2>8. QED
    <3> HIDE DEF n
    <3>1. QED
      BY <2>3, <2>7, RefillsKeeps
<1>6. QED
  BY <1>4, <1>5

(* get, peek, try_get and try_peek keep the invariant.                     *)
LEMMA GetKeeps ==
  ASSUME MailboxInv, NEW p \in Processes, NEW peek \in BOOLEAN, NEW try \in BOOLEAN,
         Get(p, peek, try)
  PROVE  MailboxInv'
<1>1. sent' = sent
  BY DEF Get
<1>2. CASE entries # <<>>
  <2>1. readers' = readers
    BY <1>2 DEF Get
  <2>2. CASE peek
    <3>1. UNCHANGED mailboxVars
      BY <1>1, <1>2, <2>1, <2>2 DEF Get, mailboxVars
    <3>2. QED
      BY <3>1, QuietKeeps
  <2>3. CASE ~peek
    <3>1. Refill(p) /\ taken' = taken \cup {Head(entries)}
      BY <1>2, <2>3 DEF Get
    <3>2. QED
      BY <1>1, <1>2, <2>1, <3>1, RefillKeeps
  <2>4. QED
    BY <2>2, <2>3
<1>3. CASE entries = <<>>
  <2>1. UNCHANGED <<entries, writers, taken, dropped>>
    BY <1>3 DEF Get
  <2>2. CASE try
    <3>1. UNCHANGED mailboxVars
      BY <1>1, <1>3, <2>1, <2>2 DEF Get, mailboxVars
    <3>2. QED
      BY <3>1, QuietKeeps
  <2>3. CASE ~try
    <3>1. readers' = Append(readers, [process |-> p, peek |-> peek])
      BY <1>3, <2>3 DEF Get
    <3>2. [process |-> p, peek |-> peek] \in Readers
      BY DEF Readers
    <3>3. readers' \in Seq(Readers)
      BY <3>1, <3>2 DEF MailboxInv, MailboxType
    <3>4. Listens
      BY <1>1, <1>3, <2>1, <3>3 DEF Listens
    <3>5. QED
      BY <3>4, ListensKeeps
  <2>4. QED
    BY <2>2, <2>3
<1>4. QED
  BY <1>2, <1>3

(* No other step touches the mailbox: what a process does to others, kill, *)
(* disable and suspend included, leaves its entries, readers and writers.  *)
LEMMA NextKeeps == MailboxInv /\ [Next]_vars => MailboxInv'
<1> SUFFICES ASSUME MailboxInv, [Next]_vars PROVE MailboxInv'
  OBVIOUS
<1>1. CASE UNCHANGED objectVars
  <2>1. UNCHANGED mailboxVars
    BY <1>1 DEF objectVars
  <2>2. QED
    BY <2>1, QuietKeeps
<1>2. CASE \E p \in Processes : \E try \in BOOLEAN : Put(p, try)
  BY <1>2, PutKeeps
<1>3. CASE \E p \in Processes : \E peek, try \in BOOLEAN : Get(p, peek, try)
  BY <1>3, GetKeeps
<1>4. ASSUME NEW p \in Processes, NEW n \in Requests,
             SemaphorePut(p, n) \/ \E try \in BOOLEAN : SemaphoreGet(p, n, try)
      PROVE  MailboxInv'
  <2>1. UNCHANGED mailboxVars
    BY <1>4 DEF SemaphorePut, SemaphoreGet
  <2>2. QED
    BY <2>1, QuietKeeps
<1>5. ASSUME NEW p \in Processes,
             EventWait(p) \/ Trigger(p) \/ TriggerNonblocking(p)
      PROVE  MailboxInv'
  <2>1. UNCHANGED mailboxVars
    BY <1>5 DEF EventWait, Trigger, TriggerNonblocking
  <2>2. QED
    BY <2>1, QuietKeeps
<1>6. CASE TriggerDeferred
  <2>1. UNCHANGED mailboxVars
    BY <1>6 DEF TriggerDeferred
  <2>2. QED
    BY <2>1, QuietKeeps
<1>7. CASE UNCHANGED vars
  <2>1. UNCHANGED objectVars
    BY <1>7 DEF vars
  <2>2. QED
    BY <1>1, <2>1
<1>8. QED
  BY <1>1, <1>2, <1>3, <1>4, <1>5, <1>6, <1>7 DEF Next

(* run_synchronization's mailbox is first-in first-out for every capacity  *)
(* and any number of processes that are killed and suspended meanwhile:    *)
(* each value is got once, waits in the order of the puts, or went with a  *)
(* killed writer, and nobody waits at a box that could serve them.         *)
THEOREM MailboxCorrect == Spec => []MailboxFair
<1>1. Init => MailboxInv
  BY InitGood
<1>2. MailboxInv /\ [Next]_vars => MailboxInv'
  BY NextKeeps
<1>3. MailboxInv => MailboxFair
  BY InvIsFair
<1>4. QED
  BY <1>1, <1>2, <1>3, PTL DEF Spec

=============================================================================
