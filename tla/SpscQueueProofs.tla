-------------------------- MODULE SpscQueueProofs ---------------------------
(***************************************************************************)
(* Proofs about SpscQueue with one producer, for every capacity and every  *)
(* counter width the constructor's test admits.                            *)
(***************************************************************************)
EXTENDS SpscQueue, SequenceTheorems, TLAPS

(* Division and remainder. *)
LEMMA DivMod ==
  ASSUME NEW a \in Int, NEW b \in Nat \ {0}
  PROVE  /\ a % b \in 0..b-1
         /\ a \div b \in Int
         /\ a = b * (a \div b) + (a % b)
  OBVIOUS

LEMMA Multiple ==
  ASSUME NEW b \in Nat \ {0}, NEW k \in Int, k >= 1
  PROVE  b * k >= b
  OBVIOUS

(* The remainder is the only number below b at a multiple's distance. *)
LEMMA ModUnique ==
  ASSUME NEW b \in Nat \ {0}, NEW a \in Int, NEW q \in Int, NEW r \in 0..b-1,
         a = b * q + r
  PROVE  a % b = r
<1> DEFINE p == a \div b
           s == a % b
<1>1. p \in Int /\ s \in 0..b-1 /\ a = b * p + s
  BY DivMod
<1> SUFFICES s = r
  OBVIOUS
<1> HIDE DEF p, s
<1>2. b * (q - p) = s - r /\ b * (p - q) = r - s
  BY <1>1
<1>3. CASE q - p >= 1
  BY <1>1, <1>2, <1>3, Multiple
<1>4. CASE p - q >= 1
  BY <1>1, <1>2, <1>4, Multiple
<1>5. CASE p = q
  BY <1>1, <1>5
<1> QED BY <1>1, <1>3, <1>4, <1>5

(* Numbers less than b apart have different remainders: items that are     *)
(* queued at the same time are in different slots.                         *)
LEMMA ModDistinct ==
  ASSUME NEW b \in Nat \ {0}, NEW a \in Int, NEW c \in Int, a < c, c - a < b
  PROVE  a % b # c % b
<1> SUFFICES ASSUME a % b = c % b PROVE FALSE
  OBVIOUS
<1> DEFINE p == a \div b
           q == c \div b
           s == a % b
<1>1. /\ p \in Int /\ q \in Int /\ s \in 0..b-1
      /\ a = b * p + s /\ c = b * q + s
  BY DivMod
<1> HIDE DEF p, q, s
<1>2. c - a = b * (q - p)
  BY <1>1
<1>3. CASE q - p >= 1
  BY <1>1, <1>2, <1>3, Multiple
<1>4. CASE p - q >= 1
  <2>1. a - c = b * (p - q)
    BY <1>1
  <2> QED BY <1>1, <1>4, <2>1, Multiple
<1>5. CASE p = q
  BY <1>1, <1>5
<1> QED BY <1>1, <1>3, <1>4, <1>5

(* Wrapping a counter does not change the slot it selects. *)
LEMMA ModMod ==
  ASSUME NEW b \in Nat \ {0}, NEW k \in Nat \ {0}, NEW a \in Int,
         NEW w \in Nat, w = b * k
  PROVE  (a % w) % b = a % b
<1> DEFINE d == a \div w
           m == a % w
           e == m \div b
           r == m % b
<1>1. w \in Nat \ {0}
  BY Multiple
<1>2. d \in Int /\ m \in 0..w-1 /\ a = w * d + m
  BY <1>1, DivMod, Zenon
<1> HIDE DEF d, m
<1>3. e \in Int /\ r \in 0..b-1 /\ m = b * e + r
  BY <1>2, DivMod
<1> HIDE DEF e, r
<1>4. a = b * (k * d + e) + r /\ k * d + e \in Int
  <2>1. k * d \in Int
    BY <1>2
  <2>2. (b * k) * d = b * (k * d)
    BY <1>2
  <2>3. b * (k * d + e) = b * (k * d) + b * e
    BY <1>3, <2>1
  <2> QED BY <1>2, <1>3, <2>1, <2>2, <2>3
<1>5. a % b = r
  BY <1>3, <1>4, ModUnique
<1> QED BY <1>5 DEF r, m

LEMMA ModShift ==
  ASSUME NEW b \in Nat \ {0}, NEW a \in Int, NEW k \in Int
  PROVE  (a + b * k) % b = a % b
<1> DEFINE q == a \div b
           r == a % b
<1>1. q \in Int /\ r \in 0..b-1 /\ a = b * q + r
  BY DivMod
<1> SUFFICES (a + b * k) % b = r
  OBVIOUS
<1> HIDE DEF q, r
<1>2. a + b * k = b * (q + k) + r /\ q + k \in Int /\ a + b * k \in Int
  BY <1>1
<1> QED BY <1>1, <1>2, ModUnique
-----------------------------------------------------------------------------
(* The counters.                                                           *)

LEMMA Widths ==
  /\ Capacity \in Nat \ {0} /\ Wrap \in Nat \ {0} /\ Capacity + 1 < Wrap
  /\ \E k \in Nat \ {0} : Wrap = Capacity * k
  BY CapacityDivides

LEMMA SlotType ==
  ASSUME NEW n \in Int
  PROVE  Slot(n) \in 0..Capacity-1
  BY Widths, DivMod DEF Slot

LEMMA SlotDistinct ==
  ASSUME NEW h \in Int, NEW i \in 0..Capacity-1, NEW k \in 0..Capacity-1, i # k
  PROVE  Slot(h + i) # Slot(h + k)
<1>1. CASE i < k
  BY <1>1, Widths, ModDistinct DEF Slot
<1>2. CASE k < i
  <2>1. h + k \in Int /\ h + i \in Int /\ h + k < h + i /\ (h + i) - (h + k) < Capacity
    BY <1>2, Widths
  <2>2. (h + k) % Capacity # (h + i) % Capacity
    BY <2>1, Widths, ModDistinct, Zenon
  <2> QED BY <2>2 DEF Slot
<1> QED BY <1>1, <1>2, Widths

LEMMA IncIs ==
  ASSUME NEW h \in Counters
  PROVE  Inc(h) = IF h = Wrap - 1 THEN 0 ELSE h + 1
<1>1. CASE h = Wrap - 1
  <2>1. h + 1 = Wrap * 1 + 0  BY <1>1, Widths
  <2> QED BY <1>1, <2>1, Widths, ModUnique DEF Inc
<1>2. CASE h # Wrap - 1
  <2>1. h + 1 = Wrap * 0 + (h + 1) /\ h + 1 \in 0..Wrap-1
    BY <1>2, Widths DEF Counters
  <2> QED BY <1>2, <2>1, Widths, ModUnique DEF Inc
<1> QED BY <1>1, <1>2

(* A counter that wraps keeps selecting consecutive slots. *)
LEMMA SlotInc ==
  ASSUME NEW h \in Counters, NEW i \in Int
  PROVE  Inc(h) \in Counters /\ Slot(Inc(h) + i) = Slot(h + (i + 1))
<1>1. PICK k \in Int : Wrap = Capacity * k
  BY Widths
<1>2. CASE h = Wrap - 1
  <2>1. Inc(h) = 0
    BY <1>2, IncIs
  <2>2. h + (i + 1) = i + Wrap
    BY <1>2, Widths
  <2>3. (i + Capacity * k) % Capacity = i % Capacity
    BY Widths, ModShift, Zenon
  <2>4. 0 + i = i
    OBVIOUS
  <2>5. (i + Wrap) % Capacity = i % Capacity
    BY <1>1, <2>3, Zenon
  <2>6. 0 \in Counters
    BY Widths DEF Counters
  <2> QED BY <2>1, <2>2, <2>4, <2>5, <2>6, Zenon DEF Slot
<1>3. CASE h # Wrap - 1
  <2>1. Inc(h) = h + 1
    BY <1>3, IncIs
  <2>2. (h + 1) + i = h + (i + 1) /\ h + 1 \in Counters
    BY <1>3, Widths DEF Counters
  <2> QED BY <2>1, <2>2
<1> QED BY <1>2, <1>3

(* The difference of the counters, exactly as the code's unsigned          *)
(* subtraction computes it.                                                *)
LEMMA Difference ==
  ASSUME NEW h \in Counters, NEW t \in Counters
  PROVE  /\ (t - h) % Wrap = IF t >= h THEN t - h ELSE (t - h) + Wrap
         /\ (t - h) % Wrap \in Counters
<1>1. CASE t >= h
  <2>1. t - h = Wrap * 0 + (t - h) /\ t - h \in 0..Wrap-1 /\ t - h \in Int
    BY <1>1, Widths DEF Counters
  <2>2. (t - h) % Wrap = t - h
    BY <2>1, Widths, ModUnique
  <2> QED BY <1>1, <2>1, <2>2 DEF Counters
<1>2. CASE t < h
  <2>1. /\ t - h = Wrap * (-1) + ((t - h) + Wrap)
        /\ (t - h) + Wrap \in 0..Wrap-1 /\ t - h \in Int
    BY <1>2, Widths DEF Counters
  <2>2. (t - h) % Wrap = (t - h) + Wrap
    BY <2>1, Widths, ModUnique
  <2>3. ~(t >= h)
    BY <1>2 DEF Counters
  <2> QED BY <2>1, <2>2, <2>3 DEF Counters
<1> QED BY <1>1, <1>2 DEF Counters

LEMMA CountFacts ==
  ASSUME NEW h \in Counters, NEW t \in Counters
  PROVE  /\ (t - h) % Wrap \in Counters
         /\ h = t <=> (t - h) % Wrap = 0
         /\ (t - h) % Wrap < Wrap - 1
              => (Inc(t) - h) % Wrap = ((t - h) % Wrap) + 1
         /\ h # t => (t - Inc(h)) % Wrap = ((t - h) % Wrap) - 1
<1> DEFINE it == Inc(t)
           ih == Inc(h)
           n == (t - h) % Wrap
           nt == (it - h) % Wrap
           nh == (t - ih) % Wrap
<1>1. /\ it \in Counters /\ it = IF t = Wrap - 1 THEN 0 ELSE t + 1
      /\ ih \in Counters /\ ih = IF h = Wrap - 1 THEN 0 ELSE h + 1
  BY IncIs, Widths DEF Counters
<1> HIDE DEF it, ih
<1>2. n = (IF t >= h THEN t - h ELSE (t - h) + Wrap) /\ n \in Counters
  BY Difference
<1>3. nt = IF it >= h THEN it - h ELSE (it - h) + Wrap
  BY <1>1, Difference
<1>4. nh = IF t >= ih THEN t - ih ELSE (t - ih) + Wrap
  BY <1>1, Difference
<1> HIDE DEF n, nt, nh
<1>5. h = t <=> n = 0
  BY <1>2, Widths DEF Counters
<1>6. n < Wrap - 1 => nt = n + 1
  BY <1>1, <1>2, <1>3, Widths DEF Counters
<1>7. h # t => nh = n - 1
  BY <1>1, <1>2, <1>4, Widths DEF Counters
<1> QED BY <1>2, <1>5, <1>6, <1>7 DEF n, nt, nh, it, ih

(* tail_ selects the slot after the last queued item. *)
LEMMA TailSlot ==
  ASSUME NEW h \in Counters, NEW t \in Counters
  PROVE  Slot(t) = Slot(h + ((t - h) % Wrap))
<1>1. PICK k \in Int : Wrap = Capacity * k
  BY Widths
<1>2. CASE t >= h
  <2>1. h + (t - h) = t
    BY DEF Counters
  <2> QED BY <1>2, <2>1, Difference
<1>3. CASE ~(t >= h)
  <2>1. (t - h) % Wrap = (t - h) + Wrap
    BY <1>3, Difference
  <2>2. h + ((t - h) + Wrap) = t + Wrap /\ t \in Int
    BY Widths DEF Counters
  <2>3. (t + Capacity * k) % Capacity = t % Capacity
    BY <2>2, Widths, ModShift, Zenon
  <2> QED BY <1>1, <2>1, <2>2, <2>3, Zenon DEF Slot
<1> QED BY <1>2, <1>3
-----------------------------------------------------------------------------
(* The inductive invariant.                                                *)

(* The class's contract. *)
OneProducer == \A p, q \in Producers : p = q

Publishing == \E p \in Producers : ppc[p] = "publish"

(* The i-th slot from head_ holds an item: one that is queued and has not  *)
(* just been moved out, or the one that is about to be published.          *)
Live(i) == \/ i < Count /\ ~(i = 0 /\ cpc = "advance")
           \/ i = Count /\ Publishing

SlotState == \A i \in 0..Capacity-1 : slots[Slot(head + i)] # Raw <=> Live(i)

(* What the position of a producer in push() says. *)
ProducerState ==
  \A p \in Producers :
    /\ ppc[p] # "idle" => ltail[p] = tail /\ item[p] \in Items
    /\ ppc[p] \in {"construct", "publish"} => Count < Capacity
    /\ ppc[p] = "publish" => slots[Slot(tail)] = item[p]

(* What the position of the consumer in pop() or ~SpscQueue() says. *)
ConsumerState ==
  /\ cpc \in {"take", "advance"} => head # tail
  /\ cpc = "advance" => item_out \in Items
  /\ cpc \in {"dtor", "gone"} => \A p \in Producers : ppc[p] = "idle"
  /\ cpc = "gone" => head = tail

IInv == /\ TypeOK
        /\ Count <= Capacity
        /\ SlotState
        /\ ProducerState
        /\ ConsumerState

(* Type correctness needs no other part of the invariant, and holds with   *)
(* any number of producers.                                                *)
LEMMA TypeStep == TypeOK /\ [Next]_vars => TypeOK'
<1> SUFFICES ASSUME TypeOK, [Next]_vars PROVE TypeOK'
  OBVIOUS
<1> USE DEF TypeOK, Goto
<1>i. \A n \in Counters : Inc(n) \in Counters
  BY IncIs, Widths DEF Counters
<1>s. \A n \in Counters : Slot(n) \in 0..Capacity-1
  BY SlotType DEF Counters
<1>1. ASSUME NEW p \in Producers, Push(p) PROVE TypeOK'
  <2>1. ASSUME NEW x \in Items, PushLoad(p, x) PROVE TypeOK'
    BY <2>1 DEF PushLoad
  <2>2. CASE PushCheck(p)      BY <2>2 DEF PushCheck
  <2>3. CASE PushConstruct(p)  BY <2>3, <1>s DEF PushConstruct
  <2>4. CASE PushPublish(p)    BY <2>4, <1>i DEF PushPublish
  <2> QED BY <1>1, <2>1, <2>2, <2>3, <2>4 DEF Push
<1>2. CASE Pop
  <2>1. CASE PopCompare  BY <2>1 DEF PopCompare
  <2>2. CASE PopTake     BY <2>2, <1>s DEF PopTake
  <2>3. CASE PopAdvance  BY <2>3, <1>i DEF PopAdvance
  <2> QED BY <1>2, <2>1, <2>2, <2>3 DEF Pop
<1>3. CASE Dtor
  <2>1. CASE DtorStart  BY <2>1 DEF DtorStart
  <2>2. CASE DtorStep   BY <2>2, <1>i, <1>s DEF DtorStep
  <2> QED BY <1>3, <2>1, <2>2 DEF Dtor
<1>4. CASE UNCHANGED vars  BY <1>4 DEF vars
<1> QED BY <1>1, <1>2, <1>3, <1>4 DEF Next

LEMMA InitType == Init => TypeOK
  BY Widths DEF Init, TypeOK, Counters

(* The counters, slots and locals of the queue keep their types. *)
THEOREM TypeCorrect == Spec => []TypeOK
  BY InitType, TypeStep, PTL DEF Spec

LEMMA InitInv == Init => IInv
<1> SUFFICES ASSUME Init PROVE IInv
  OBVIOUS
<1>1. TypeOK
  BY InitType
<1>2. Count = 0
  BY <1>1, CountFacts DEF Init, Count, TypeOK
<1>3. SlotState
  <2> SUFFICES ASSUME NEW i \in 0..Capacity-1
               PROVE  slots[Slot(head + i)] = Raw /\ ~Live(i)
    BY DEF SlotState
  <2>1. Slot(head + i) \in 0..Capacity-1
    BY <1>1, SlotType, Widths DEF TypeOK, Counters
  <2>2. slots[Slot(head + i)] = Raw
    BY <2>1 DEF Init
  <2>3. ~(i < 0) /\ ~Publishing
    BY Widths DEF Init, Publishing
  <2> QED BY <1>2, <2>2, <2>3 DEF Live
<1> QED BY <1>1, <1>2, <1>3, Widths DEF IInv, Init, ProducerState, ConsumerState

(* Facts about the state in which a step starts. *)
LEMMA StateFacts ==
  ASSUME TypeOK
  PROVE  /\ Count \in Counters /\ Count \in Nat
         /\ head = tail <=> Count = 0
         /\ Slot(head) = Slot(head + 0)
         /\ Slot(tail) = Slot(head + Count)
         /\ Slot(head) \in 0..Capacity-1 /\ Slot(tail) \in 0..Capacity-1
         /\ \A i \in 0..Capacity-1 : Slot(head + i) \in 0..Capacity-1
<1>1. head \in Counters /\ tail \in Counters
  BY DEF TypeOK
<1>2. Count \in Counters /\ (head = tail <=> Count = 0)
  BY <1>1, CountFacts DEF Count
<1>3. head \in Int /\ head = head + 0 /\ Count \in Nat
  BY <1>1, <1>2, Widths DEF Counters
<1>4. Slot(tail) = Slot(head + Count)
  BY <1>1, TailSlot DEF Count
<1>5. \A i \in 0..Capacity-1 : Slot(head + i) \in 0..Capacity-1
  BY <1>3, SlotType, Widths
<1>6. Slot(head) \in 0..Capacity-1 /\ Slot(tail) \in 0..Capacity-1
  BY <1>1, SlotType DEF Counters
<1> QED BY <1>2, <1>3, <1>4, <1>5, <1>6

(* The test of push() is exact: the queue is full when it says so. *)
LEMMA FullIs ==
  ASSUME TypeOK, Count <= Capacity
  PROVE  Full(tail) <=> Count = Capacity
<1> DEFINE n == (Inc(tail) - head) % Wrap
<1>1. Count \in Nat /\ Count < Wrap - 1
  BY StateFacts, Widths
<1>2. n = Count + 1
  BY <1>1, CountFacts DEF Count, TypeOK
<1> HIDE DEF n
<1>3. n > Capacity <=> Count = Capacity
  BY <1>1, <1>2, Widths
<1> QED BY <1>3 DEF Full, n

(* Writing the k-th slot from head_ leaves the others alone. *)
LEMMA SlotWrite ==
  ASSUME TypeOK, NEW k \in 0..Capacity-1, NEW v,
         slots' = [slots EXCEPT ![Slot(head + k)] = v]
  PROVE  \A i \in 0..Capacity-1 :
           slots'[Slot(head + i)] = IF i = k THEN v ELSE slots[Slot(head + i)]
<1> SUFFICES ASSUME NEW i \in 0..Capacity-1
             PROVE  slots'[Slot(head + i)] =
                      IF i = k THEN v ELSE slots[Slot(head + i)]
  OBVIOUS
<1>1. Slot(head + i) \in 0..Capacity-1 /\ DOMAIN slots = 0..Capacity-1
  BY StateFacts DEF TypeOK
<1>2. head \in Int
  BY DEF TypeOK, Counters
<1>3. i # k => Slot(head + i) # Slot(head + k)
  BY <1>2, SlotDistinct
<1> QED BY <1>1, <1>3, Zenon

(* Advancing head_ shifts the positions of the slots by one. *)
LEMMA SlotShift ==
  ASSUME TypeOK, NEW i \in Nat
  PROVE  Slot(Inc(head) + i) = Slot(head + (i + 1))
  BY SlotInc DEF TypeOK
-----------------------------------------------------------------------------
(* Each step preserves the invariant.                                      *)

LEMMA PushLoadInv ==
  ASSUME IInv, NEW p \in Producers, NEW x \in Items, PushLoad(p, x), TypeOK'
  PROVE  IInv'
<1>1. /\ UNCHANGED <<head, tail, slots, cpc, item_out>>
      /\ cpc \notin {"dtor", "gone"}
      /\ ppc[p] = "idle" /\ ppc' = [ppc EXCEPT ![p] = "check"]
      /\ ltail' = [ltail EXCEPT ![p] = tail]
      /\ item' = [item EXCEPT ![p] = x]
  BY DEF PushLoad, Goto
<1>2. Count' = Count /\ (Publishing' <=> Publishing)
  BY <1>1 DEF Count, Publishing, IInv, TypeOK
<1>3. SlotState'
  BY <1>1, <1>2 DEF SlotState, Live, IInv, Slot
<1>4. ProducerState'
  BY <1>1, <1>2 DEF ProducerState, IInv, TypeOK, Slot
<1>5. ConsumerState'
  BY <1>1 DEF ConsumerState, IInv
<1> QED BY <1>2, <1>3, <1>4, <1>5 DEF IInv

LEMMA PushCheckInv ==
  ASSUME IInv, NEW p \in Producers, PushCheck(p), TypeOK'
  PROVE  IInv'
<1>1. /\ UNCHANGED <<head, tail, slots, cpc, item_out, ltail>>
      /\ ppc[p] = "check"
      /\ \/ ~Full(ltail[p]) /\ ppc' = [ppc EXCEPT ![p] = "construct"] /\ item' = item
         \/ ppc' = [ppc EXCEPT ![p] = "idle"] /\ item' = [item EXCEPT ![p] = Raw]
  BY DEF PushCheck
<1>2. Count' = Count /\ (Publishing' <=> Publishing)
  BY <1>1 DEF Count, Publishing, IInv, TypeOK
<1>3. ~Full(ltail[p]) => Count < Capacity
  BY <1>1, FullIs, StateFacts, Widths DEF IInv, ProducerState
<1>4. SlotState'
  BY <1>1, <1>2 DEF SlotState, Live, IInv, Slot
<1>5. ProducerState'
  BY <1>1, <1>2, <1>3 DEF ProducerState, IInv, TypeOK, Slot
<1>6. ConsumerState'
  BY <1>1 DEF ConsumerState, IInv, TypeOK
<1> QED BY <1>2, <1>4, <1>5, <1>6 DEF IInv

(* The slot after the last item is raw, so nothing is overwritten. *)
LEMMA PushConstructInv ==
  ASSUME OneProducer, IInv, NEW p \in Producers, PushConstruct(p), TypeOK'
  PROVE  IInv'
<1>1. /\ UNCHANGED <<head, tail, ltail, item, cpc, item_out>>
      /\ ppc[p] = "construct" /\ ppc' = [ppc EXCEPT ![p] = "publish"]
      /\ slots' = [slots EXCEPT ![Slot(ltail[p])] = item[p]]
  BY DEF PushConstruct, Goto
<1>2. ltail[p] = tail /\ item[p] \in Items /\ Count \in 0..Capacity-1
  BY <1>1, StateFacts, Widths DEF IInv, ProducerState
<1>3. Count' = Count /\ ~Publishing /\ Publishing'
  BY <1>1 DEF Count, Publishing, OneProducer, IInv, TypeOK
<1>4. slots' = [slots EXCEPT ![Slot(head + Count)] = item[p]]
  BY <1>1, <1>2, StateFacts DEF IInv
<1>5. \A i \in 0..Capacity-1 :
        slots'[Slot(head + i)] = IF i = Count THEN item[p] ELSE slots[Slot(head + i)]
  BY <1>2, <1>4, SlotWrite DEF IInv
<1>6. SlotState'
  <2> SUFFICES ASSUME NEW i \in 0..Capacity-1
               PROVE  slots'[Slot(head + i)] # Raw <=> Live(i)'
    BY <1>1 DEF SlotState, Slot
  <2>1. CASE i = Count
    BY <1>2, <1>3, <1>5, <2>1, RawIsNoItem DEF Live
  <2>2. CASE i # Count
    <3>1. Live(i)' <=> Live(i)
      BY <1>1, <1>3, <2>2 DEF Live
    <3> QED BY <1>5, <2>2, <3>1 DEF IInv, SlotState
  <2> QED BY <2>1, <2>2
<1>7. slots'[Slot(tail)] = item[p]
  BY <1>1, <1>2, StateFacts DEF IInv, TypeOK
<1>8. ProducerState'
  <2> SUFFICES ASSUME NEW q \in Producers
               PROVE  /\ ltail'[q] = tail' /\ item'[q] \in Items
                      /\ Count' < Capacity
                      /\ slots'[Slot(tail)'] = item'[q]
    BY DEF ProducerState
  <2>1. q = p
    BY DEF OneProducer
  <2>2. Slot(tail)' = Slot(tail)
    BY <1>1 DEF Slot
  <2> QED BY <1>1, <1>2, <1>3, <1>7, <2>1, <2>2, Widths
<1>9. ConsumerState'
  BY <1>1 DEF ConsumerState, IInv, TypeOK
<1> QED BY <1>3, <1>6, <1>8, <1>9 DEF IInv

LEMMA PushPublishInv ==
  ASSUME OneProducer, IInv, NEW p \in Producers, PushPublish(p), TypeOK'
  PROVE  IInv'
<1>1. /\ UNCHANGED <<head, slots, ltail, cpc, item_out>>
      /\ ppc[p] = "publish" /\ ppc' = [ppc EXCEPT ![p] = "idle"]
      /\ tail' = Inc(ltail[p])
  BY DEF PushPublish, Goto
<1>2. ltail[p] = tail /\ Count \in 0..Capacity-1 /\ Count < Wrap - 1
  BY <1>1, StateFacts, Widths DEF IInv, ProducerState
<1>3. Count' = Count + 1
  BY <1>1, <1>2, CountFacts DEF Count, IInv, TypeOK
<1>4. Publishing /\ ~Publishing'
  BY <1>1 DEF Publishing, OneProducer, IInv, TypeOK
<1>5. SlotState'
  <2> SUFFICES ASSUME NEW i \in 0..Capacity-1
               PROVE  slots[Slot(head + i)] # Raw <=> Live(i)'
    BY <1>1 DEF SlotState, Slot
  <2>1. cpc = "advance" => Count # 0
    BY StateFacts DEF IInv, ConsumerState
  <2>2. Live(i)' <=> Live(i)
    BY <1>1, <1>2, <1>3, <1>4, <2>1, Widths DEF Live
  <2> QED BY <2>2 DEF IInv, SlotState
<1>6. ProducerState'
  BY <1>1 DEF ProducerState, OneProducer, IInv, TypeOK
<1>7. ConsumerState'
  <2>1. head' # tail'
    BY <1>2, <1>3, StateFacts, CountFacts DEF Count, TypeOK
  <2> QED BY <1>1, <2>1 DEF ConsumerState, IInv, TypeOK
<1> QED BY <1>2, <1>3, <1>5, <1>6, <1>7, Widths DEF IInv

LEMMA PopCompareInv ==
  ASSUME IInv, PopCompare, TypeOK'
  PROVE  IInv'
<1>1. /\ UNCHANGED <<head, tail, slots, ppc, ltail, item, item_out>>
      /\ cpc = "idle"
      /\ cpc' = cpc \/ (head # tail /\ cpc' = "take")
  BY DEF PopCompare
<1>2. Count' = Count /\ (Publishing' <=> Publishing)
  BY <1>1 DEF Count, Publishing
<1>3. SlotState'
  BY <1>1, <1>2 DEF SlotState, Live, IInv, Slot
<1>4. ProducerState'
  BY <1>1, <1>2 DEF ProducerState, IInv, Slot
<1>5. ConsumerState'
  BY <1>1 DEF ConsumerState, IInv
<1> QED BY <1>2, <1>3, <1>4, <1>5 DEF IInv

(* The oldest item is in its slot, and another slot is the producer's. *)
LEMMA PopTakeInv ==
  ASSUME IInv, PopTake, TypeOK'
  PROVE  IInv'
<1>1. /\ UNCHANGED <<head, tail, ppc, ltail, item>>
      /\ cpc = "take" /\ cpc' = "advance"
      /\ item_out' = slots[Slot(head)]
      /\ slots' = [slots EXCEPT ![Slot(head)] = Raw]
  BY DEF PopTake
<1>2. Count' = Count /\ (Publishing' <=> Publishing)
  BY <1>1 DEF Count, Publishing
<1>3. head # tail /\ Count \in Nat \ {0} /\ 0 \in 0..Capacity-1
  BY <1>1, StateFacts, Widths DEF IInv, ConsumerState
<1>4. \A i \in 0..Capacity-1 :
        slots'[Slot(head + i)] = IF i = 0 THEN Raw ELSE slots[Slot(head + i)]
  BY <1>1, <1>3, StateFacts, SlotWrite DEF IInv
<1>5. slots[Slot(head)] \in Items
  <2>1. Live(0)
    BY <1>1, <1>3 DEF Live
  <2>2. slots[Slot(head)] # Raw
    BY <1>3, <2>1, StateFacts DEF IInv, SlotState
  <2> QED BY <2>2, StateFacts DEF IInv, TypeOK
<1>6. SlotState'
  <2> SUFFICES ASSUME NEW i \in 0..Capacity-1
               PROVE  slots'[Slot(head + i)] # Raw <=> Live(i)'
    BY <1>1 DEF SlotState, Slot
  <2>1. CASE i = 0
    BY <1>1, <1>2, <1>3, <1>4, <2>1 DEF Live
  <2>2. CASE i # 0
    <3>1. Live(i)' <=> Live(i)
      BY <1>1, <1>2, <2>2 DEF Live
    <3> QED BY <1>4, <2>2, <3>1 DEF IInv, SlotState
  <2> QED BY <2>1, <2>2
<1>7. ProducerState'
  <2> SUFFICES ASSUME NEW p \in Producers, ppc[p] = "publish"
               PROVE  slots'[Slot(tail)] = item[p]
    BY <1>1, <1>2 DEF ProducerState, IInv, Slot
  <2>1. Count \in 0..Capacity-1 /\ slots[Slot(tail)] = item[p]
    BY <1>3, Widths DEF IInv, ProducerState
  <2> QED BY <1>3, <1>4, <2>1, StateFacts DEF IInv
<1>8. ConsumerState'
  BY <1>1, <1>3, <1>5 DEF ConsumerState, IInv
<1> QED BY <1>2, <1>6, <1>7, <1>8 DEF IInv

(* Advancing head_ over a slot that is raw makes it the free slot farthest *)
(* from head_.                                                             *)
LEMMA AdvanceSlots ==
  ASSUME IInv, head # tail, head' = Inc(head), tail' = tail, ppc' = ppc,
         slots'[Slot(head)] = Raw, cpc' # "advance",
         \A i \in 1..Capacity-1 : slots'[Slot(head + i)] = slots[Slot(head + i)]
  PROVE  SlotState' /\ Count' = Count - 1 /\ Count \in Nat \ {0}
<1>1. Count' = Count - 1 /\ Count \in Nat \ {0}
  BY CountFacts, StateFacts DEF Count, IInv, TypeOK
<1>2. Publishing' <=> Publishing
  BY DEF Publishing
<1> SUFFICES ASSUME NEW i \in 0..Capacity-1
             PROVE  slots'[Slot(Inc(head) + i)] # Raw <=> Live(i)'
  BY <1>1 DEF SlotState, Slot
<1>3. Slot(Inc(head) + i) = Slot(head + (i + 1))
  BY SlotShift, Widths DEF IInv
<1>4. CASE i + 1 \in 1..Capacity-1
  <2>1. Live(i)' <=> Live(i + 1)
    BY <1>1, <1>2, <1>4, Widths DEF Live
  <2>2. slots[Slot(head + (i + 1))] # Raw <=> Live(i + 1)
    BY <1>4, Widths DEF IInv, SlotState
  <2> QED BY <1>3, <1>4, <2>1, <2>2
<1>5. CASE i = Capacity - 1
  <2>1. Slot(head + (i + 1)) = Slot(head)
    <3>1. head + (i + 1) = head + Capacity * 1 /\ head \in Int /\ 1 \in Int
      BY <1>5, Widths DEF IInv, TypeOK, Counters
    <3>2. (head + Capacity * 1) % Capacity = head % Capacity
      BY <3>1, Widths, ModShift, Zenon
    <3> QED BY <3>1, <3>2 DEF Slot
  <2>2. Publishing => Count < Capacity
    BY DEF Publishing, IInv, ProducerState
  <2>3. ~Live(i)'
    BY <1>1, <1>2, <1>5, <2>2, Widths DEF Live, IInv
  <2> QED BY <1>3, <2>1, <2>3
<1> QED BY <1>4, <1>5, Widths

LEMMA PopAdvanceInv ==
  ASSUME IInv, PopAdvance, TypeOK'
  PROVE  IInv'
<1>1. /\ UNCHANGED <<tail, slots, ppc, ltail, item>>
      /\ cpc = "advance" /\ cpc' = "idle" /\ head' = Inc(head)
  BY DEF PopAdvance
<1>2. head # tail
  BY <1>1 DEF IInv, ConsumerState
<1>3. slots[Slot(head)] = Raw
  <2>1. 0 \in 0..Capacity-1 /\ Count # 0
    BY <1>2, StateFacts, Widths DEF IInv
  <2>2. ~Live(0)
    BY <1>1, <2>1 DEF Live
  <2> QED BY <2>1, <2>2, StateFacts DEF IInv, SlotState
<1>4. SlotState' /\ Count' = Count - 1 /\ Count \in Nat \ {0}
  BY <1>1, <1>2, <1>3, AdvanceSlots
<1>5. ProducerState'
  BY <1>1, <1>4, Widths DEF ProducerState, IInv, Slot
<1>6. ConsumerState'
  BY <1>1 DEF ConsumerState, IInv
<1> QED BY <1>4, <1>5, <1>6, Widths DEF IInv

LEMMA DtorInv ==
  ASSUME IInv, Dtor, TypeOK'
  PROVE  IInv'
<1>1. CASE DtorStart \/ (DtorStep /\ head = tail)
  <2>1. /\ UNCHANGED <<head, tail, slots, ppc, ltail, item>>
        /\ cpc \in {"idle", "dtor"} /\ cpc' \in {"dtor", "gone"}
        /\ cpc' = "gone" => head = tail
        /\ \A p \in Producers : ppc[p] = "idle"
    BY <1>1 DEF DtorStart, DtorStep, IInv, ConsumerState
  <2>2. Count' = Count /\ (Publishing' <=> Publishing)
    BY <2>1 DEF Count, Publishing
  <2>3. SlotState'
    BY <2>1, <2>2 DEF SlotState, Live, IInv, Slot
  <2>4. ProducerState' /\ ConsumerState'
    BY <2>1 DEF ProducerState, ConsumerState
  <2> QED BY <2>2, <2>3, <2>4 DEF IInv
<1>2. CASE DtorStep /\ head # tail
  <2>1. /\ UNCHANGED <<tail, ppc, ltail, item>>
        /\ cpc = "dtor" /\ cpc' = "dtor" /\ head' = Inc(head)
        /\ slots' = [slots EXCEPT ![Slot(head)] = Raw]
        /\ \A p \in Producers : ppc[p] = "idle"
    BY <1>2 DEF DtorStep, IInv, ConsumerState
  <2>2. /\ slots'[Slot(head)] = Raw
        /\ \A i \in 1..Capacity-1 : slots'[Slot(head + i)] = slots[Slot(head + i)]
    <3>1. \A i \in 0..Capacity-1 :
            slots'[Slot(head + i)] = IF i = 0 THEN Raw ELSE slots[Slot(head + i)]
      <4>1. 0 \in 0..Capacity-1 /\ Slot(head) = Slot(head + 0)
        BY StateFacts, Widths DEF IInv
      <4> QED BY <2>1, <4>1, SlotWrite DEF IInv
    <3> QED BY <3>1, StateFacts, Widths DEF IInv
  <2>3. SlotState' /\ Count' = Count - 1 /\ Count \in Nat \ {0}
    BY <1>2, <2>1, <2>2, AdvanceSlots
  <2>4. ProducerState' /\ ConsumerState'
    BY <2>1 DEF ProducerState, ConsumerState
  <2> QED BY <2>3, <2>4, Widths DEF IInv
<1> QED BY <1>1, <1>2 DEF Dtor

LEMMA InvStep == OneProducer /\ IInv /\ [Next]_vars => IInv'
<1> SUFFICES ASSUME OneProducer, IInv, [Next]_vars PROVE IInv'
  OBVIOUS
<1>1. TypeOK'
  BY TypeStep DEF IInv
<1>2. ASSUME NEW p \in Producers, Push(p) PROVE IInv'
  BY <1>1, <1>2, PushLoadInv, PushCheckInv, PushConstructInv, PushPublishInv
  DEF Push
<1>3. CASE Pop
  BY <1>1, <1>3, PopCompareInv, PopTakeInv, PopAdvanceInv DEF Pop
<1>4. CASE Dtor
  BY <1>1, <1>4, DtorInv
<1>5. CASE UNCHANGED vars
  BY <1>1, <1>5 DEF vars, IInv, SlotState, Live, Publishing, Count, Slot,
                    ProducerState, ConsumerState
<1> QED BY <1>2, <1>3, <1>4, <1>5 DEF Next

(* The invariant of a queue with one producer. *)
THEOREM Invariant == ASSUME OneProducer PROVE Spec => []IInv
  BY InitInv, InvStep, PTL DEF Spec

(* push() never constructs over an item and pop() never moves from raw     *)
(* memory, for every capacity and counter width, with one producer.        *)
THEOREM SlotsSafe == ASSUME OneProducer PROVE Spec => []SlotsUsedWell
<1>1. IInv => SlotsUsedWell
  <2> SUFFICES ASSUME IInv PROVE SlotsUsedWell
    OBVIOUS
  <2>1. ASSUME NEW p \in Producers, ppc[p] = "construct"
        PROVE  slots[Slot(ltail[p])] = Raw
    <3>1. ltail[p] = tail /\ Count \in 0..Capacity-1
      BY <2>1, StateFacts, Widths DEF IInv, ProducerState
    <3>2. ~Publishing
      BY <2>1 DEF Publishing, OneProducer
    <3>3. ~Live(Count)
      BY <3>1, <3>2 DEF Live
    <3> QED BY <3>1, <3>3, StateFacts DEF IInv, SlotState
  <2>2. ASSUME cpc = "take" \/ (cpc = "dtor" /\ head # tail)
        PROVE  slots[Slot(head)] # Raw
    <3>1. Count \in Nat \ {0} /\ 0 \in 0..Capacity-1 /\ cpc # "advance"
      BY <2>2, StateFacts, Widths DEF IInv, ConsumerState
    <3>2. Live(0)
      BY <3>1 DEF Live
    <3> QED BY <3>1, <3>2, StateFacts DEF IInv, SlotState
  <2> QED BY <2>1, <2>2 DEF SlotsUsedWell
<1> QED BY <1>1, Invariant, PTL

(* Every slot is at some distance from head_. *)
LEMMA SlotReached ==
  ASSUME NEW h \in Int, NEW j \in 0..Capacity-1
  PROVE  \E i \in 0..Capacity-1 : Slot(h + i) = j
<1> DEFINE q == (j - h) \div Capacity
           i == (j - h) % Capacity
<1>0. j - h \in Int
  BY Widths
<1>1. q \in Int /\ i \in 0..Capacity-1 /\ j - h = Capacity * q + i
  BY <1>0, Widths, DivMod, Zenon
<1> HIDE DEF q, i
<1>2. h + i = Capacity * (0 - q) + j /\ 0 - q \in Int /\ h + i \in Int
  <2>1. Capacity * (0 - q) = 0 - Capacity * q
    BY <1>1, Widths
  <2> QED BY <1>1, <2>1, Widths
<1>3. (h + i) % Capacity = j
  BY <1>2, Widths, ModUnique, Zenon
<1> QED BY <1>1, <1>3 DEF Slot

(* ~SpscQueue() leaves no item alive in the memory it frees. *)
THEOREM NoLeak == ASSUME OneProducer PROVE Spec => []NothingLeaks
<1>1. IInv => NothingLeaks
  <2> SUFFICES ASSUME IInv, cpc = "gone", NEW j \in 0..Capacity-1
               PROVE  slots[j] = Raw
    BY DEF NothingLeaks
  <2>1. head \in Int /\ Count = 0 /\ ~Publishing
    BY StateFacts DEF IInv, ConsumerState, Publishing, TypeOK, Counters
  <2>2. PICK i \in 0..Capacity-1 : Slot(head + i) = j
    BY <2>1, SlotReached
  <2>3. ~Live(i)
    BY <2>1, Widths DEF Live
  <2> QED BY <2>2, <2>3 DEF IInv, SlotState
<1> QED BY <1>1, Invariant, PTL
-----------------------------------------------------------------------------
(* The refinement.                                                         *)

ContentsList ==
  /\ Count \in Nat /\ Count <= Capacity
  /\ Contents \in Seq(Items) /\ Len(Contents) = Count
  /\ \A i \in 1..Count :
       Contents[i] = IF i = 1 /\ cpc = "advance" THEN item_out
                     ELSE slots[Slot(head + (i - 1))]

LEMMA ContentsType == IInv => ContentsList
<1> SUFFICES ASSUME IInv PROVE ContentsList
  OBVIOUS
<1>1. Count \in Nat /\ Count <= Capacity /\ head \in Int
  BY StateFacts DEF IInv, TypeOK, Counters
<1>2. ASSUME NEW i \in 1..Count
      PROVE  /\ Contents[i] = IF i = 1 /\ cpc = "advance" THEN item_out
                              ELSE slots[Slot(head + (i - 1))]
             /\ Contents[i] \in Items
  <2>1. i - 1 \in 0..Capacity-1 /\ head + i - 1 = head + (i - 1) /\ i - 1 < Count
    BY <1>1, Widths
  <2>2. Contents[i] = IF i = 1 /\ cpc = "advance" THEN item_out
                      ELSE slots[Slot(head + (i - 1))]
    BY <2>1 DEF Contents
  <2>3. CASE i = 1 /\ cpc = "advance"
    BY <2>2, <2>3 DEF IInv, ConsumerState
  <2>4. CASE ~(i = 1 /\ cpc = "advance")
    <3>1. Live(i - 1)
      BY <1>1, <2>1, <2>4 DEF Live
    <3>2. slots[Slot(head + (i - 1))] # Raw
      BY <2>1, <3>1 DEF IInv, SlotState
    <3>3. slots[Slot(head + (i - 1))] \in Items
      BY <2>1, <3>2, StateFacts DEF IInv, TypeOK
    <3> QED BY <2>2, <2>4, <3>3
  <2> QED BY <2>2, <2>3, <2>4
<1>3. Contents \in [1..Count -> Items]
  BY <1>2 DEF Contents
<1>4. Contents \in Seq(Items) /\ Len(Contents) = Count
  BY <1>1, <1>3
<1> QED BY <1>1, <1>2, <1>4 DEF ContentsList

LEMMA ContentsNext == IInv' => ContentsList'
  BY ContentsType, PTL

(* Two lists of the same length with the same items are equal. *)
LEMMA ContentsAre ==
  ASSUME IInv', NEW s \in Seq(Items), Len(s) = Count',
         \A i \in 1..Len(s) :
           s[i] = IF i = 1 /\ cpc' = "advance" THEN item_out'
                  ELSE slots'[Slot(head' + (i - 1))]
  PROVE  Contents' = s
  BY ContentsNext, SeqEqual DEF ContentsList, Slot

(* Steps that keep the counters and the queued slots keep Contents. *)
LEMMA ContentsSame ==
  ASSUME IInv, IInv', head' = head, tail' = tail,
         \A i \in 1..Count :
           (IF i = 1 /\ cpc' = "advance" THEN item_out' ELSE slots'[Slot(head + (i - 1))])
           = Contents[i]
  PROVE  Contents' = Contents
<1>1. Count' = Count
  BY DEF Count
<1> QED BY <1>1, ContentsType, ContentsAre DEF ContentsList

(* push() appends its argument when it stores tail_. *)
LEMMA PublishAppends ==
  ASSUME IInv, IInv', NEW p \in Producers, PushPublish(p)
  PROVE  /\ Contents' = Append(Contents, item[p])
         /\ Len(Contents) < Capacity /\ item[p] \in Items
<1>1. /\ UNCHANGED <<head, slots, cpc, item_out>>
      /\ ppc[p] = "publish" /\ tail' = Inc(ltail[p])
  BY DEF PushPublish, Goto
<1>2. /\ ltail[p] = tail /\ item[p] \in Items /\ Count \in 0..Capacity-1
      /\ Count < Wrap - 1 /\ slots[Slot(head + Count)] = item[p]
  BY <1>1, StateFacts, Widths DEF IInv, ProducerState
<1>3. Count' = Count + 1
  BY <1>1, <1>2, CountFacts DEF Count, IInv, TypeOK
<1>4. cpc = "advance" => Count # 0
  BY StateFacts DEF IInv, ConsumerState
<1> DEFINE s == Append(Contents, item[p])
<1>5. /\ s \in Seq(Items) /\ Len(s) = Count + 1 /\ Len(Contents) = Count
      /\ \A i \in 1..Count : s[i] = Contents[i]
      /\ s[Count + 1] = item[p]
  BY <1>2, ContentsType DEF ContentsList
<1> HIDE DEF s
<1>6. ASSUME NEW i \in 1..Len(s)
      PROVE  s[i] = IF i = 1 /\ cpc' = "advance" THEN item_out'
                    ELSE slots'[Slot(head' + (i - 1))]
  <2>1. CASE i \in 1..Count
    BY <1>1, <1>5, <2>1, ContentsType DEF ContentsList
  <2>2. CASE i = Count + 1
    <3>1. i - 1 = Count /\ ~(i = 1 /\ cpc = "advance")
      BY <1>2, <1>4, <2>2
    <3> QED BY <1>1, <1>2, <1>5, <2>2, <3>1
  <2> QED BY <1>2, <1>5, <2>1, <2>2
<1>7. Contents' = s
  BY <1>3, <1>5, <1>6, ContentsAre
<1> QED BY <1>2, <1>5, <1>7, Widths DEF s

(* Advancing head_ removes the oldest item. *)
LEMMA AdvanceRemoves ==
  ASSUME IInv, IInv', head # tail, head' = Inc(head), tail' = tail,
         cpc' # "advance",
         \A i \in 1..Capacity-1 : slots'[Slot(head + i)] = slots[Slot(head + i)]
  PROVE  /\ Contents # <<>> /\ Contents' = Tail(Contents)
         /\ cpc = "advance" => Head(Contents) = item_out
<1>1. Count \in Nat \ {0} /\ Count <= Capacity /\ Count' = Count - 1
  BY CountFacts, StateFacts DEF Count, IInv, TypeOK
<1>2. /\ Contents \in Seq(Items) /\ Len(Contents) = Count
      /\ \A i \in 1..Count :
           Contents[i] = IF i = 1 /\ cpc = "advance" THEN item_out
                         ELSE slots[Slot(head + (i - 1))]
  BY ContentsType DEF ContentsList
<1>3. Contents # <<>> /\ Head(Contents) = Contents[1]
  BY <1>1, <1>2, EmptySeq
<1> DEFINE s == Tail(Contents)
<1>4. /\ s \in Seq(Items) /\ Len(s) = Count - 1
      /\ \A i \in 1..Count-1 : s[i] = Contents[i + 1]
  BY <1>1, <1>2, <1>3, HeadTailProperties
<1> HIDE DEF s
<1>5. ASSUME NEW i \in 1..Len(s)
      PROVE  s[i] = slots'[Slot(head' + (i - 1))]
  <2>1. /\ i \in 1..Capacity-1 /\ i + 1 \in 1..Count /\ i + 1 # 1
        /\ (i + 1) - 1 = i /\ i - 1 \in Nat /\ (i - 1) + 1 = i
    BY <1>1, <1>4, Widths
  <2>2. Slot(Inc(head) + (i - 1)) = Slot(head + i)
    BY <2>1, SlotShift DEF IInv
  <2>3. s[i] = slots[Slot(head + i)]
    BY <1>1, <1>2, <1>4, <2>1
  <2> QED BY <2>1, <2>2, <2>3
<1>6. Contents' = s
  BY <1>1, <1>4, <1>5, ContentsAre
<1> QED BY <1>1, <1>2, <1>3, <1>6 DEF s

(* Every step is a step of the bounded FIFO queue or none at all. *)
LEMMA RefinementStep ==
  OneProducer /\ IInv /\ IInv' /\ [Next]_vars => [Fifo!Next]_(Fifo!vars)
<1> DEFINE Same == /\ Contents' = Contents /\ UNCHANGED <<accepted, received>>
                   /\ (cpc' \in {"dtor", "gone"}) = (cpc \in {"dtor", "gone"})
<1> SUFFICES ASSUME OneProducer, IInv, IInv', [Next]_vars
             PROVE  Fifo!Next \/ Same
  BY DEF Fifo!vars
<1> HIDE DEF Same
<1>c. /\ Count \in Nat /\ Count <= Capacity /\ Len(Contents) = Count
      /\ Contents \in Seq(Items)
      /\ \A i \in 1..Count :
           Contents[i] = IF i = 1 /\ cpc = "advance" THEN item_out
                         ELSE slots[Slot(head + (i - 1))]
  BY ContentsType DEF ContentsList
<1>0. ASSUME UNCHANGED <<head, tail, slots, item_out>>,
             cpc # "advance", cpc' # "advance"
      PROVE  Contents' = Contents
  BY <1>0, <1>c, ContentsSame
<1>00. ASSUME UNCHANGED <<head, tail, slots, item_out, cpc>>
       PROVE  Contents' = Contents
  BY <1>00, <1>c, ContentsSame
<1>1. ASSUME NEW p \in Producers, NEW x \in Items, PushLoad(p, x)
      PROVE  Same
  BY <1>1, <1>00 DEF PushLoad, Same
<1>2. ASSUME NEW p \in Producers, PushCheck(p)
      PROVE  Fifo!Next \/ Same
  <2>1. /\ Contents' = Contents /\ UNCHANGED <<received, cpc>>
        /\ ppc[p] = "check" /\ ltail[p] = tail
    BY <1>2, <1>00 DEF PushCheck, IInv, ProducerState
  <2>2. CASE ~Full(ltail[p])
    BY <1>2, <2>1, <2>2 DEF PushCheck, Same
  <2>3. CASE Full(ltail[p])
    <3>1. Len(Contents) = Capacity
      BY <2>1, <2>3, <1>c, FullIs DEF IInv
    <3>2. cpc \notin {"dtor", "gone"}
      BY <2>1 DEF IInv, ConsumerState
    <3>3. accepted' = [accepted EXCEPT ![p] = FALSE]
      BY <1>2, <2>3 DEF PushCheck
    <3>4. Fifo!Refuse(p)
      BY <2>1, <3>1, <3>2, <3>3 DEF Fifo!Refuse
    <3> QED BY <3>4 DEF Fifo!Next
  <2> QED BY <2>2, <2>3
<1>3. ASSUME NEW p \in Producers, PushConstruct(p)
      PROVE  Same
  <2>1. /\ UNCHANGED <<head, tail, accepted, cpc, item_out, received>>
        /\ slots' = [slots EXCEPT ![Slot(head + Count)] = item[p]]
        /\ Count \in 0..Capacity-1
    <3>1. /\ UNCHANGED <<head, tail, accepted, cpc, item_out, received>>
          /\ slots' = [slots EXCEPT ![Slot(ltail[p])] = item[p]]
          /\ ppc[p] = "construct"
      BY <1>3 DEF PushConstruct, Goto
    <3>2. ltail[p] = tail /\ Count \in 0..Capacity-1
      BY <3>1, StateFacts, Widths DEF IInv, ProducerState
    <3> QED BY <3>1, <3>2, StateFacts DEF IInv
  <2>2. \A i \in 0..Capacity-1 :
          slots'[Slot(head + i)] = IF i = Count THEN item[p] ELSE slots[Slot(head + i)]
    BY <2>1, SlotWrite DEF IInv
  <2>3. ASSUME NEW i \in 1..Count
        PROVE  slots'[Slot(head + (i - 1))] = slots[Slot(head + (i - 1))]
    <3>1. i - 1 \in 0..Capacity-1 /\ i - 1 # Count
      BY <2>1, Widths
    <3> QED BY <2>2, <3>1
  <2>4. Contents' = Contents
    BY <2>1, <2>3, <1>c, ContentsSame
  <2> QED BY <2>1, <2>4 DEF Same
<1>4. ASSUME NEW p \in Producers, PushPublish(p)
      PROVE  Fifo!Next
  <2>1. /\ Contents' = Append(Contents, item[p])
        /\ Len(Contents) < Capacity /\ item[p] \in Items
    BY <1>4, PublishAppends
  <2>2. /\ UNCHANGED <<cpc, received>>
        /\ accepted' = [accepted EXCEPT ![p] = TRUE]
        /\ cpc \notin {"dtor", "gone"}
    BY <1>4 DEF PushPublish, Goto, IInv, ConsumerState
  <2>3. Fifo!Push(p, item[p])
    BY <2>1, <2>2 DEF Fifo!Push
  <2> QED BY <2>1, <2>3 DEF Fifo!Next
<1>5. ASSUME PopCompare PROVE Fifo!Next \/ Same
  <2>1. /\ Contents' = Contents /\ UNCHANGED accepted
        /\ cpc \notin {"dtor", "gone"} /\ cpc' \notin {"dtor", "gone"}
    BY <1>5, <1>0 DEF PopCompare
  <2>2. CASE head = tail
    <3>1. Contents = <<>>
      BY <2>2, <1>c, StateFacts, EmptySeq DEF IInv
    <3>2. Fifo!FindEmpty
      BY <1>5, <2>1, <2>2, <3>1 DEF PopCompare, Fifo!FindEmpty
    <3> QED BY <3>2 DEF Fifo!Next
  <2>3. CASE head # tail
    BY <1>5, <2>1, <2>3 DEF PopCompare, Same
  <2> QED BY <2>2, <2>3
<1>6. ASSUME PopTake PROVE Same
  <2>1. /\ UNCHANGED <<head, tail, accepted, received>>
        /\ cpc = "take" /\ cpc' = "advance"
        /\ item_out' = slots[Slot(head + 0)]
        /\ slots' = [slots EXCEPT ![Slot(head + 0)] = Raw]
        /\ 0 \in 0..Capacity-1
    BY <1>6, StateFacts, Widths DEF PopTake, IInv
  <2>2. \A i \in 0..Capacity-1 :
          slots'[Slot(head + i)] = IF i = 0 THEN Raw ELSE slots[Slot(head + i)]
    BY <2>1, SlotWrite DEF IInv
  <2>3. ASSUME NEW i \in 1..Count
        PROVE  (IF i = 1 /\ cpc' = "advance" THEN item_out'
                ELSE slots'[Slot(head + (i - 1))]) = Contents[i]
    <3>1. CASE i = 1
      <4>1. i - 1 = 0
        BY <3>1
      <4> QED BY <2>1, <3>1, <4>1, <1>c
    <3>2. CASE i # 1
      <4>1. i - 1 \in 0..Capacity-1 /\ i - 1 # 0
        BY <3>2, <1>c, Widths
      <4> QED BY <2>2, <3>2, <4>1, <1>c
    <3> QED BY <3>1, <3>2
  <2>4. Contents' = Contents
    BY <2>1, <2>3, ContentsSame
  <2> QED BY <2>1, <2>4 DEF Same
<1>7. ASSUME PopAdvance PROVE Fifo!Next
  <2>1. /\ UNCHANGED <<tail, slots, accepted>>
        /\ cpc = "advance" /\ cpc' = "idle"
        /\ head' = Inc(head) /\ received' = item_out
        /\ head # tail
    BY <1>7 DEF PopAdvance, IInv, ConsumerState
  <2>2. /\ Contents # <<>> /\ Contents' = Tail(Contents)
        /\ Head(Contents) = item_out
    BY <2>1, AdvanceRemoves
  <2>3. Fifo!Pop
    BY <2>1, <2>2 DEF Fifo!Pop
  <2> QED BY <2>3 DEF Fifo!Next
<1>8. ASSUME DtorStart PROVE Fifo!Next
  <2>1. Contents' = Contents
    BY <1>8, <1>0 DEF DtorStart
  <2>2. Fifo!Close
    BY <1>8, <2>1 DEF DtorStart, Fifo!Close
  <2> QED BY <2>2 DEF Fifo!Next
<1>9. ASSUME DtorStep PROVE Fifo!Next \/ Same
  <2>1. CASE head = tail
    BY <1>9, <2>1, <1>0 DEF DtorStep, Same
  <2>2. CASE head # tail
    <3>1. /\ UNCHANGED <<tail, accepted, received, cpc>>
          /\ cpc = "dtor" /\ head' = Inc(head)
          /\ slots' = [slots EXCEPT ![Slot(head + 0)] = Raw]
          /\ 0 \in 0..Capacity-1
      BY <1>9, <2>2, StateFacts, Widths DEF DtorStep, IInv
    <3>2. \A i \in 1..Capacity-1 : slots'[Slot(head + i)] = slots[Slot(head + i)]
      <4>1. \A i \in 0..Capacity-1 :
              slots'[Slot(head + i)] = IF i = 0 THEN Raw ELSE slots[Slot(head + i)]
        BY <3>1, SlotWrite DEF IInv
      <4> QED BY <4>1, Widths
    <3>3. Contents # <<>> /\ Contents' = Tail(Contents)
      BY <2>2, <3>1, <3>2, AdvanceRemoves
    <3>4. Fifo!Discard
      BY <3>1, <3>3 DEF Fifo!Discard
    <3> QED BY <3>4 DEF Fifo!Next
  <2> QED BY <2>1, <2>2
<1>10. CASE UNCHANGED vars
  BY <1>10, <1>00 DEF vars, Same
<1> QED BY <1>1, <1>2, <1>3, <1>4, <1>5, <1>6, <1>7, <1>8, <1>9, <1>10
        DEF Next, Push, Pop, Dtor

(* With one producer the ring buffer is a bounded FIFO queue: no accepted  *)
(* item is lost, duplicated or reordered, push() is refused only when the  *)
(* queue is full and pop() fails only when it is empty, for every capacity *)
(* that divides the range of the counters.                                 *)
THEOREM Refinement == ASSUME OneProducer PROVE Spec => ImplementsBoundedFifo
<1>1. Init => Fifo!Init
  <2> SUFFICES ASSUME Init PROVE Fifo!Init
    OBVIOUS
  <2>1. Contents = <<>>
    <3>1. IInv
      BY InitInv
    <3>2. head = tail
      BY DEF Init
    <3> QED BY <3>1, <3>2, ContentsType, StateFacts, EmptySeq DEF IInv, ContentsList
  <2> QED BY <2>1 DEF Init, Fifo!Init
<1>2. IInv /\ IInv' /\ [Next]_vars => [Fifo!Next]_(Fifo!vars)
  BY RefinementStep
<1> QED BY <1>1, <1>2, Invariant, PTL DEF Spec, ImplementsBoundedFifo, Fifo!Spec

(* With one producer, a push() that returns true has queued its task. *)
THEOREM Accepted == ASSUME OneProducer PROVE Spec => AcceptedIsQueued
<1> DEFINE A == \A p \in Producers : ppc[p] = "publish" /\ ppc'[p] = "idle"
                   => Contents' = Append(Contents, item[p])
<1>1. IInv /\ IInv' /\ [Next]_vars => [A]_vars
  <2> SUFFICES ASSUME IInv, IInv', Next, NEW p \in Producers,
                      ppc[p] = "publish", ppc'[p] = "idle"
               PROVE  Contents' = Append(Contents, item[p])
    OBVIOUS
  <2>1. ASSUME NEW q \in Producers, Push(q) PROVE PushPublish(p)
    <3>1. q = p
      BY DEF OneProducer
    <3> QED BY <2>1, <3>1 DEF Push, PushLoad, PushCheck, PushConstruct, Goto
  <2>2. ASSUME Pop \/ Dtor PROVE FALSE
    BY <2>2 DEF Pop, Dtor, PopCompare, PopTake, PopAdvance, DtorStart, DtorStep
  <2> QED BY <2>1, <2>2, PublishAppends DEF Next
<1> QED BY <1>1, Invariant, PTL DEF Spec, AcceptedIsQueued
=============================================================================
