-------------------------- MODULE TimeWheelProofs ---------------------------
(***************************************************************************)
(* Proofs about TimeWheel, for levels of any sizes, any finite set of      *)
(* timers, any delays, and rounds of any bounded length.                   *)
(***************************************************************************)
EXTENDS TimeWheel, FiniteSetTheorems, WellFoundedInduction, TLAPS

(* Division and remainder. *)
LEMMA DivMod ==
  ASSUME NEW a \in Nat, NEW b \in Nat \ {0}
  PROVE  /\ a % b \in 0..b-1
         /\ a \div b \in Nat
         /\ a = b * (a \div b) + (a % b)
  OBVIOUS

LEMMA Multiple ==
  ASSUME NEW b \in Nat \ {0}, NEW k \in Int, k >= 1
  PROVE  b * k >= b
  OBVIOUS

LEMMA DivModUnique ==
  ASSUME NEW b \in Nat \ {0}, NEW a \in Nat, NEW q \in Int, NEW r \in 0..b-1,
         a = b * q + r
  PROVE  a % b = r /\ a \div b = q
<1> DEFINE p == a \div b
           s == a % b
<1>1. p \in Int /\ s \in 0..b-1 /\ a = b * p + s
  BY DivMod
<1> SUFFICES s = r /\ p = q
  OBVIOUS
<1> HIDE DEF p, s
<1>2. b * (q - p) = s - r /\ b * (p - q) = r - s
  BY <1>1
<1>3. CASE q - p >= 1
  BY <1>1, <1>2, <1>3, Multiple
<1>4. CASE p - q >= 1
  BY <1>1, <1>2, <1>4, Multiple
<1>5. CASE p = q
  BY <1>1, <1>5
<1> QED BY <1>1, <1>3, <1>4, <1>5

(* Ticks of one slot that are less than a turn apart are the same. *)
LEMMA SameSlot ==
  ASSUME NEW b \in Nat \ {0}, NEW a \in Nat, NEW c \in Nat,
         c <= a, a < c + b, a % b = c % b
  PROVE  a = c
<1> DEFINE p == a \div b
           q == c \div b
           s == a % b
<1>1. /\ p \in Int /\ q \in Int /\ s \in 0..b-1
      /\ a = b * p + s /\ c = b * q + s
  BY DivMod
<1> HIDE DEF p, q, s
<1>2. a - c = b * (p - q)
  BY <1>1
<1>3. CASE p - q >= 1
  BY <1>2, <1>3, <1>1, Multiple
<1>4. CASE q - p >= 1
  <2>1. b * (q - p) >= b
    BY <1>1, <1>4, Multiple
  <2>2. c - a = b * (q - p)
    BY <1>1
  <2> QED BY <2>1, <2>2
<1>5. CASE p = q
  BY <1>1, <1>5
<1> QED BY <1>1, <1>3, <1>4, <1>5

(* A product of naturals that are not zero. *)
LEMMA ProductPos ==
  ASSUME NEW a \in Nat \ {0}, NEW b \in Nat \ {0}
  PROVE  a * b \in Nat \ {0}
<1>1. a * b >= b
  BY Multiple
<1> QED BY <1>1

(* A set of naturals has a least element. *)
LEMMA MinOfNats ==
  ASSUME NEW S, S \subseteq Nat, S # {}
  PROVE  Min(S) \in S /\ \A y \in S : Min(S) <= y
<1> DEFINE Less == {ss \in Nat \X Nat : ss[1] < ss[2]}
<1>1. PICK x \in S : \A y \in S : <<y, x>> \notin Less
  BY NatLessThanWellFounded, WFMin DEF OpToRel
<1>2. \A y \in S : x <= y
  <2> SUFFICES ASSUME NEW y \in S PROVE x <= y
    OBVIOUS
  <2>1. x \in Nat /\ y \in Nat
    OBVIOUS
  <2>2. ~(y < x)
    BY <1>1, <2>1
  <2> QED BY <2>1, <2>2
<1> QED BY <1>1, <1>2 DEF Min
-----------------------------------------------------------------------------
(* The levels                                                              *)

LEMMA SpanType == \A k \in 1..4 : Span(k) \in Nat \ {0}
<1> DEFINE R == TVR_SIZE
           N == TVN_SIZE
<1>1. R \in Nat \ {0} /\ N \in Nat \ {0}
  BY Sizes
<1>2. R * N \in Nat \ {0}
  BY <1>1, ProductPos
<1>3. R * N * N \in Nat \ {0}
  BY <1>1, <1>2, ProductPos
<1>4. R * N * N * N \in Nat \ {0}
  BY <1>1, <1>3, ProductPos
<1>5. Span(1) = R /\ Span(2) = R * N /\ Span(3) = R * N * N /\ Span(4) = R * N * N * N
  BY DEF Span
<1> QED BY <1>1, <1>2, <1>3, <1>4, <1>5

(* A turn of a level is TVN_SIZE turns of the level below. *)
LEMMA SpanUp == /\ Span(1) = TVR_SIZE
                /\ \A k \in 1..3 : Span(k+1) = Span(k) * TVN_SIZE
<1>1. /\ Span(1) = TVR_SIZE
      /\ Span(2) = TVR_SIZE * TVN_SIZE
      /\ Span(3) = TVR_SIZE * TVN_SIZE * TVN_SIZE
      /\ Span(4) = TVR_SIZE * TVN_SIZE * TVN_SIZE * TVN_SIZE
  BY DEF Span
<1>2. \A k \in 1..3 : k = 1 \/ k = 2 \/ k = 3
  OBVIOUS
<1> QED BY <1>1, <1>2

LEMMA LevelOfIs ==
  ASSUME NEW d \in Nat
  PROVE  /\ LevelOf(d) \in 1..5
         /\ LevelOf(d) < 5 => d < Span(LevelOf(d))
         /\ \A j \in 1..LevelOf(d)-1 : d >= Span(j)
<1> DEFINE P(k) == /\ k < 5 => d < Span(k)
                   /\ \A j \in 1..k-1 : d >= Span(j)
<1>1. LevelOf(d) = CHOOSE k \in 1..5 : P(k)
  BY DEF LevelOf
<1>2. \E k \in 1..5 : P(k)
  <2>0. \A k \in 1..4 : Span(k) \in Int
    BY SpanType
  <2>1. CASE d < Span(1)
    BY <2>1
  <2>2. CASE d >= Span(1) /\ d < Span(2)
    BY <2>2
  <2>3. CASE d >= Span(1) /\ d >= Span(2) /\ d < Span(3)
    <3>1. P(3)
      BY <2>3
    <3> QED BY <3>1
  <2>4. CASE d >= Span(1) /\ d >= Span(2) /\ d >= Span(3) /\ d < Span(4)
    <3>1. \A j \in 1..3 : j = 1 \/ j = 2 \/ j = 3
      OBVIOUS
    <3>2. P(4)
      BY <2>4, <3>1
    <3> QED BY <3>2
  <2>5. CASE d >= Span(1) /\ d >= Span(2) /\ d >= Span(3) /\ d >= Span(4)
    <3>1. \A j \in 1..4 : j = 1 \/ j = 2 \/ j = 3 \/ j = 4
      OBVIOUS
    <3>2. P(5)
      BY <2>5, <3>1
    <3> QED BY <3>2
  <2> QED BY <2>0, <2>1, <2>2, <2>3, <2>4, <2>5
<1>3. LevelOf(d) \in 1..5 /\ P(LevelOf(d))
  <2> HIDE DEF P
  <2> QED BY <1>1, <1>2
<1> QED BY <1>3

LEMMA SlotType ==
  ASSUME NEW k \in 1..5, NEW e \in Nat
  PROVE  <<k, SlotOf(k, e)>> \in Places
<1>1. CASE k = 1
  BY <1>1, DivMod, Sizes DEF SlotOf, Places
<1>2. CASE k \in 2..5
  <2>1. Span(k-1) \in Nat \ {0}
    BY <1>2, SpanType
  <2>2. e \div Span(k-1) \in Nat
    BY <2>1, DivMod
  <2> HIDE DEF Span
  <2>3. (e \div Span(k-1)) % TVN_SIZE \in 0..TVN_SIZE-1
    BY <2>2, DivMod, Sizes
  <2> QED BY <1>2, <2>3 DEF SlotOf, Places
<1> QED BY <1>1, <1>2

(* The tick at which the slot of a timer at level k is cascaded. *)
CascadeAt(k, e) == (e \div Span(k - 1)) * Span(k - 1)

LEMMA CascadeAtIs ==
  ASSUME NEW k \in 2..5, NEW e \in Nat
  PROVE  /\ CascadeAt(k, e) \in Nat
         /\ CascadeAt(k, e) <= e
         /\ e < CascadeAt(k, e) + Span(k - 1)
         /\ Span(k - 1) \in Nat \ {0}
<1> DEFINE w == Span(k - 1)
           q == e \div w
           r == e % w
<1>1. w \in Nat \ {0}
  BY SpanType
<1> HIDE DEF w
<1>2. q \in Nat /\ r \in 0..w-1 /\ e = w * q + r
  BY <1>1, DivMod
<1>3. CascadeAt(k, e) = q * w
  BY DEF CascadeAt, w
<1> HIDE DEF q, r
<1>4. q * w \in Nat /\ q * w = w * q
  BY <1>1, <1>2
<1> QED BY <1>1, <1>2, <1>3, <1>4 DEF w

LEMMA SpanDivides ==
  ASSUME NEW i \in 1..4, NEW k \in 1..4, i <= k
  PROVE  /\ \E c \in Nat : Span(k) = Span(i) * c
         /\ i < k => \E c \in Nat : Span(k) = Span(i) * (TVN_SIZE * c)
<1> DEFINE N == TVN_SIZE
<1>1. N \in Nat /\ Span(1) \in Nat /\ Span(2) \in Nat /\ Span(3) \in Nat
  BY Sizes, SpanType
<1>2. /\ Span(2) = Span(1) * (N * 1)
      /\ Span(3) = Span(2) * (N * 1)
      /\ Span(4) = Span(3) * (N * 1)
  BY <1>1, SpanUp
<1>3. Span(3) = Span(1) * (N * N) /\ Span(4) = Span(2) * (N * N)
  BY <1>1, <1>2
<1>4. Span(4) = Span(1) * (N * (N * N))
  BY <1>1, <1>2, <1>3
<1>5. Span(i) = Span(i) * 1
  BY SpanType
<1>6. N * 1 \in Nat /\ N * N \in Nat /\ N * (N * N) \in Nat
  BY <1>1
<1>7. i < k => \E c \in Nat : Span(k) = Span(i) * (N * c)
  <2>1. CASE i = 1 /\ k = 2
    BY <1>2, <2>1
  <2>2. CASE i = 1 /\ k = 3
    BY <1>1, <1>3, <2>2
  <2>3. CASE i = 1 /\ k = 4
    BY <1>4, <1>6, <2>3
  <2>4. CASE i = 2 /\ k = 3
    BY <1>2, <2>4
  <2>5. CASE i = 2 /\ k = 4
    BY <1>1, <1>3, <2>5
  <2>6. CASE i = 3 /\ k = 4
    BY <1>2, <2>6
  <2> QED BY <2>1, <2>2, <2>3, <2>4, <2>5, <2>6
<1>8. i < k => \E c \in Nat : Span(k) = Span(i) * c
  <2> SUFFICES ASSUME i < k PROVE \E c \in Nat : Span(k) = Span(i) * c
    OBVIOUS
  <2>1. PICK c \in Nat : Span(k) = Span(i) * (N * c)
    BY <1>7
  <2>2. N * c \in Nat
    BY <1>1
  <2> QED BY <2>1, <2>2
<1> QED BY <1>5, <1>7, <1>8

(* What is at level k is cascaded in time: its slot is that of the tick,   *)
(* and all the levels below have gone round.                               *)
LEMMA CascadeDue ==
  ASSUME NEW k \in 2..5, NEW e \in Nat, NEW n \in Nat, n = CascadeAt(k, e), n > 0
  PROVE  k \in Cascaded(n) /\ SlotOf(k, n) = SlotOf(k, e)
<1> DEFINE w == Span(k - 1)
           q == e \div w
<1>1. w \in Nat \ {0} /\ k - 1 \in 1..4
  BY SpanType
<1>2. q \in Nat
  BY <1>1, DivMod
<1>3. n = w * q + 0
  BY <1>1, <1>2 DEF CascadeAt
<1>4. n \div w = q
  <2>1. 0 \in 0..w-1
    BY <1>1
  <2> HIDE DEF w, q
  <2> QED BY <1>1, <1>2, <1>3, <2>1, DivModUnique
<1>5. SlotOf(k, n) = SlotOf(k, e)
  BY <1>4 DEF SlotOf
<1>6. n % TVR_SIZE = 0
  <2>1. PICK c \in Nat : w = Span(1) * c
    BY <1>1, SpanDivides
  <2> HIDE DEF w, q
  <2>2. c * q \in Nat /\ n = TVR_SIZE * (c * q) + 0
    BY <1>1, <1>2, <1>3, <2>1, SpanUp, Sizes
  <2>3. 0 \in 0..TVR_SIZE-1 /\ TVR_SIZE \in Nat \ {0}
    BY Sizes
  <2> QED BY <2>2, <2>3, DivModUnique
<1>7. ASSUME NEW j \in 2..k-1 PROVE SlotOf(j, n) = 0
  <2> DEFINE v == Span(j - 1)
             N == TVN_SIZE
  <2>1. v \in Nat \ {0} /\ N \in Nat \ {0}
    BY SpanType, Sizes
  <2>2. PICK c \in Nat : w = v * (N * c)
    <3>1. j - 1 \in 1..4 /\ k - 1 \in 1..4 /\ j - 1 < k - 1 /\ j - 1 <= k - 1
      OBVIOUS
    <3>2. \A i, m \in 1..4 : i < m => \E c \in Nat : Span(m) = Span(i) * (N * c)
      BY SpanDivides
    <3> QED BY <3>1, <3>2
  <2>3. SlotOf(j, n) = (n \div v) % N
    BY DEF SlotOf
  <2> HIDE DEF w, q, v, N
  <2>4. c * q \in Nat /\ N * (c * q) \in Nat
    BY <1>2, <2>1
  <2>5. n = v * (N * (c * q)) + 0
    BY <1>1, <1>2, <1>3, <2>1, <2>2
  <2>6. n \div v = N * (c * q)
    <3>1. 0 \in 0..v-1
      BY <2>1
    <3> QED BY <2>1, <2>4, <2>5, <3>1, DivModUnique
  <2>7. (N * (c * q)) % N = 0
    <3>1. 0 \in 0..N-1
      BY <2>1
    <3>2. N * (c * q) = N * (c * q) + 0
      BY <2>4
    <3> HIDE DEF N
    <3> QED BY <2>1, <2>4, <3>1, <3>2, DivModUnique
  <2> QED BY <2>3, <2>6, <2>7
<1> QED BY <1>5, <1>6, <1>7 DEF Cascaded
-----------------------------------------------------------------------------
(* The inductive invariant                                                 *)

(* A timer that expires at e may be in slot p when tick n is the next:     *)
(* level 1 holds what expires within its turn, and a slot above is         *)
(* cascaded, at n or later, before any of its timers is due.               *)
MayBeAt(p, e, n) ==
  /\ e \in Nat /\ e >= n
  /\ \E k \in 1..5 : /\ p = <<k, SlotOf(k, e)>>
                     /\ k = 1 => e < n + TVR_SIZE
                     /\ k > 1 => CascadeAt(k, e) >= n /\ CascadeAt(k, e) > 0

(* The same when tick n has been cascaded already. *)
MayStayAt(p, e, n) ==
  /\ e \in Nat /\ e >= n
  /\ \E k \in 1..5 : /\ p = <<k, SlotOf(k, e)>>
                     /\ k = 1 => e < n + TVR_SIZE
                     /\ k > 1 => CascadeAt(k, e) > n

Wheel ==
  \A t \in Timers :
    IF place[t] = Nowhere THEN expires_at[t] = Never
    ELSE /\ MayBeAt(place[t], expires_at[t], current_tick)
         /\ expires_at[t] >= last_tick

(* The wheel does not run ahead of the clock, and has caught up with the   *)
(* start of the round while the tasks run.                                 *)
Clock ==
  /\ current_tick <= now /\ last_tick <= now
  /\ phase = "tasks" => current_tick <= last_tick /\ now <= last_tick + MaxBusy

(* active_timers_ only errs upwards. *)
Counted == Cardinality(Pending) <= active

IInv == TypeOK /\ Wheel /\ Clock /\ Counted /\ OverdueLessThanTurn
-----------------------------------------------------------------------------
LEMMA PendingFinite == IsFiniteSet(Pending) /\ Cardinality(Pending) \in Nat
<1>1. Pending \subseteq Timers
  BY DEF Pending
<1> QED BY <1>1, Sizes, FS_Subset, FS_CardinalityType

(* add_timer() finds a right place for what is not in the past. *)
LEMMA PlaceOfIs ==
  ASSUME NEW e \in Nat, current_tick \in Nat, e >= current_tick
  PROVE  /\ PlaceOf(e) \in Places
         /\ MayStayAt(PlaceOf(e), e, current_tick)
<1> DEFINE d == e - current_tick
           k == LevelOf(d)
<1>1. d \in Nat
  OBVIOUS
<1>2. /\ k \in 1..5
      /\ k < 5 => d < Span(k)
      /\ \A j \in 1..k-1 : d >= Span(j)
  BY <1>1, LevelOfIs
<1>3. PlaceOf(e) = <<k, SlotOf(k, e)>>
  BY DEF PlaceOf
<1> HIDE DEF k
<1>4. k = 1 => e < current_tick + TVR_SIZE
  <2>1. k = 1 => d < TVR_SIZE
    BY <1>2, SpanUp
  <2> QED BY <2>1, Sizes
<1>5. k > 1 => CascadeAt(k, e) > current_tick
  <2> SUFFICES ASSUME k > 1 PROVE CascadeAt(k, e) > current_tick
    OBVIOUS
  <2>1. k \in 2..5 /\ d >= Span(k - 1)
    BY <1>2
  <2>2. CascadeAt(k, e) \in Nat /\ e < CascadeAt(k, e) + Span(k - 1) /\ Span(k - 1) \in Nat
    BY <2>1, CascadeAtIs
  <2> QED BY <2>1, <2>2
<1>6. PlaceOf(e) \in Places
  BY <1>2, <1>3, SlotType
<1> QED BY <1>2, <1>3, <1>4, <1>5, <1>6 DEF MayStayAt

LEMMA StayIsAt ==
  ASSUME NEW p, NEW e, NEW n \in Nat, MayStayAt(p, e, n)
  PROVE  /\ MayBeAt(p, e, n)
         /\ e > n => MayBeAt(p, e, n + 1)
         /\ p \in Places
<1>1. PICK k \in 1..5 : /\ p = <<k, SlotOf(k, e)>>
                        /\ k = 1 => e < n + TVR_SIZE
                        /\ k > 1 => CascadeAt(k, e) > n
  BY DEF MayStayAt
<1>2. e \in Nat /\ e >= n
  BY DEF MayStayAt
<1>3. k > 1 => CascadeAt(k, e) \in Nat
  <2>1. k > 1 => k \in 2..5
    OBVIOUS
  <2> QED BY <1>2, <2>1, CascadeAtIs
<1>4. p \in Places
  BY <1>1, <1>2, SlotType
<1> QED BY <1>1, <1>2, <1>3, <1>4, Sizes DEF MayBeAt
-----------------------------------------------------------------------------
(* cascade() at tick n leaves no pending timer in a slot above level 1     *)
(* whose time has come, and the slot of level 1 that is fired then holds   *)
(* exactly the timers that expire at n.                                    *)
LEMMA AfterCascade ==
  ASSUME IInv, NEW t \in Timers, place[t] # Nowhere
  PROVE  /\ MayStayAt(PlaceAfterCascade(t), expires_at[t], current_tick)
         /\ t \in Expired <=> expires_at[t] = current_tick
<1> DEFINE e == expires_at[t]
           n == current_tick
           p == PlaceAfterCascade(t)
<1>1. MayBeAt(place[t], e, n) /\ n \in Nat
  BY DEF IInv, Wheel, TypeOK
<1>2. e \in Nat /\ e >= n
  BY <1>1 DEF MayBeAt
<1>3. MayStayAt(p, e, n)
  <2>1. CASE t \in CascadedTimers
    BY <1>1, <1>2, <2>1, PlaceOfIs DEF PlaceAfterCascade
  <2>2. CASE t \notin CascadedTimers
    <3>1. PICK k \in 1..5 : /\ place[t] = <<k, SlotOf(k, e)>>
                            /\ k = 1 => e < n + TVR_SIZE
                            /\ k > 1 => CascadeAt(k, e) >= n /\ CascadeAt(k, e) > 0
      BY <1>1 DEF MayBeAt
    <3>2. k > 1 => CascadeAt(k, e) > n
      <4> SUFFICES ASSUME k > 1, ~(CascadeAt(k, e) > n) PROVE FALSE
        OBVIOUS
      <4>1. k \in 2..5
        OBVIOUS
      <4>2. CascadeAt(k, e) \in Nat
        BY <1>2, <4>1, CascadeAtIs
      <4>3. n = CascadeAt(k, e) /\ n > 0
        BY <1>1, <3>1, <4>2
      <4>4. k \in Cascaded(n) /\ SlotOf(k, n) = SlotOf(k, e)
        BY <1>1, <1>2, <4>1, <4>3, CascadeDue
      <4>5. t \in InSlot(k, SlotOf(k, n))
        BY <3>1, <4>4 DEF InSlot
      <4> QED BY <2>2, <4>4, <4>5 DEF CascadedTimers
    <3> QED BY <1>2, <2>2, <3>1, <3>2 DEF MayStayAt, PlaceAfterCascade
  <2> QED BY <2>1, <2>2
<1>4. PICK k \in 1..5 : /\ p = <<k, SlotOf(k, e)>>
                        /\ k = 1 => e < n + TVR_SIZE
                        /\ k > 1 => CascadeAt(k, e) > n
  BY <1>3 DEF MayStayAt
<1>5. t \in Expired <=> p = <<1, SlotOf(1, n)>>
  BY DEF Expired
<1> HIDE DEF e, n, p
<1>6. ASSUME e = n PROVE p = <<1, SlotOf(1, n)>>
  <2>1. k = 1
    <3> SUFFICES ASSUME k \in 2..5 PROVE FALSE
      OBVIOUS
    <3>1. CascadeAt(k, e) \in Nat /\ CascadeAt(k, e) <= e
      BY <1>2, CascadeAtIs
    <3> QED BY <1>1, <1>4, <1>6, <3>1
  <2> QED BY <1>4, <1>6, <2>1
<1>7. ASSUME p = <<1, SlotOf(1, n)>> PROVE e = n
  <2>1. k = 1 /\ SlotOf(1, e) = SlotOf(1, n)
    BY <1>4, <1>7
  <2>2. e % TVR_SIZE = n % TVR_SIZE /\ e < n + TVR_SIZE
    BY <1>4, <2>1 DEF SlotOf
  <2> QED BY <1>1, <1>2, <2>2, SameSlot, Sizes
<1> QED BY <1>3, <1>5, <1>6, <1>7 DEF e, n, p

(* What is not in the wheel is neither cascaded nor fired. *)
LEMMA NotInWheel ==
  ASSUME IInv, NEW t \in Timers, place[t] = Nowhere
  PROVE  t \notin CascadedTimers /\ PlaceAfterCascade(t) = Nowhere /\ t \notin Expired
<1>1. ASSUME NEW k \in 2..5 PROVE place[t] # <<k, SlotOf(k, current_tick)>>
  <2>1. current_tick \in Nat /\ k \in 1..5
    BY DEF IInv, TypeOK
  <2>2. <<k, SlotOf(k, current_tick)>> \in Places
    BY <2>1, SlotType
  <2> QED BY <2>2, Sizes
<1>2. t \notin CascadedTimers
  BY <1>1 DEF CascadedTimers, InSlot, Cascaded
<1>3. <<1, SlotOf(1, current_tick)>> \in Places
  BY SlotType DEF IInv, TypeOK
<1> QED BY <1>2, <1>3, Sizes DEF PlaceAfterCascade, Expired
-----------------------------------------------------------------------------
LEMMA InitInv == Init => IInv
<1> SUFFICES ASSUME Init PROVE IInv
  OBVIOUS
<1>1. Pending = {}
  BY DEF Init, Pending
<1>2. TypeOK
  BY Sizes DEF Init, TypeOK
<1>3. Wheel
  BY DEF Init, Wheel
<1>4. Clock
  BY Sizes DEF Init, Clock
<1>5. Counted
  BY <1>1, FS_EmptySet DEF Init, Counted
<1>6. OverdueLessThanTurn
  BY <1>1 DEF OverdueLessThanTurn
<1> QED BY <1>2, <1>3, <1>4, <1>5, <1>6 DEF IInv

LEMMA AddTimerInv ==
  ASSUME IInv, NEW t \in Timers, NEW ms \in Delays, AddTimer(t, ms) PROVE IInv'
<1> DEFINE e == now + ms
<1>1. /\ phase \in {"tasks", "poll"} /\ place[t] = Nowhere
      /\ expires_at' = [expires_at EXCEPT ![t] = e]
      /\ place' = [place EXCEPT ![t] = PlaceOf(e)]
      /\ active' = active + 1
      /\ UNCHANGED <<current_tick, now, last_tick, ready, phase>>
  BY DEF AddTimer
<1>2. TypeOK /\ Wheel /\ Clock /\ Counted /\ OverdueLessThanTurn
  BY DEF IInv
<1>3. e \in Nat /\ e >= current_tick /\ e > now /\ e >= last_tick
  BY <1>2, Sizes DEF TypeOK, Clock
<1> HIDE DEF e
<1>4. PlaceOf(e) \in Places /\ MayBeAt(PlaceOf(e), e, current_tick) /\ PlaceOf(e) # Nowhere
  BY <1>2, <1>3, PlaceOfIs, StayIsAt, Sizes DEF TypeOK
<1>5. TypeOK'
  BY <1>1, <1>2, <1>3, <1>4 DEF TypeOK
<1>6. Wheel'
  <2> SUFFICES ASSUME NEW u \in Timers
               PROVE  IF place'[u] = Nowhere THEN expires_at'[u] = Never
                      ELSE /\ MayBeAt(place'[u], expires_at'[u], current_tick)
                           /\ expires_at'[u] >= last_tick
    BY <1>1 DEF Wheel, MayBeAt
  <2>1. CASE u = t
    BY <1>1, <1>2, <1>3, <1>4, <2>1 DEF TypeOK
  <2>2. CASE u # t
    <3>1. place'[u] = place[u] /\ expires_at'[u] = expires_at[u]
      BY <1>1, <1>2, <2>2 DEF TypeOK
    <3> QED BY <1>2, <3>1 DEF Wheel
  <2> QED BY <2>1, <2>2
<1>7. Clock'
  BY <1>1, <1>2 DEF Clock
<1>8. Pending' = Pending \cup {t} /\ t \notin Pending
  BY <1>1, <1>2, <1>4 DEF Pending, TypeOK
<1>9. Counted'
  <2>1. Cardinality(Pending') = Cardinality(Pending) + 1
    BY <1>8, PendingFinite, FS_AddElement
  <2> QED BY <1>1, <1>2, <2>1, PendingFinite DEF Counted, TypeOK
<1>10. OverdueLessThanTurn'
  <2> SUFFICES ASSUME NEW u \in Pending'
               PROVE  now < expires_at'[u] + TVR_SIZE + MaxBusy
    BY <1>1 DEF OverdueLessThanTurn
  <2>1. CASE u = t
    BY <1>1, <1>2, <1>3, <2>1, <1>8, Sizes DEF TypeOK, Pending
  <2>2. CASE u # t
    <3>1. u \in Pending /\ expires_at'[u] = expires_at[u]
      BY <1>1, <1>2, <1>8, <2>2 DEF TypeOK, Pending
    <3> QED BY <1>2, <3>1 DEF OverdueLessThanTurn
  <2> QED BY <2>1, <2>2
<1> QED BY <1>5, <1>6, <1>7, <1>9, <1>10 DEF IInv

LEMMA RemoveTimerInv ==
  ASSUME IInv, NEW t \in Timers, RemoveTimer(t) PROVE IInv'
<1>1. /\ place[t] # Nowhere
      /\ place' = [place EXCEPT ![t] = Nowhere]
      /\ expires_at' = [expires_at EXCEPT ![t] = Never]
      /\ active' = active - 1
      /\ UNCHANGED <<current_tick, now, last_tick, ready, phase>>
  BY DEF RemoveTimer
<1>2. TypeOK /\ Wheel /\ Clock /\ Counted /\ OverdueLessThanTurn
  BY DEF IInv
<1>3. \A u \in Timers : /\ place'[u] = IF u = t THEN Nowhere ELSE place[u]
                        /\ expires_at'[u] = IF u = t THEN Never ELSE expires_at[u]
  BY <1>1, <1>2 DEF TypeOK
<1>4. Pending' = Pending \ {t} /\ t \in Pending
  BY <1>1, <1>3 DEF Pending
<1>5. Cardinality(Pending') = Cardinality(Pending) - 1 /\ Cardinality(Pending') \in Nat
  BY <1>4, PendingFinite, FS_RemoveElement, FS_CardinalityType
<1>6. Counted' /\ active' \in Nat
  BY <1>1, <1>2, <1>5, PendingFinite DEF Counted, TypeOK
<1>7. TypeOK'
  BY <1>1, <1>2, <1>6 DEF TypeOK
<1>8. Wheel'
  <2> SUFFICES ASSUME NEW u \in Timers
               PROVE  IF place'[u] = Nowhere THEN expires_at'[u] = Never
                      ELSE /\ MayBeAt(place'[u], expires_at'[u], current_tick)
                           /\ expires_at'[u] >= last_tick
    BY <1>1 DEF Wheel, MayBeAt
  <2> QED BY <1>2, <1>3 DEF Wheel
<1>9. Clock'
  BY <1>1, <1>2 DEF Clock
<1>10. OverdueLessThanTurn'
  BY <1>1, <1>2, <1>3, <1>4 DEF OverdueLessThanTurn, Pending
<1> QED BY <1>6, <1>7, <1>8, <1>9, <1>10 DEF IInv

LEMMA TickInv == ASSUME IInv, Tick PROVE IInv'
<1>1. /\ phase = "tick" /\ last_tick < now /\ current_tick < now
      /\ place' = [t \in Timers |->
                     IF t \in Expired THEN Nowhere ELSE PlaceAfterCascade(t)]
      /\ expires_at' = [t \in Timers |-> IF t \in Expired THEN Never ELSE expires_at[t]]
      /\ ready' = (ready \/ Expired # {})
      /\ active' = active + Cardinality(CascadedTimers)
      /\ current_tick' = current_tick + 1
      /\ UNCHANGED <<now, last_tick, phase>>
  BY DEF Tick
<1>2. TypeOK /\ Wheel /\ Clock /\ Counted /\ OverdueLessThanTurn
  BY DEF IInv
<1>3. ASSUME NEW t \in Timers, place[t] = Nowhere
      PROVE  place'[t] = Nowhere /\ expires_at'[t] = Never
  <2>1. t \notin Expired /\ PlaceAfterCascade(t) = Nowhere
    BY <1>3, NotInWheel
  <2> QED BY <1>1, <1>2, <1>3, <2>1 DEF Wheel
<1>4. ASSUME NEW t \in Timers, place[t] # Nowhere, expires_at[t] = current_tick
      PROVE  place'[t] = Nowhere /\ expires_at'[t] = Never
  BY <1>1, <1>4, AfterCascade
<1>5. ASSUME NEW t \in Timers, place[t] # Nowhere, expires_at[t] # current_tick
      PROVE  /\ place'[t] \in Places /\ expires_at'[t] = expires_at[t]
             /\ MayBeAt(place'[t], expires_at[t], current_tick + 1)
             /\ expires_at[t] >= last_tick
  <2>1. t \notin Expired /\ MayStayAt(PlaceAfterCascade(t), expires_at[t], current_tick)
    BY <1>5, AfterCascade
  <2>2. place'[t] = PlaceAfterCascade(t) /\ expires_at'[t] = expires_at[t]
    BY <1>1, <2>1
  <2>3. expires_at[t] \in Nat /\ expires_at[t] > current_tick /\ current_tick \in Nat
    BY <1>2, <1>5, <2>1 DEF MayStayAt, TypeOK
  <2> QED BY <1>2, <1>5, <2>1, <2>2, <2>3, StayIsAt DEF Wheel
<1>6. IsFiniteSet(CascadedTimers) /\ Cardinality(CascadedTimers) \in Nat
  <2>1. CascadedTimers \subseteq Timers
    BY DEF CascadedTimers, InSlot
  <2> QED BY <2>1, Sizes, FS_Subset, FS_CardinalityType
<1>7. TypeOK'
  <2>1. place' \in [Timers -> Places \cup {Nowhere}]
    BY <1>1, <1>3, <1>4, <1>5
  <2>2. expires_at' \in [Timers -> Nat \cup {Never}]
    BY <1>1, <1>2 DEF TypeOK
  <2>3. ready' \in BOOLEAN
    BY <1>1, <1>2 DEF TypeOK
  <2> QED BY <1>1, <1>2, <1>6, <2>1, <2>2, <2>3 DEF TypeOK
<1>8. Wheel'
  <2> SUFFICES ASSUME NEW t \in Timers
               PROVE  IF place'[t] = Nowhere THEN expires_at'[t] = Never
                      ELSE /\ MayBeAt(place'[t], expires_at'[t], current_tick + 1)
                           /\ expires_at'[t] >= last_tick
    BY <1>1 DEF Wheel, MayBeAt
  <2> QED BY <1>3, <1>4, <1>5, Sizes
<1>9. Clock'
  BY <1>1, <1>2 DEF Clock, TypeOK
<1>10. Pending' \subseteq Pending
  BY <1>3 DEF Pending
<1>11. Counted'
  <2>1. Cardinality(Pending') <= Cardinality(Pending) /\ Cardinality(Pending') \in Nat
    BY <1>10, PendingFinite, FS_Subset, FS_CardinalityType
  <2> QED BY <1>1, <1>2, <1>6, <2>1, PendingFinite DEF Counted, TypeOK
<1>12. OverdueLessThanTurn'
  <2> SUFFICES ASSUME NEW t \in Pending'
               PROVE  now < expires_at'[t] + TVR_SIZE + MaxBusy
    BY <1>1 DEF OverdueLessThanTurn
  <2>1. t \in Pending /\ t \in Timers /\ place'[t] # Nowhere
    BY <1>10 DEF Pending
  <2>2. expires_at'[t] = expires_at[t]
    BY <1>4, <1>5, <2>1 DEF Pending
  <2> QED BY <1>2, <2>1, <2>2 DEF OverdueLessThanTurn
<1> QED BY <1>7, <1>8, <1>9, <1>11, <1>12 DEF IInv

LEMMA TickDoneInv == ASSUME IInv, TickDone PROVE IInv'
<1>1. /\ phase = "tick" /\ (last_tick = now \/ current_tick = now)
      /\ last_tick' = now /\ phase' = "tasks"
      /\ UNCHANGED <<current_tick, place, expires_at, active, now, ready>>
  BY DEF TickDone
<1>2. TypeOK /\ Wheel /\ Clock /\ Counted /\ OverdueLessThanTurn
  BY DEF IInv
<1>3. TypeOK'
  BY <1>1, <1>2 DEF TypeOK
<1>4. Wheel'
  <2> SUFFICES ASSUME NEW t \in Timers, place[t] # Nowhere
               PROVE  expires_at[t] >= now
    BY <1>1, <1>2 DEF Wheel, MayBeAt
  <2>1. expires_at[t] >= last_tick /\ expires_at[t] >= current_tick
    BY <1>2 DEF Wheel, MayBeAt
  <2> QED BY <1>1, <2>1
<1>5. Clock'
  BY <1>1, <1>2, Sizes DEF Clock, TypeOK
<1>6. Counted' /\ OverdueLessThanTurn'
  BY <1>1, <1>2 DEF Counted, OverdueLessThanTurn, Pending
<1> QED BY <1>3, <1>4, <1>5, <1>6 DEF IInv

LEMMA NextRoundInv == ASSUME IInv, NextRound PROVE IInv'
<1>1. /\ phase' = "tick" /\ ready' = FALSE
      /\ UNCHANGED <<current_tick, place, expires_at, active, now, last_tick>>
  BY DEF NextRound
<1>2. TypeOK /\ Wheel /\ Clock /\ Counted /\ OverdueLessThanTurn
  BY DEF IInv
<1>3. TypeOK' /\ Clock'
  BY <1>1, <1>2 DEF TypeOK, Clock
<1>4. Wheel'
  BY <1>1, <1>2 DEF Wheel, MayBeAt
<1>5. Counted' /\ OverdueLessThanTurn'
  BY <1>1, <1>2 DEF Counted, OverdueLessThanTurn, Pending
<1> QED BY <1>3, <1>4, <1>5 DEF IInv

LEMMA BusyInv == ASSUME IInv, Busy PROVE IInv'
<1>1. /\ phase = "tasks" /\ now < last_tick + MaxBusy /\ now' = now + 1
      /\ UNCHANGED <<current_tick, place, expires_at, active, last_tick, ready, phase>>
  BY DEF Busy
<1>2. TypeOK /\ Wheel /\ Clock /\ Counted
  BY DEF IInv
<1>3. TypeOK' /\ Clock'
  BY <1>1, <1>2, Sizes DEF TypeOK, Clock
<1>4. Wheel' /\ Counted'
  BY <1>1, <1>2 DEF Wheel, MayBeAt, Counted, Pending
<1>5. OverdueLessThanTurn'
  <2> SUFFICES ASSUME NEW t \in Timers, place[t] # Nowhere
               PROVE  now + 1 < expires_at[t] + TVR_SIZE + MaxBusy
    BY <1>1 DEF OverdueLessThanTurn, Pending
  <2>1. expires_at[t] \in Nat /\ expires_at[t] >= last_tick
    BY <1>2 DEF Wheel, MayBeAt
  <2> QED BY <1>1, <1>2, <2>1, Sizes DEF TypeOK
<1> QED BY <1>3, <1>4, <1>5 DEF IInv

(* While a timer is pending the wait has a limit, and the limit keeps the  *)
(* timer from being overslept by a turn of level 1.                        *)
LEMMA NextTimeoutIs ==
  ASSUME IInv
  PROVE  /\ NextTimeout = Never => Pending = {}
         /\ NextTimeout # Never => NextTimeout \in Nat
         /\ phase = "tasks" => \A t \in Pending :
              now + NextTimeout < expires_at[t] + TVR_SIZE + MaxBusy
<1> DEFINE found == {i \in 0..TVR_SIZE-1 :
                       InSlot(1, SlotOf(1, current_tick + i)) # {}}
           slot == <<1, SlotOf(1, current_tick + Min(found))>>
           first == CHOOSE t \in Timers : place[t] = slot
<1>1. NextTimeout = IF active = 0 THEN Never
                    ELSE IF found = {} THEN FALLBACK
                    ELSE IF expires_at[first] > now THEN expires_at[first] - now ELSE 0
  BY DEF NextTimeout
<1>2. TypeOK /\ Wheel /\ Clock /\ Counted
  BY DEF IInv
<1>3. ASSUME NEW t \in Pending
      PROVE  /\ expires_at[t] \in Nat /\ expires_at[t] >= last_tick
             /\ expires_at[t] >= current_tick
  BY <1>2 DEF Wheel, MayBeAt, Pending
<1>4. CASE active = 0
  <2>1. Cardinality(Pending) = 0
    BY <1>2, <1>4, PendingFinite DEF Counted
  <2>2. Pending = {}
    BY <2>1, PendingFinite, FS_EmptySet
  <2> QED BY <1>1, <1>4, <2>2
<1>5. CASE active # 0 /\ found = {}
  <2>1. NextTimeout = FALLBACK
    BY <1>1, <1>5
  <2>2. FALLBACK \in Nat /\ FALLBACK < TVR_SIZE /\ FALLBACK # Never
    BY Sizes
  <2>3. ASSUME NEW t \in Pending, phase = "tasks"
        PROVE  now + FALLBACK < expires_at[t] + TVR_SIZE + MaxBusy
    BY <1>2, <1>3, <2>2, <2>3, Sizes DEF Clock, TypeOK
  <2> QED BY <2>1, <2>2, <2>3
<1>6. CASE active # 0 /\ found # {}
  <2>1. Min(found) \in found
    <3>1. found \subseteq Nat
      BY Sizes
    <3> HIDE DEF found
    <3> QED BY <1>6, <3>1, MinOfNats
  <2>2. \E t \in Timers : place[t] = slot
    BY <2>1 DEF InSlot
  <2> HIDE DEF found, slot
  <2>3. first \in Timers /\ place[first] = slot
    BY <2>2
  <2>4. slot[1] = 1 /\ slot \in Places
    <3>1. current_tick + Min(found) \in Nat
      BY <1>2, <2>1 DEF found, TypeOK
    <3> QED BY <3>1, SlotType DEF slot
  <2> HIDE DEF first
  <2>5. MayBeAt(slot, expires_at[first], current_tick)
    BY <1>2, <2>3, <2>4, Sizes DEF Wheel
  <2>6. expires_at[first] \in Nat /\ expires_at[first] < current_tick + TVR_SIZE
    BY <2>4, <2>5 DEF MayBeAt
  <2>7. NextTimeout = IF expires_at[first] > now THEN expires_at[first] - now ELSE 0
    BY <1>1, <1>6
  <2>8. NextTimeout \in Nat
    BY <1>2, <2>6, <2>7 DEF TypeOK
  <2>9. ASSUME NEW t \in Pending, phase = "tasks"
        PROVE  now + NextTimeout < expires_at[t] + TVR_SIZE + MaxBusy
    <3>1. CASE expires_at[first] > now
      <4>1. now + NextTimeout = expires_at[first]
        BY <1>2, <2>6, <2>7, <3>1 DEF TypeOK
      <4> QED BY <1>2, <1>3, <2>6, <4>1, Sizes DEF TypeOK
    <3>2. CASE ~(expires_at[first] > now)
      <4>1. NextTimeout = 0
        BY <2>7, <3>2
      <4> QED BY <1>2, <1>3, <2>9, <4>1, Sizes DEF TypeOK, Clock
    <3> QED BY <3>1, <3>2
  <2>10. NextTimeout # Never
    BY <2>8, Sizes
  <2> QED BY <2>8, <2>9, <2>10
<1> QED BY <1>4, <1>5, <1>6

LEMMA SleepInv == ASSUME IInv, Sleep PROVE IInv'
<1>1. /\ phase = "tasks" /\ phase' = "poll" /\ now' \in now..LatestWakeup
      /\ UNCHANGED <<current_tick, place, expires_at, active, last_tick, ready>>
  BY DEF Sleep
<1>2. TypeOK /\ Wheel /\ Clock /\ Counted
  BY DEF IInv
<1>3. now' \in Nat /\ now <= now' /\ now' <= LatestWakeup
  BY <1>1, <1>2 DEF TypeOK
<1>4. TypeOK' /\ Clock'
  BY <1>1, <1>2, <1>3 DEF TypeOK, Clock
<1>5. Wheel' /\ Counted'
  BY <1>1, <1>2 DEF Wheel, MayBeAt, Counted, Pending
<1>6. OverdueLessThanTurn'
  <2> SUFFICES ASSUME NEW t \in Pending
               PROVE  now' < expires_at[t] + TVR_SIZE + MaxBusy
    BY <1>1 DEF OverdueLessThanTurn, Pending
  <2>1. NextTimeout \in Nat /\ now + NextTimeout < expires_at[t] + TVR_SIZE + MaxBusy
    BY <1>1, NextTimeoutIs
  <2>2. now + 1 < expires_at[t] + TVR_SIZE + MaxBusy
    <3>1. expires_at[t] \in Nat /\ expires_at[t] >= last_tick
      BY <1>2 DEF Wheel, MayBeAt, Pending
    <3> QED BY <1>1, <1>2, <3>1, Sizes DEF Clock, TypeOK
  <2> DEFINE m == IF NextTimeout = 0 THEN now + 1 ELSE now + NextTimeout
  <2>3. LatestWakeup = Min({m, Horizon})
    BY <2>1, Sizes DEF LatestWakeup
  <2>4. m \in Nat /\ m < expires_at[t] + TVR_SIZE + MaxBusy
    BY <1>2, <2>1, <2>2 DEF TypeOK
  <2> HIDE DEF m
  <2>5. LatestWakeup \in {m, Horizon} /\ LatestWakeup <= m
    BY <2>3, <2>4, MinOfNats, Sizes
  <2>6. expires_at[t] \in Nat
    BY <1>2 DEF Wheel, MayBeAt, Pending
  <2> QED BY <1>3, <2>4, <2>5, <2>6, Sizes
<1> QED BY <1>4, <1>5, <1>6 DEF IInv

LEMMA InvStep == IInv /\ [Next]_vars => IInv'
<1> SUFFICES ASSUME IInv, [Next]_vars PROVE IInv'
  OBVIOUS
<1>1. CASE UNCHANGED vars
  BY <1>1 DEF vars, IInv, TypeOK, Wheel, MayBeAt, Clock, Counted, OverdueLessThanTurn, Pending
<1>2. CASE Next
  BY <1>2, AddTimerInv, RemoveTimerInv, TickInv, TickDoneInv, BusyInv, SleepInv,
     NextRoundInv DEF Next
<1> QED BY <1>1, <1>2

LEMMA Invariant == Spec => []IInv
BY InitInv, InvStep, PTL DEF Spec
-----------------------------------------------------------------------------
(* The variables of the wheel and of the loop that drives it keep their    *)
(* types: no timer is put in a slot that does not exist.                   *)
THEOREM TypeCorrect == Spec => []TypeOK
<1>1. IInv => TypeOK
  BY DEF IInv
<1> QED BY <1>1, Invariant, PTL

(* The scheduler never waits without a limit while a timer is pending.     *)
THEOREM SleepHasLimit == Spec => []NoEndlessSleep
<1>1. IInv => NoEndlessSleep
  BY NextTimeoutIs DEF NoEndlessSleep
<1> QED BY <1>1, Invariant, PTL

(* No pending timer is overslept by a turn of level 1 and a round's work.  *)
THEOREM OversleptLessThanTurn == Spec => []OverdueLessThanTurn
<1>1. IInv => OverdueLessThanTurn
  BY DEF IInv
<1> QED BY <1>1, Invariant, PTL

LEMMA DeadlinesAre == IInv => Deadlines = expires_at
<1> SUFFICES ASSUME IInv PROVE Deadlines = expires_at
  OBVIOUS
<1>1. \A t \in Timers : Deadlines[t] = expires_at[t]
  BY DEF IInv, Wheel, Deadlines, Pending
<1>2. Deadlines = [t \in Timers |-> Deadlines[t]]
  BY DEF Deadlines
<1>3. expires_at = [t \in Timers |-> expires_at[t]]
  BY DEF IInv, TypeOK
<1> QED BY <1>1, <1>2, <1>3

(* Every step of the wheel is a step of the set of timers it stands for:   *)
(* whatever the levels a timer passes through, it fires at its deadline.   *)
THEOREM WheelImplementsTimerSet == Spec => ImplementsTimerSet
<1>0. IInv' => (Deadlines = expires_at)'
  BY DeadlinesAre, PTL
<1>1. Init => Abstract!Init
  <2> SUFFICES ASSUME Init PROVE Abstract!Init
    OBVIOUS
  <2>1. Deadlines = expires_at
    BY InitInv, DeadlinesAre
  <2> QED BY <2>1 DEF Init, Abstract!Init
<1>2. IInv /\ IInv' /\ [Next]_vars => [Abstract!Next]_(Abstract!vars)
  <2> SUFFICES ASSUME IInv, IInv', [Next]_vars PROVE [Abstract!Next]_(Abstract!vars)
    OBVIOUS
  <2>1. Deadlines = expires_at /\ Deadlines' = expires_at'
    BY <1>0, DeadlinesAre
  <2>2. TypeOK /\ Wheel /\ Clock
    BY DEF IInv
  <2>3. ASSUME NEW t \in Timers, NEW ms \in Delays, AddTimer(t, ms)
        PROVE  Abstract!Next
    <3>1. /\ place[t] = Nowhere /\ current_tick' = current_tick
          /\ expires_at' = [expires_at EXCEPT ![t] = now + ms]
      BY <2>3 DEF AddTimer
    <3>2. expires_at[t] = Never
      BY <2>2, <3>1 DEF Wheel
    <3>3. now + ms \in Nat /\ now + ms >= current_tick
      BY <2>2, Sizes DEF TypeOK, Clock
    <3>4. expires_at'[t] = now + ms
      BY <2>2, <3>1 DEF TypeOK
    <3>5. Abstract!Set(t, expires_at'[t])
      BY <2>1, <3>1, <3>2, <3>3, <3>4 DEF Abstract!Set
    <3>6. Deadlines'[t] # Never
      BY <2>1, <3>3, <3>4, Sizes
    <3> QED BY <2>1, <3>5, <3>6 DEF Abstract!Next
  <2>4. ASSUME NEW t \in Timers, RemoveTimer(t)
        PROVE  Abstract!Next
    <3>1. /\ place[t] # Nowhere /\ current_tick' = current_tick
          /\ expires_at' = [expires_at EXCEPT ![t] = Never]
      BY <2>4 DEF RemoveTimer
    <3>2. expires_at[t] # Never
      BY <2>2, <3>1, Sizes DEF Wheel, MayBeAt
    <3>3. Abstract!Cancel(t)
      BY <2>1, <3>1, <3>2 DEF Abstract!Cancel
    <3> QED BY <3>3 DEF Abstract!Next
  <2>5. CASE Tick
    <3>1. /\ current_tick' = current_tick + 1
          /\ expires_at' = [t \in Timers |->
                              IF t \in Expired THEN Never ELSE expires_at[t]]
      BY <2>5 DEF Tick
    <3>2. ASSUME NEW t \in Timers
          PROVE  (IF t \in Expired THEN Never ELSE expires_at[t])
                   = IF expires_at[t] = current_tick THEN Never ELSE expires_at[t]
      <4>1. CASE place[t] = Nowhere
        BY <2>2, <4>1, NotInWheel DEF Wheel
      <4>2. CASE place[t] # Nowhere
        BY <4>2, AfterCascade
      <4> QED BY <4>1, <4>2
    <3>3. Abstract!Tick
      BY <2>1, <3>1, <3>2 DEF Abstract!Tick
    <3> QED BY <3>3 DEF Abstract!Next
  <2>6. CASE TickDone \/ Busy \/ Sleep \/ NextRound \/ UNCHANGED vars
    <3>1. expires_at' = expires_at /\ current_tick' = current_tick
      BY <2>6 DEF TickDone, Busy, Sleep, NextRound, vars
    <3> QED BY <2>1, <3>1 DEF Abstract!vars
  <2> QED BY <2>3, <2>4, <2>5, <2>6 DEF Next
<1> QED BY <1>1, <1>2, Invariant, PTL DEF Spec, ImplementsTimerSet, Abstract!Spec
=============================================================================
