------------------------------ MODULE SeqFacts ------------------------------
(***************************************************************************)
(* Facts about the sequences that model chains of waiters and queues,      *)
(* used by the proofs of several components.                               *)
(***************************************************************************)
EXTENDS Naturals, Sequences, SequencesExt, SequenceTheorems, TLAPS

(* Reversing keeps the length and the elements of a sequence. *)
LEMMA ReverseType ==
  ASSUME NEW S, NEW s \in Seq(S)
  PROVE  /\ Reverse(s) \in Seq(S)
         /\ Len(Reverse(s)) = Len(s)
         /\ \A i \in 1..Len(s) : Reverse(s)[i] = s[(Len(s) - i) + 1]
  BY DEF Reverse

LEMMA ReverseEmpty == Reverse(<<>>) = <<>>
  BY DEF Reverse

(* Pushing on top of a LIFO chain is appending to its reversal: the        *)
(* newest request waits behind all the others.                             *)
LEMMA ReverseCons ==
  ASSUME NEW S, NEW s \in Seq(S), NEW e \in S
  PROVE  /\ Cons(e, s) \in Seq(S)
         /\ Cons(e, s) # <<>>
         /\ Head(Cons(e, s)) = e
         /\ Reverse(Cons(e, s)) = Append(Reverse(s), e)
<1>1. /\ Cons(e, s) \in Seq(S)
      /\ Len(Cons(e, s)) = Len(s) + 1
      /\ \A i \in 1..Len(s)+1 : Cons(e, s)[i] = IF i = 1 THEN e ELSE s[i-1]
  BY DEF Cons
<1>2. /\ Reverse(Cons(e, s)) \in Seq(S)
      /\ Len(Reverse(Cons(e, s))) = Len(s) + 1
      /\ \A i \in 1..Len(s)+1 :
           Reverse(Cons(e, s))[i] = Cons(e, s)[((Len(s) + 1) - i) + 1]
  BY <1>1, ReverseType
<1>3. /\ Append(Reverse(s), e) \in Seq(S)
      /\ Len(Append(Reverse(s), e)) = Len(s) + 1
      /\ \A i \in 1..Len(s) : Append(Reverse(s), e)[i] = s[(Len(s) - i) + 1]
      /\ Append(Reverse(s), e)[Len(s) + 1] = e
  BY ReverseType
<1>4. ASSUME NEW i \in 1..Len(s)+1
      PROVE  Reverse(Cons(e, s))[i] = Append(Reverse(s), e)[i]
  <2>1. CASE i = Len(s) + 1
    <3>1. ((Len(s) + 1) - i) + 1 = 1  BY <2>1
    <3> QED BY <1>1, <1>2, <1>3, <2>1, <3>1
  <2>2. CASE i \in 1..Len(s)
    <3>1. /\ ((Len(s) + 1) - i) + 1 \in 1..Len(s)+1
          /\ ((Len(s) + 1) - i) + 1 # 1
          /\ (((Len(s) + 1) - i) + 1) - 1 = (Len(s) - i) + 1
      BY <2>2
    <3> QED BY <1>1, <1>2, <1>3, <2>2, <3>1
  <2>3. i = Len(s) + 1 \/ i \in 1..Len(s)
    BY LenProperties
  <2> QED BY <2>1, <2>2, <2>3
<1>5. Reverse(Cons(e, s)) = Append(Reverse(s), e)
  BY <1>2, <1>3, <1>4, SeqEqual
<1> QED BY <1>1, <1>5
(* Appending a new element keeps a sequence free of repetitions. *)
LEMMA AppendFacts ==
  ASSUME NEW S, NEW s \in Seq(S), NEW e \in S
  PROVE  /\ Append(s, e) \in Seq(S)
         /\ Range(Append(s, e)) = Range(s) \cup {e}
         /\ IsInjective(s) /\ e \notin Range(s) => IsInjective(Append(s, e))
<1>1. /\ Append(s, e) \in Seq(S)
      /\ DOMAIN s = 1..Len(s)
      /\ DOMAIN Append(s, e) = 1..Len(s)+1
      /\ \A i \in 1..Len(s) : Append(s, e)[i] = s[i]
      /\ Append(s, e)[Len(s) + 1] = e
      /\ Len(s) \in Nat
  OBVIOUS
<1>2. Range(Append(s, e)) = Range(s) \cup {e}
  BY <1>1 DEF Range
<1>3. ASSUME IsInjective(s), e \notin Range(s)
      PROVE  IsInjective(Append(s, e))
  BY <1>1, <1>3 DEF IsInjective, Range
<1> QED BY <1>1, <1>2, <1>3

(* Dropping the first element of a sequence without repetitions removes    *)
(* exactly that element.                                                   *)
LEMMA TailFacts ==
  ASSUME NEW S, NEW s \in Seq(S), s # <<>>, IsInjective(s)
  PROVE  /\ Tail(s) \in Seq(S)
         /\ Head(s) \in S
         /\ Head(s) \in Range(s)
         /\ Range(Tail(s)) = Range(s) \ {Head(s)}
         /\ IsInjective(Tail(s))
<1>1. /\ Tail(s) \in Seq(S)
      /\ Head(s) \in S
      /\ Head(s) = s[1]
      /\ Len(s) \in Nat \ {0}
      /\ DOMAIN s = 1..Len(s)
      /\ DOMAIN Tail(s) = 1..Len(s)-1
      /\ \A i \in 1..Len(s)-1 : Tail(s)[i] = s[i+1]
  BY HeadTailProperties, EmptySeq
<1>2. Range(Tail(s)) \subseteq Range(s) \ {Head(s)}
  <2> SUFFICES ASSUME NEW i \in 1..Len(s)-1
               PROVE  s[i+1] \in Range(s) \ {s[1]}
    BY <1>1 DEF Range
  <2> QED BY <1>1 DEF Range, IsInjective
<1>3. Range(s) \ {Head(s)} \subseteq Range(Tail(s))
  <2> SUFFICES ASSUME NEW i \in 1..Len(s), s[i] # s[1]
               PROVE  s[i] \in Range(Tail(s))
    BY <1>1 DEF Range
  <2>1. i - 1 \in 1..Len(s)-1 /\ (i - 1) + 1 = i
    BY <1>1
  <2> QED BY <1>1, <2>1 DEF Range
<1>4. IsInjective(Tail(s))
  BY <1>1 DEF IsInjective
<1>5. Head(s) \in Range(s)
  BY <1>1 DEF Range
<1> QED BY <1>1, <1>2, <1>3, <1>4, <1>5

(* Pushing a new element keeps a sequence free of repetitions. *)
LEMMA ConsFacts ==
  ASSUME NEW S, NEW s \in Seq(S), NEW e \in S
  PROVE  /\ Cons(e, s) \in Seq(S)
         /\ Range(Cons(e, s)) = Range(s) \cup {e}
         /\ IsInjective(s) /\ e \notin Range(s) => IsInjective(Cons(e, s))
<1>1. /\ Cons(e, s) \in Seq(S)
      /\ Len(s) \in Nat
      /\ DOMAIN s = 1..Len(s)
      /\ DOMAIN Cons(e, s) = 1..Len(s)+1
      /\ \A i \in 1..Len(s)+1 : Cons(e, s)[i] = IF i = 1 THEN e ELSE s[i-1]
  BY DEF Cons
<1>2. \A i \in 1..Len(s) : i + 1 \in 1..Len(s)+1 /\ Cons(e, s)[i + 1] = s[i]
  BY <1>1
<1>3. 1 \in 1..Len(s)+1 /\ Cons(e, s)[1] = e
  BY <1>1
<1>4. Range(s) \cup {e} \subseteq Range(Cons(e, s))
  BY <1>1, <1>2, <1>3 DEF Range
<1>5. \A i \in 1..Len(s)+1 : i # 1 => i - 1 \in 1..Len(s) /\ Cons(e, s)[i] = s[i-1]
  BY <1>1
<1>6. Range(Cons(e, s)) \subseteq Range(s) \cup {e}
  BY <1>1, <1>3, <1>5 DEF Range
<1>7. ASSUME IsInjective(s), e \notin Range(s)
      PROVE  IsInjective(Cons(e, s))
  <2> SUFFICES ASSUME NEW i \in 1..Len(s)+1, NEW j \in 1..Len(s)+1,
                      Cons(e, s)[i] = Cons(e, s)[j]
               PROVE  i = j
    BY <1>1 DEF IsInjective
  <2>1. CASE i = 1 /\ j = 1
    BY <2>1
  <2>2. CASE i # 1 /\ j # 1
    BY <1>1, <1>5, <1>7, <2>2 DEF IsInjective
  <2>3. CASE i = 1 /\ j # 1
    BY <1>1, <1>3, <1>5, <1>7, <2>3 DEF Range
  <2>4. CASE i # 1 /\ j = 1
    BY <1>1, <1>3, <1>5, <1>7, <2>4 DEF Range
  <2> QED BY <2>1, <2>2, <2>3, <2>4
<1> QED BY <1>1, <1>4, <1>6, <1>7

LEMMA EmptyFacts == Range(<<>>) = {} /\ IsInjective(<<>>)
  BY DEF Range, IsInjective

(* The first element of a concatenation is that of its first part. *)
LEMMA TailConcat ==
  ASSUME NEW S, NEW s \in Seq(S), NEW t \in Seq(S), s # <<>>
  PROVE  /\ s \o t # <<>>
         /\ Head(s \o t) = Head(s)
         /\ Tail(s \o t) = Tail(s) \o t
<1>1. /\ Len(s) \in Nat \ {0}  /\ Len(t) \in Nat
      /\ s \o t \in Seq(S)
      /\ Len(s \o t) = Len(s) + Len(t)
      /\ \A i \in 1..Len(s) + Len(t) :
           (s \o t)[i] = IF i <= Len(s) THEN s[i] ELSE t[i - Len(s)]
  BY EmptySeq, LenProperties, ConcatProperties
<1>2. s \o t # <<>>
  BY <1>1, EmptySeq
<1>3. Head(s \o t) = Head(s)
  BY <1>1, <1>2
<1>4. /\ Tail(s \o t) \in Seq(S)
      /\ Len(Tail(s \o t)) = (Len(s) + Len(t)) - 1
      /\ \A i \in 1..(Len(s) + Len(t)) - 1 : Tail(s \o t)[i] = (s \o t)[i + 1]
  BY <1>1, <1>2, HeadTailProperties
<1>5. /\ Tail(s) \in Seq(S)
      /\ Len(Tail(s)) = Len(s) - 1
      /\ \A i \in 1..Len(s) - 1 : Tail(s)[i] = s[i + 1]
  BY HeadTailProperties
<1>6. /\ Tail(s) \o t \in Seq(S)
      /\ Len(Tail(s) \o t) = (Len(s) - 1) + Len(t)
      /\ \A i \in 1..(Len(s) - 1) + Len(t) :
           (Tail(s) \o t)[i] =
             IF i <= Len(s) - 1 THEN Tail(s)[i] ELSE t[i - (Len(s) - 1)]
  BY <1>5, ConcatProperties
<1>7. ASSUME NEW i \in 1..(Len(s) + Len(t)) - 1
      PROVE  Tail(s \o t)[i] = (Tail(s) \o t)[i]
  <2>1. CASE i <= Len(s) - 1
    BY <1>1, <1>4, <1>5, <1>6, <2>1
  <2>2. CASE ~(i <= Len(s) - 1)
    <3>1. /\ i + 1 \in 1..Len(s) + Len(t)
          /\ ~(i + 1 <= Len(s))
          /\ (i + 1) - Len(s) = i - (Len(s) - 1)
          /\ i \in 1..(Len(s) - 1) + Len(t)
      BY <1>1, <2>2
    <3> QED BY <1>1, <1>4, <1>6, <2>2, <3>1
  <2> QED BY <2>1, <2>2
<1>8. Tail(s \o t) = Tail(s) \o t
  BY <1>1, <1>4, <1>6, <1>7, SeqEqual
<1> QED BY <1>2, <1>3, <1>8
=============================================================================
