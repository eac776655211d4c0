--------------------------- MODULE CoMutexProofs ----------------------------
(***************************************************************************)
(* Proofs about CoMutex, for every set of coroutines and every placement   *)
(* of them on schedulers.                                                  *)
(***************************************************************************)
EXTENDS CoMutex, SeqFacts, SequenceTheorems, TLAPS

(* What the position of the holder in unlock() says of the chains. *)
UnlockState ==
  \A c \in Coros :
    /\ pc[c] \in {"release", "retake"} => waiters_head = <<>> /\ taken = <<>>
    /\ pc[c] = "retake" => stack # <<>>
    /\ pc[c] = "reverse" => waiters_head = <<>> /\ taken # <<>>
    /\ pc[c] = "resume" => waiters_head # <<>>

(* The mutex is locked exactly while somebody owns it, nobody is queued on *)
(* an unlocked mutex, and only a holder in unlock() has a taken chain.     *)
LockState ==
  /\ locked <=> \E c \in Coros : Owns(c)
  /\ ~locked => stack = <<>> /\ waiters_head = <<>> /\ taken = <<>>
  /\ taken # <<>> => \E c \in Coros : pc[c] = "reverse"

(* A waiter is in Queue or travelling, not both; only waiters travel. *)
WaiterState ==
  /\ \A c \in Coros : pc[c] = "suspended" <=> c \in Range(Queue) \/ route[c] # "none"
  /\ \A c \in Coros : ~(c \in Range(Queue) /\ route[c] # "none")
  /\ IsInjective(Queue)

(* The inductive invariant: mutual exclusion alone is not inductive, since *)
(* whether a step makes a second owner depends on what is in the chains.   *)
IInv == TypeOK /\ MutualExclusion /\ LockState /\ UnlockState /\ WaiterState

(* Type correctness is preserved by every step of the mutex. *)
LEMMA TypeStep == TypeOK /\ [Next]_vars => TypeOK'
<1> SUFFICES ASSUME TypeOK, [Next]_vars
             PROVE  TypeOK'
  OBVIOUS
<1> USE DEF TypeOK, PCs, Words, Goto
<1>w. Word \in Words
  BY HeadTailProperties DEF Word
<1>1. ASSUME NEW c \in Coros, Lock(c)
      PROVE  TypeOK'
  <2>1. CASE LockLoad(c)     BY <2>1, <1>w DEF LockLoad
  <2>2. CASE LockAcquire(c)  BY <2>2 DEF LockAcquire
  <2>3. CASE LockPush(c)
    <3>1. Cons(c, stack) \in Seq(Coros)  BY ReverseCons
    <3> QED BY <2>3, <3>1 DEF LockPush
  <2>4. CASE LockRetry(c)    BY <2>4, <1>w DEF LockRetry
  <2> QED BY <1>1, <2>1, <2>2, <2>3, <2>4 DEF Lock
<1>2. ASSUME NEW c \in Coros, Unlock(c)
      PROVE  TypeOK'
  <2>1. CASE UnlockExchange(c)       BY <2>1, EmptySeq DEF UnlockExchange
  <2>2. CASE UnlockRelease(c)        BY <2>2 DEF UnlockRelease
  <2>3. CASE UnlockReleaseFails(c)   BY <2>3 DEF UnlockReleaseFails
  <2>4. CASE UnlockExchangeAgain(c)  BY <2>4, EmptySeq DEF UnlockExchangeAgain
  <2>5. CASE UnlockReverse(c)        BY <2>5, EmptySeq, ReverseType DEF UnlockReverse
  <2>6. CASE UnlockResume(c)
    <3>1. /\ Tail(waiters_head) \in Seq(Coros)
          /\ Head(waiters_head) \in Coros
      BY <2>6, HeadTailProperties DEF UnlockResume
    <3>2. RouteTo(SchedOf[c], Head(waiters_head)) \in {"local", "ring", "dropped"}
      BY DEF RouteTo
    <3> QED BY <2>6, <3>1, <3>2 DEF UnlockResume
  <2> QED BY <1>2, <2>1, <2>2, <2>3, <2>4, <2>5, <2>6 DEF Unlock
<1>3. ASSUME NEW c \in Coros, Poll(c)
      PROVE  TypeOK'
  BY <1>3 DEF Poll
<1>4. ASSUME NEW c \in Coros, Resume(c)
      PROVE  TypeOK'
  BY <1>4 DEF Resume
<1>5. CASE UNCHANGED vars
  BY <1>5 DEF vars
<1> QED BY <1>1, <1>2, <1>3, <1>4, <1>5 DEF Next

(* The fields of the mutex and the locals of its callers keep their types. *)
THEOREM TypeCorrect == Spec => []TypeOK
<1>1. Init => TypeOK
  BY EmptySeq DEF Init, TypeOK, PCs, Words
<1> QED BY <1>1, TypeStep, PTL DEF Spec
-----------------------------------------------------------------------------
LEMMA QueueType ==
  ASSUME TypeOK
  PROVE  /\ Reverse(taken) \in Seq(Coros)
         /\ Reverse(stack) \in Seq(Coros)
         /\ waiters_head \o Reverse(taken) \in Seq(Coros)
         /\ Queue \in Seq(Coros)
  BY ReverseType, ConcatProperties DEF TypeOK, Queue

(* A push adds its request at the young end of Queue. *)
LEMMA QueuePush ==
  ASSUME TypeOK, NEW c \in Coros, LockPush(c)
  PROVE  Queue' = Append(Queue, c)
<1> DEFINE a == waiters_head \o Reverse(taken)
           b == Reverse(stack)
<1>1. a \in Seq(Coros) /\ b \in Seq(Coros) /\ <<c>> \in Seq(Coros)
  BY QueueType
<1>2. Reverse(stack') = Append(b, c)
  BY ReverseCons DEF LockPush, TypeOK
<1>3. Queue' = a \o Append(b, c)
  BY <1>2 DEF LockPush, Queue
<1>4. Append(b, c) = b \o <<c>> /\ Append(a \o b, c) = (a \o b) \o <<c>>
  BY <1>1, AppendIsConcat, ConcatProperties
<1>5. (a \o b) \o <<c>> = a \o (b \o <<c>>)
  BY <1>1, ConcatAssociative
<1> QED BY <1>3, <1>4, <1>5 DEF Queue

(* Taking the LIFO chain, and turning it around, moves waiters from one    *)
(* part of Queue to another without changing it.                           *)
LEMMA QueueTake ==
  ASSUME TypeOK, waiters_head = <<>>, taken = <<>>,
         taken' = stack, stack' = <<>>, waiters_head' = waiters_head
  PROVE  Queue' = Queue
  BY QueueType, ReverseEmpty, ConcatEmptySeq, EmptySeq DEF Queue

LEMMA QueueReverse ==
  ASSUME TypeOK, waiters_head = <<>>,
         waiters_head' = Reverse(taken), taken' = <<>>, stack' = stack
  PROVE  Queue' = Queue
  BY QueueType, ReverseEmpty, ConcatEmptySeq, EmptySeq DEF Queue

(* A hand-over removes the oldest request. *)
LEMMA QueueResume ==
  ASSUME TypeOK, NEW c \in Coros, UnlockResume(c)
  PROVE  /\ Queue # <<>>
         /\ Head(Queue) = Head(waiters_head)
         /\ Queue' = Tail(Queue)
<1>1. /\ waiters_head \in Seq(Coros) /\ waiters_head # <<>>
      /\ Reverse(taken) \in Seq(Coros) /\ Reverse(stack) \in Seq(Coros)
  BY QueueType DEF UnlockResume, TypeOK
<1>2. /\ waiters_head \o Reverse(taken) \in Seq(Coros)
      /\ waiters_head \o Reverse(taken) # <<>>
      /\ Head(waiters_head \o Reverse(taken)) = Head(waiters_head)
      /\ Tail(waiters_head \o Reverse(taken)) = Tail(waiters_head) \o Reverse(taken)
  BY <1>1, TailConcat, ConcatProperties
<1>3. /\ Queue # <<>>
      /\ Head(Queue) = Head(waiters_head)
      /\ Tail(Queue) = (Tail(waiters_head) \o Reverse(taken)) \o Reverse(stack)
  BY <1>1, <1>2, TailConcat DEF Queue
<1>4. Queue' = (Tail(waiters_head) \o Reverse(taken)) \o Reverse(stack)
  BY DEF UnlockResume, Queue
<1> QED BY <1>3, <1>4
-----------------------------------------------------------------------------
(* What one step changes of ownership and of Queue, for each operation:    *)
(* the facts the invariant and the refinement are both proved from.  Most  *)
(* steps keep both; four make the abstract lock take a step.               *)
Kept == /\ Queue' = Queue
        /\ \A d \in Coros : Owns(d)' <=> Owns(d)

(* The owner after a step is d, and nobody when the set is empty. *)
OwnersAre(S) == \A d \in Coros : Owns(d)' <=> d \in S

LEMMA InitInv == Init => IInv
<1> SUFFICES ASSUME Init PROVE IInv
  OBVIOUS
<1>1. TypeOK
  BY EmptySeq DEF Init, TypeOK, PCs, Words
<1>2. Queue = <<>>
  BY ReverseEmpty, ConcatEmptySeq, EmptySeq DEF Init, Queue
<1>3. Range(<<>>) = {} /\ IsInjective(<<>>)
  BY DEF Range, IsInjective
<1>4. \A c \in Coros : ~Owns(c)
  BY DEF Init, Owns
<1> QED BY <1>1, <1>2, <1>3, <1>4
        DEF IInv, MutualExclusion, LockState, UnlockState, WaiterState, Init

(* No queue changes and nobody's ownership does. *)
LEMMA LockLoadInv ==
  ASSUME IInv, NEW c \in Coros, LockLoad(c) \/ LockRetry(c), TypeOK'
  PROVE  IInv' /\ Kept
<1>1. /\ UNCHANGED <<locked, stack, waiters_head, taken, route>>
      /\ \/ pc[c] = "idle" /\ pc' = [pc EXCEPT ![c] = "cas"]
         \/ pc' = pc
  BY DEF LockLoad, LockRetry, Goto
<1>2. Queue' = Queue
  BY <1>1 DEF Queue
<1>3. \A d \in Coros : Owns(d)' <=> Owns(d)
  BY <1>1 DEF Owns, IInv, TypeOK
<1>4. MutualExclusion'
  BY <1>3 DEF MutualExclusion, IInv
<1>5. LockState'
  BY <1>1, <1>3 DEF LockState, IInv, TypeOK
<1>6. UnlockState'
  BY <1>1 DEF UnlockState, IInv, TypeOK
<1>7. WaiterState'
  BY <1>1, <1>2 DEF WaiterState, IInv, TypeOK
<1> QED BY <1>4, <1>5, <1>6, <1>7, <1>2, <1>3 DEF IInv, Kept

(* The mutex was unlocked, so nobody owned it: c is the only owner. *)
LEMMA LockAcquireInv ==
  ASSUME IInv, NEW c \in Coros, LockAcquire(c), TypeOK'
  PROVE  IInv' /\ (\A d \in Coros : ~Owns(d)) /\ OwnersAre({c}) /\ Queue' = Queue
<1>1. ~locked
  BY WordsDistinct, HeadTailProperties
  DEF LockAcquire, Word, IInv, TypeOK
<1>2. /\ \A d \in Coros : ~Owns(d)
      /\ stack = <<>> /\ waiters_head = <<>> /\ taken = <<>>
  BY <1>1 DEF IInv, LockState
<1>3. /\ pc[c] = "cas" /\ pc' = [pc EXCEPT ![c] = "cs"]
      /\ locked' = TRUE
      /\ UNCHANGED <<stack, waiters_head, taken, route>>
  BY DEF LockAcquire, Goto
<1>4. Queue' = Queue
  BY <1>3 DEF Queue
<1>5. \A d \in Coros : Owns(d)' <=> d = c
  BY <1>2, <1>3 DEF Owns, IInv, TypeOK
<1>6. MutualExclusion'
  BY <1>5 DEF MutualExclusion
<1>7. LockState'
  BY <1>2, <1>3, <1>5 DEF LockState
<1>8. UnlockState'
  BY <1>3 DEF UnlockState, IInv, TypeOK
<1>9. WaiterState'
  BY <1>3, <1>4 DEF WaiterState, IInv, TypeOK
<1> QED BY <1>6, <1>7, <1>8, <1>9, <1>2, <1>4, <1>5 DEF IInv, OwnersAre

(* c joins Queue: it was in no chain, since it was not suspended. *)
LEMMA LockPushInv ==
  ASSUME IInv, NEW c \in Coros, LockPush(c), TypeOK'
  PROVE  IInv' /\ (\E d \in Coros : Owns(d)) /\ Queue' = Append(Queue, c)
                /\ \A d \in Coros : Owns(d)' <=> Owns(d)
<1>1. locked
  BY DEF LockPush, Word
<1>2. /\ pc[c] = "cas" /\ pc' = [pc EXCEPT ![c] = "suspended"]
      /\ stack' = Cons(c, stack)
      /\ UNCHANGED <<locked, waiters_head, taken, route>>
  BY DEF LockPush, Goto
<1>3. stack' # <<>>
  BY <1>2, ReverseCons DEF IInv, TypeOK
<1>4. /\ Queue' = Append(Queue, c) /\ Queue \in Seq(Coros)
  BY QueuePush, QueueType DEF IInv
<1>5. c \notin Range(Queue) /\ route[c] = "none"
  BY <1>2 DEF IInv, WaiterState
<1>6. \A d \in Coros : Owns(d)' <=> Owns(d)
  BY <1>2 DEF Owns, IInv, TypeOK
<1>7. MutualExclusion'
  BY <1>6 DEF MutualExclusion, IInv
<1>8. LockState'
  BY <1>1, <1>2, <1>6 DEF LockState, IInv, TypeOK
<1>9. UnlockState'
  BY <1>2, <1>3 DEF UnlockState, IInv, TypeOK
<1>10. WaiterState'
  <2>1. Range(Queue') = Range(Queue) \cup {c} /\ IsInjective(Queue')
    BY <1>4, <1>5, AppendFacts DEF IInv, WaiterState
  <2> QED BY <1>2, <1>5, <2>1 DEF WaiterState, IInv, TypeOK
<1> QED BY <1>7, <1>8, <1>9, <1>10, <1>1, <1>4, <1>6 DEF IInv, LockState

(* Facts shared by the steps of unlock(): the caller is the only owner. *)
LEMMA OnlyOwner ==
  ASSUME IInv, NEW c \in Coros, Owns(c)
  PROVE  /\ locked
         /\ \A d \in Coros \ {c} : ~Owns(d)
         /\ \A d \in Coros \ {c} :
              pc[d] \notin {"cs", "release", "retake", "reverse", "resume"}
         /\ pc[c] # "reverse" => taken = <<>>
         /\ Word = LOCKED_NO_WAITERS <=> stack = <<>>
<1>1. locked /\ \A d \in Coros \ {c} : ~Owns(d)
  BY DEF IInv, LockState, MutualExclusion
<1>2. \A d \in Coros \ {c} :
        pc[d] \notin {"cs", "release", "retake", "reverse", "resume"}
  BY <1>1 DEF Owns
<1>3. pc[c] # "reverse" => taken = <<>>
  BY <1>2 DEF IInv, LockState
<1>4. Word = LOCKED_NO_WAITERS <=> stack = <<>>
  BY <1>1, WordsDistinct, HeadTailProperties DEF Word, IInv, TypeOK
<1> QED BY <1>1, <1>2, <1>3, <1>4

LEMMA UnlockExchangeInv ==
  ASSUME IInv, NEW c \in Coros, UnlockExchange(c), TypeOK'
  PROVE  IInv' /\ Kept
<1>1. pc[c] = "cs" /\ Owns(c)
  BY DEF UnlockExchange, Goto, Owns
<1>2. /\ locked /\ taken = <<>>
      /\ \A d \in Coros \ {c} : ~Owns(d)
      /\ \A d \in Coros \ {c} :
           pc[d] \notin {"cs", "release", "retake", "reverse", "resume"}
      /\ Word = LOCKED_NO_WAITERS <=> stack = <<>>
  BY <1>1, OnlyOwner
<1>3. /\ waiters_head = <<>> /\ waiters_head' = <<>>
      /\ pc' = [pc EXCEPT ![c] = IF stack = <<>> THEN "release" ELSE "reverse"]
      /\ taken' = stack /\ stack' = <<>>
      /\ locked' = TRUE /\ route' = route
  BY <1>2 DEF UnlockExchange, Goto
<1>4. Queue' = Queue
  BY <1>2, <1>3, QueueTake DEF IInv
<1>5. \A d \in Coros : Owns(d)' <=> Owns(d)
  BY <1>1, <1>2, <1>3 DEF Owns, IInv, TypeOK
<1>6. MutualExclusion'
  BY <1>5 DEF MutualExclusion, IInv
<1>7. LockState'
  BY <1>1, <1>3, <1>5 DEF LockState, IInv, TypeOK
<1>8. UnlockState'
  BY <1>2, <1>3 DEF UnlockState, IInv, TypeOK
<1>9. WaiterState'
  BY <1>1, <1>3, <1>4 DEF WaiterState, IInv, TypeOK
<1> QED BY <1>6, <1>7, <1>8, <1>9, <1>4, <1>5 DEF IInv, Kept

(* The mutex becomes free with no request in any chain. *)
LEMMA UnlockReleaseInv ==
  ASSUME IInv, NEW c \in Coros, UnlockRelease(c), TypeOK'
  PROVE  IInv' /\ Owns(c) /\ OwnersAre({}) /\ Queue = <<>> /\ Queue' = Queue
<1>1. pc[c] = "release" /\ Owns(c)
  BY DEF UnlockRelease, Goto, Owns
<1>2. /\ taken = <<>> /\ stack = <<>>
      /\ \A d \in Coros \ {c} : ~Owns(d)
  BY <1>1, OnlyOwner DEF UnlockRelease
<1>3. waiters_head = <<>>
  BY <1>1 DEF IInv, UnlockState
<1>4. /\ pc' = [pc EXCEPT ![c] = "idle"]
      /\ locked' = FALSE
      /\ UNCHANGED <<stack, waiters_head, taken, route>>
  BY DEF UnlockRelease, Goto
<1>5. route[c] = "none"
  BY <1>1 DEF IInv, WaiterState
<1>6. Queue' = Queue
  BY <1>4 DEF Queue
<1>7. \A d \in Coros : ~Owns(d)'
  BY <1>2, <1>4, <1>5 DEF Owns, IInv, TypeOK
<1>8. MutualExclusion'
  BY <1>7 DEF MutualExclusion
<1>9. LockState'
  BY <1>2, <1>3, <1>4, <1>7 DEF LockState
<1>10. UnlockState'
  BY <1>4 DEF UnlockState, IInv, TypeOK
<1>11. WaiterState'
  BY <1>1, <1>4, <1>6 DEF WaiterState, IInv, TypeOK
<1>12. Queue = <<>>
  BY <1>2, <1>3, ReverseEmpty, ConcatEmptySeq, EmptySeq DEF Queue
<1> QED BY <1>8, <1>9, <1>10, <1>11, <1>1, <1>6, <1>7, <1>12 DEF IInv, OwnersAre

LEMMA UnlockReleaseFailsInv ==
  ASSUME IInv, NEW c \in Coros, UnlockReleaseFails(c), TypeOK'
  PROVE  IInv' /\ Kept
<1>1. pc[c] = "release" /\ Owns(c)
  BY DEF UnlockReleaseFails, Goto, Owns
<1>2. stack # <<>>
  BY <1>1, OnlyOwner DEF UnlockReleaseFails
<1>3. /\ pc' = [pc EXCEPT ![c] = "retake"]
      /\ UNCHANGED <<locked, stack, waiters_head, taken, route>>
  BY DEF UnlockReleaseFails, Goto
<1>4. Queue' = Queue
  BY <1>3 DEF Queue
<1>5. \A d \in Coros : Owns(d)' <=> Owns(d)
  BY <1>1, <1>3 DEF Owns, IInv, TypeOK
<1>6. MutualExclusion'
  BY <1>5 DEF MutualExclusion, IInv
<1>7. LockState'
  BY <1>1, <1>3, <1>5 DEF LockState, IInv, TypeOK
<1>8. UnlockState'
  BY <1>1, <1>2, <1>3 DEF UnlockState, IInv, TypeOK
<1>9. WaiterState'
  BY <1>1, <1>3, <1>4 DEF WaiterState, IInv, TypeOK
<1> QED BY <1>6, <1>7, <1>8, <1>9, <1>4, <1>5 DEF IInv, Kept

(* The second exchange finds the chain whose arrival made the CAS fail:    *)
(* only the owner ever removes from it.                                    *)
LEMMA UnlockExchangeAgainInv ==
  ASSUME IInv, NEW c \in Coros, UnlockExchangeAgain(c), TypeOK'
  PROVE  IInv' /\ Kept
<1>1. pc[c] = "retake" /\ Owns(c)
  BY DEF UnlockExchangeAgain, Goto, Owns
<1>2. \A d \in Coros \ {c} :
        pc[d] \notin {"cs", "release", "retake", "reverse", "resume"}
  BY <1>1, OnlyOwner
<1>3. waiters_head = <<>> /\ taken = <<>> /\ stack # <<>>
  BY <1>1 DEF IInv, UnlockState
<1>4. /\ pc' = [pc EXCEPT ![c] = "reverse"]
      /\ taken' = stack /\ stack' = <<>> /\ locked' = TRUE
      /\ UNCHANGED <<waiters_head, route>>
  BY DEF UnlockExchangeAgain, Goto
<1>5. Queue' = Queue
  BY <1>3, <1>4, QueueTake DEF IInv
<1>6. \A d \in Coros : Owns(d)' <=> Owns(d)
  BY <1>1, <1>4 DEF Owns, IInv, TypeOK
<1>7. MutualExclusion'
  BY <1>6 DEF MutualExclusion, IInv
<1>8. LockState'
  BY <1>1, <1>4, <1>6 DEF LockState, IInv, TypeOK
<1>9. UnlockState'
  BY <1>2, <1>3, <1>4 DEF UnlockState, IInv, TypeOK
<1>10. WaiterState'
  BY <1>1, <1>4, <1>5 DEF WaiterState, IInv, TypeOK
<1> QED BY <1>7, <1>8, <1>9, <1>10, <1>5, <1>6 DEF IInv, Kept

LEMMA UnlockReverseInv ==
  ASSUME IInv, NEW c \in Coros, UnlockReverse(c), TypeOK'
  PROVE  IInv' /\ Kept
<1>1. pc[c] = "reverse" /\ Owns(c)
  BY DEF UnlockReverse, Goto, Owns
<1>2. /\ locked
      /\ \A d \in Coros \ {c} :
           pc[d] \notin {"cs", "release", "retake", "reverse", "resume"}
  BY <1>1, OnlyOwner
<1>3. waiters_head = <<>> /\ taken # <<>>
  BY <1>1 DEF IInv, UnlockState
<1>4. /\ pc' = [pc EXCEPT ![c] = "resume"]
      /\ waiters_head' = Reverse(taken) /\ taken' = <<>>
      /\ UNCHANGED <<locked, stack, route>>
  BY DEF UnlockReverse, Goto
<1>5. Reverse(taken) # <<>>
  BY <1>3, ReverseType, EmptySeq DEF IInv, TypeOK
<1>6. Queue' = Queue
  BY <1>3, <1>4, QueueReverse DEF IInv
<1>7. \A d \in Coros : Owns(d)' <=> Owns(d)
  BY <1>1, <1>4 DEF Owns, IInv, TypeOK
<1>8. MutualExclusion'
  BY <1>7 DEF MutualExclusion, IInv
<1>9. LockState'
  BY <1>1, <1>2, <1>4, <1>7 DEF LockState
<1>10. UnlockState'
  BY <1>2, <1>4, <1>5 DEF UnlockState, IInv, TypeOK
<1>11. WaiterState'
  BY <1>1, <1>4, <1>6 DEF WaiterState, IInv, TypeOK
<1> QED BY <1>8, <1>9, <1>10, <1>11, <1>6, <1>7 DEF IInv, Kept

(* Ownership passes from c to the oldest waiter, which leaves Queue. *)
LEMMA UnlockResumeInv ==
  ASSUME IInv, NEW c \in Coros, UnlockResume(c), TypeOK'
  PROVE  IInv' /\ Owns(c) /\ OwnersAre({Head(Queue)}) /\ Head(Queue) \in Coros
                /\ Queue # <<>> /\ Queue' = Tail(Queue)
<1> DEFINE d == Head(waiters_head)
<1>1. pc[c] \in {"cs", "resume"} /\ Owns(c) /\ waiters_head # <<>>
  BY DEF UnlockResume, Owns
<1>2. /\ locked /\ taken = <<>>
      /\ \A e \in Coros \ {c} : ~Owns(e)
      /\ \A e \in Coros \ {c} :
           pc[e] \notin {"cs", "release", "retake", "reverse", "resume"}
  BY <1>1, OnlyOwner
<1>3. /\ Queue # <<>> /\ Queue \in Seq(Coros)
      /\ Head(Queue) = d /\ Queue' = Tail(Queue)
  BY QueueResume, QueueType DEF IInv
<1>4. /\ d \in Coros /\ d \in Range(Queue)
      /\ Range(Queue') = Range(Queue) \ {d} /\ IsInjective(Queue')
  BY <1>3, TailFacts DEF IInv, WaiterState
<1>5. pc[d] = "suspended" /\ route[d] = "none" /\ route[c] = "none" /\ d # c
  BY <1>1, <1>4 DEF IInv, WaiterState
<1>6. PICK r \in {"local", "ring", "dropped"} : route' = [route EXCEPT ![d] = r]
  BY DEF UnlockResume, RouteTo
<1>7. /\ pc' = [pc EXCEPT ![c] = "idle"]
      /\ waiters_head' = Tail(waiters_head)
      /\ UNCHANGED <<locked, stack, taken>>
  BY DEF UnlockResume
<1>8. \A e \in Coros : Owns(e)' <=> e = d
  <2> SUFFICES ASSUME NEW e \in Coros PROVE Owns(e)' <=> e = d
    OBVIOUS
  <2>1. CASE e = c  BY <1>4, <1>5, <1>6, <1>7, <2>1 DEF Owns, IInv, TypeOK
  <2>2. CASE e = d  BY <1>4, <1>6, <2>2 DEF Owns, IInv, TypeOK
  <2>3. CASE e # c /\ e # d
    BY <1>2, <1>4, <1>6, <1>7, <2>3 DEF Owns, IInv, TypeOK
  <2> QED BY <2>1, <2>2, <2>3
<1>9. MutualExclusion'
  BY <1>8 DEF MutualExclusion
<1>10. LockState'
  BY <1>2, <1>4, <1>7, <1>8 DEF LockState
<1>11. UnlockState'
  BY <1>2, <1>7 DEF UnlockState, IInv, TypeOK
<1>12. WaiterState'
  <2>1. ASSUME NEW e \in Coros
        PROVE  /\ pc'[e] = "suspended" <=> e \in Range(Queue') \/ route'[e] # "none"
               /\ ~(e \in Range(Queue') /\ route'[e] # "none")
    <3>1. CASE e = c
      BY <1>1, <1>4, <1>5, <1>6, <1>7, <3>1 DEF WaiterState, IInv, TypeOK
    <3>2. CASE e = d
      BY <1>4, <1>5, <1>6, <1>7, <3>2 DEF WaiterState, IInv, TypeOK
    <3>3. CASE e # c /\ e # d
      BY <1>4, <1>6, <1>7, <3>3 DEF WaiterState, IInv, TypeOK
    <3> QED BY <3>1, <3>2, <3>3
  <2> QED BY <1>4, <2>1 DEF WaiterState
<1> QED BY <1>9, <1>10, <1>11, <1>12, <1>1, <1>3, <1>4, <1>8 DEF IInv, OwnersAre

(* The message that carries the ownership moves; the ownership does not. *)
LEMMA PollInv ==
  ASSUME IInv, NEW c \in Coros, Poll(c), TypeOK'
  PROVE  IInv' /\ Kept
<1>1. /\ route[c] # "none" /\ route' = [route EXCEPT ![c] = "local"]
      /\ UNCHANGED <<locked, stack, waiters_head, taken, pc>>
  BY DEF Poll
<1>2. Queue' = Queue
  BY <1>1 DEF Queue
<1>3. \A d \in Coros : Owns(d)' <=> Owns(d)
  BY <1>1 DEF Owns, IInv, TypeOK
<1>4. MutualExclusion'
  BY <1>3 DEF MutualExclusion, IInv
<1>5. LockState'
  BY <1>1, <1>3 DEF LockState, IInv
<1>6. UnlockState'
  BY <1>1 DEF UnlockState, IInv
<1>7. WaiterState'
  BY <1>1, <1>2 DEF WaiterState, IInv, TypeOK
<1> QED BY <1>4, <1>5, <1>6, <1>7, <1>2, <1>3 DEF IInv, Kept

(* The owner on its way becomes the owner in its critical section. *)
LEMMA ResumeInv ==
  ASSUME IInv, NEW c \in Coros, Resume(c), TypeOK'
  PROVE  IInv' /\ Kept
<1>1. /\ route[c] # "none" /\ route' = [route EXCEPT ![c] = "none"]
      /\ pc' = [pc EXCEPT ![c] = "cs"]
      /\ UNCHANGED <<locked, stack, waiters_head, taken>>
  BY DEF Resume
<1>2. pc[c] = "suspended" /\ c \notin Range(Queue)
  BY <1>1 DEF IInv, WaiterState
<1>3. Queue' = Queue
  BY <1>1 DEF Queue
<1>4. \A d \in Coros : Owns(d)' <=> Owns(d)
  BY <1>1 DEF Owns, IInv, TypeOK
<1>5. MutualExclusion'
  BY <1>4 DEF MutualExclusion, IInv
<1>6. LockState'
  BY <1>1, <1>2, <1>4 DEF LockState, IInv, TypeOK
<1>7. UnlockState'
  BY <1>1 DEF UnlockState, IInv, TypeOK
<1>8. WaiterState'
  BY <1>1, <1>2, <1>3 DEF WaiterState, IInv, TypeOK
<1> QED BY <1>5, <1>6, <1>7, <1>8, <1>3, <1>4 DEF IInv, Kept

LEMMA InvStep == IInv /\ [Next]_vars => IInv'
<1> SUFFICES ASSUME IInv, [Next]_vars PROVE IInv'
  OBVIOUS
<1>1. TypeOK'
  BY TypeStep DEF IInv
<1>2. CASE Next
  <2>1. PICK c \in Coros : Lock(c) \/ Unlock(c) \/ Poll(c) \/ Resume(c)
    BY <1>2 DEF Next
  <2>2. CASE Lock(c)
    BY <1>1, <2>2, LockLoadInv, LockAcquireInv, LockPushInv DEF Lock
  <2>3. CASE Unlock(c)
    BY <1>1, <2>3, UnlockExchangeInv, UnlockReleaseInv, UnlockReleaseFailsInv,
       UnlockExchangeAgainInv, UnlockReverseInv, UnlockResumeInv DEF Unlock
  <2> QED BY <1>1, <2>1, <2>2, <2>3, PollInv, ResumeInv
<1>3. CASE UNCHANGED vars
  BY <1>3 DEF vars, IInv, TypeOK, MutualExclusion, LockState, UnlockState,
              WaiterState, Owns, Queue
<1> QED BY <1>2, <1>3

(* The invariant holds in every reachable state. *)
THEOREM Invariant == Spec => []IInv
  BY InitInv, InvStep, PTL DEF Spec

(* No two coroutines own a CoMutex at a time, whatever the number of       *)
(* coroutines, the schedulers they run on and the interleaving of their    *)
(* lock() and unlock() calls.                                              *)
THEOREM Exclusion == Spec => []MutualExclusion
<1>1. IInv => MutualExclusion
  BY DEF IInv
<1> QED BY <1>1, Invariant, PTL

(* No interleaving of lock() and unlock() forgets a suspended coroutine or *)
(* queues it twice.                                                        *)
THEOREM WaitersKept == Spec => []NoLostWaiter
<1>1. IInv => NoLostWaiter
  <2> SUFFICES ASSUME IInv PROVE NoLostWaiter
    OBVIOUS
  <2>1. ASSUME NEW c \in Coros
        PROVE  pc[c] = "suspended" <=> (c \in Range(Queue)) # (route[c] # "none")
    <3>1. CASE c \in Range(Queue)
      <4>1. (c \in Range(Queue)) = TRUE  BY <3>1
      <4>2. (route[c] # "none") = FALSE  BY <3>1 DEF IInv, WaiterState
      <4>3. pc[c] = "suspended"  BY <3>1 DEF IInv, WaiterState
      <4> QED BY <4>1, <4>2, <4>3
    <3>2. CASE c \notin Range(Queue)
      <4>1. (c \in Range(Queue)) = FALSE  BY <3>2
      <4>2. pc[c] = "suspended" <=> route[c] # "none"
        BY <3>2 DEF IInv, WaiterState
      <4> QED BY <4>1, <4>2
    <3> QED BY <3>1, <3>2
  <2> QED BY <2>1 DEF NoLostWaiter, IInv, WaiterState
<1> QED BY <1>1, Invariant, PTL

(* unlock() never uses UNLOCKED or LOCKED_NO_WAITERS as an Awaiter's       *)
(* address, though it does not test what its second exchange returned.     *)
THEOREM AddressesOnly == Spec => []TakesAChain
<1>1. IInv => TakesAChain
  BY DEF IInv, UnlockState, TakesAChain
<1> QED BY <1>1, Invariant, PTL
-----------------------------------------------------------------------------
(* The refinement: Holder is the owner the invariant makes unique. *)
LEMMA HolderIs ==
  ASSUME MutualExclusion
  PROVE  /\ \A c \in Coros : Owns(c) => Holder = c
         /\ (\A c \in Coros : ~Owns(c)) => Holder = NoCoro
         /\ \A c \in Coros : Holder = c => Owns(c)
  BY NoCoroIsNone DEF Holder, MutualExclusion

(* A step that moves nobody's ownership leaves Holder alone. *)
LEMMA HolderSame ==
  ASSUME \A c \in Coros : Owns(c)' <=> Owns(c)
  PROVE  Holder' = Holder
  BY DEF Holder

(* Every step of CoMutex is a step of the FIFO lock or none at all. *)
LEMMA RefinementStep ==
  IInv /\ IInv' /\ [Next]_vars => [Fifo!Next]_(Fifo!vars)
<1> SUFFICES ASSUME IInv, IInv', [Next]_vars
             PROVE  Fifo!Next \/ (Holder' = Holder /\ Queue' = Queue)
  BY DEF Fifo!vars
<1> USE DEF IInv
<1>k. ASSUME Kept PROVE Holder' = Holder /\ Queue' = Queue
  BY <1>k, HolderSame DEF Kept
<1>h. /\ \A c \in Coros : Owns(c)' => Holder' = c
      /\ (\A c \in Coros : ~Owns(c)') => Holder' = NoCoro
  BY NoCoroIsNone DEF Holder, MutualExclusion
<1>t. TypeOK'
  OBVIOUS
<1>1. ASSUME NEW c \in Coros, Lock(c)
      PROVE  Fifo!Next \/ (Holder' = Holder /\ Queue' = Queue)
  <2>1. CASE LockLoad(c) \/ LockRetry(c)
    BY <2>1, <1>t, <1>k, LockLoadInv
  <2>2. CASE LockAcquire(c)
    <3>1. /\ \A d \in Coros : ~Owns(d)
          /\ OwnersAre({c}) /\ Queue' = Queue
      BY <2>2, <1>t, LockAcquireInv
    <3>2. Holder = NoCoro /\ Holder' = c
      BY <3>1, <1>h, HolderIs DEF OwnersAre
    <3> QED BY <3>1, <3>2 DEF Fifo!Next, Fifo!Acquire
  <2>3. CASE LockPush(c)
    <3>1. /\ \E d \in Coros : Owns(d)
          /\ Queue' = Append(Queue, c)
          /\ \A d \in Coros : Owns(d)' <=> Owns(d)
      BY <2>3, <1>t, LockPushInv
    <3>2. Holder # NoCoro /\ Holder' = Holder
      BY <3>1, HolderIs, HolderSame, NoCoroIsNone
    <3> QED BY <3>1, <3>2 DEF Fifo!Next, Fifo!Enqueue
  <2> QED BY <1>1, <2>1, <2>2, <2>3 DEF Lock
<1>2. ASSUME NEW c \in Coros, Unlock(c)
      PROVE  Fifo!Next \/ (Holder' = Holder /\ Queue' = Queue)
  <2>1. CASE UnlockRelease(c)
    <3>1. Owns(c) /\ OwnersAre({}) /\ Queue = <<>> /\ Queue' = Queue
      BY <2>1, <1>t, UnlockReleaseInv
    <3>2. Holder # NoCoro /\ Holder' = NoCoro
      BY <3>1, <1>h, HolderIs, NoCoroIsNone DEF OwnersAre
    <3> QED BY <3>1, <3>2 DEF Fifo!Next, Fifo!Release
  <2>2. CASE UnlockResume(c)
    <3>1. /\ Owns(c) /\ OwnersAre({Head(Queue)}) /\ Head(Queue) \in Coros
          /\ Queue # <<>> /\ Queue' = Tail(Queue)
      BY <2>2, <1>t, UnlockResumeInv
    <3>2. Holder # NoCoro /\ Holder' = Head(Queue)
      BY <3>1, <1>h, HolderIs, NoCoroIsNone DEF OwnersAre
    <3> QED BY <3>1, <3>2 DEF Fifo!Next, Fifo!HandOff
  <2>3. CASE \/ UnlockExchange(c) \/ UnlockReleaseFails(c)
             \/ UnlockExchangeAgain(c) \/ UnlockReverse(c)
    BY <2>3, <1>t, <1>k, UnlockExchangeInv, UnlockReleaseFailsInv,
       UnlockExchangeAgainInv, UnlockReverseInv
  <2> QED BY <1>2, <2>1, <2>2, <2>3 DEF Unlock
<1>3. ASSUME NEW c \in Coros, Poll(c) \/ Resume(c)
      PROVE  Fifo!Next \/ (Holder' = Holder /\ Queue' = Queue)
  BY <1>3, <1>t, <1>k, PollInv, ResumeInv
<1>4. CASE UNCHANGED vars
  BY <1>4, <1>k DEF vars, Kept, Owns, Queue
<1> QED BY <1>1, <1>2, <1>3, <1>4 DEF Next

(* CoMutex implements a FIFO lock with direct hand-over: a request never   *)
(* overtakes a suspended one, and the mutex is never free while one waits. *)
THEOREM Refinement == Spec => ImplementsFifoLock
<1>1. Init => Fifo!Init
  BY HolderIs, InitInv, ReverseEmpty, ConcatEmptySeq, EmptySeq
  DEF Init, Fifo!Init, IInv, Queue, Owns
<1>2. IInv /\ IInv' /\ [Next]_vars => [Fifo!Next]_(Fifo!vars)
  BY RefinementStep
<1> QED BY <1>1, <1>2, Invariant, PTL DEF Spec, ImplementsFifoLock, Fifo!Spec
=============================================================================
