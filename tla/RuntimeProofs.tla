--------------------------- MODULE RuntimeProofs ----------------------------
(***************************************************************************)
(* Proofs about Runtime, for any number of schedulers, of threads outside  *)
(* the runtime and of coroutines, and for queues of any capacity.          *)
(***************************************************************************)
EXTENDS Runtime, SequenceTheorems, FiniteSetTheorems, TLAPS

(* run() resumes the coroutines of a batch that try_dequeue_batch() filled *)
(* and leaves the loop over it with the last one: what Head(batch) needs.  *)
BatchState == \A s \in Scheds : pc[s] = "run" => batch[s] # <<>>

TypeInv == TypeOK /\ BatchState

(* The message that wakes s is out of the hands of the thread that sends   *)
(* it: in a submission queue, or in the completion queue of s.             *)
Announced(s) == \/ cq[s] # {}
                \/ \E t \in Scheds : \E m \in sq[t] : m[1] = s

(* No thread is in a dispatch_on() whose push is late: it has met a        *)
(* scheduler without a ring.                                               *)
NoLatePush == \A t \in Threads : call[t] # None => call[t].at = "fd"

(* The invariant of a runtime whose rings are all set up. *)
IInv == /\ TypeInv
        /\ initialized = Scheds
        /\ NoLatePush
        /\ NoLostWakeup
-----------------------------------------------------------------------------
(* LocalQueue::push() makes the queue longer by one and puts nothing but   *)
(* the coroutine it is given in it.                                        *)
LEMMA LocalPushType ==
  ASSUME NEW q \in Seq(Coros), NEW c \in Coros
  PROVE  LocalPush(q, c) \in Seq(Coros)
<1>1. Len(q) \in Nat /\ \A i \in 1..Len(q) : q[i] \in Coros
  OBVIOUS
<1>2. \A i \in 1..Len(q) + 1 :
        (IF (Len(q) + 1 - i) % LocalCapacity = 0 THEN c ELSE q[i]) \in Coros
  <2> TAKE i \in 1..Len(q) + 1
  <2>1. CASE i = Len(q) + 1
    <3>1. Len(q) + 1 - i = 0
      BY <1>1, <2>1
    <3>2. 0 % LocalCapacity = 0
      BY Setup
    <3> QED BY <3>1, <3>2
  <2>2. CASE i # Len(q) + 1
    BY <1>1, <2>2
  <2> QED BY <2>1, <2>2
<1>3. Len(q) + 1 \in Nat
  BY <1>1
<1>4. [i \in 1..Len(q) + 1 |->
         IF (Len(q) + 1 - i) % LocalCapacity = 0 THEN c ELSE q[i]] \in Seq(Coros)
  BY <1>2, <1>3, IsASeq
<1> QED BY <1>4 DEF LocalPush

(* schedule() keeps the types of runnext_ and of the local queue. *)
LEMMA ScheduleType ==
  ASSUME TypeOK, NEW s \in Scheds, NEW c \in Coros, Schedule(s, c)
  PROVE  /\ runnext' \in [Scheds -> Coros \cup {None}]
         /\ local' \in [Scheds -> Seq(Coros)]
<1>1. local[s] \in Seq(Coros)
  BY DEF TypeOK
<1>2. LocalPush(local[s], c) \in Seq(Coros)
  BY <1>1, LocalPushType
<1> HIDE DEF LocalPush
<1> QED BY <1>2 DEF TypeOK, Schedule

LEMMA DeliveredType ==
  ASSUME TypeOK, NEW s \in Scheds
  PROVE  Delivered(s) \in [Scheds -> SUBSET (Coros \cup {TAG_INBOX})]
<1>1. \A m \in sq[s] : m[2] \in Coros \cup {TAG_INBOX}
  BY DEF TypeOK
<1>2. \A u \in Scheds : cq[u] \subseteq Coros \cup {TAG_INBOX}
  BY DEF TypeOK
<1> QED BY <1>1, <1>2 DEF Delivered

LEMMA NotifyType ==
  ASSUME TypeOK, NEW t \in Threads, NEW s \in Scheds, NEW msg \in Coros \cup {TAG_INBOX},
         NotifyTargetRing(t, s, msg)
  PROVE  /\ sq' \in [Scheds -> SUBSET (Scheds \X (Coros \cup {TAG_INBOX}))]
         /\ cq' \in [Scheds -> SUBSET (Coros \cup {TAG_INBOX})]
<1>1. CASE /\ t \in Scheds
           /\ sq' = [sq EXCEPT ![t] = @ \cup {<<s, msg>>}]
           /\ UNCHANGED cq
  BY <1>1 DEF TypeOK
<1>2. CASE /\ t \in Scheds
           /\ cq' = Delivered(t)
           /\ sq' = [sq EXCEPT ![t] = {<<s, msg>>}]
  <2>1. cq' \in [Scheds -> SUBSET (Coros \cup {TAG_INBOX})]
    BY <1>2, DeliveredType
  <2>2. {<<s, msg>>} \in SUBSET (Scheds \X (Coros \cup {TAG_INBOX}))
    OBVIOUS
  <2>3. sq' \in [Scheds -> SUBSET (Scheds \X (Coros \cup {TAG_INBOX}))]
    BY <1>2, <2>2 DEF TypeOK
  <2> QED BY <2>1, <2>3
<1>3. CASE /\ t \in Externals
           /\ cq' = [cq EXCEPT ![s] = @ \cup {msg}]
           /\ UNCHANGED sq
  BY <1>3 DEF TypeOK
<1> QED BY <1>1, <1>2, <1>3 DEF NotifyTargetRing

LEMMA PushInboxType ==
  ASSUME TypeOK, NEW t \in Threads, NEW s \in Scheds, NEW task \in Coros \cup {NoOp},
         NEW next \in Calls \cup {None}, PushInbox(t, s, task, next)
  PROVE  /\ inbox' \in [Scheds -> Seq(Coros \cup {NoOp})]
         /\ call' \in [Threads -> Calls \cup {None}]
         /\ asleep' \subseteq Coros /\ refused' \subseteq Coros
<1>1. Append(inbox[s], task) \in Seq(Coros \cup {NoOp})
  BY DEF TypeOK
<1>2. inbox' \in [Scheds -> Seq(Coros \cup {NoOp})]
  BY <1>1 DEF PushInbox, TypeOK
<1>3. call' \in [Threads -> Calls \cup {None}]
  BY DEF PushInbox, TypeOK
<1>4. asleep' \subseteq Coros /\ refused' \subseteq Coros
  BY DEF PushInbox, TypeOK
<1> QED BY <1>2, <1>3, <1>4

LEMMA DispatchOnType ==
  ASSUME TypeOK, NEW t \in Threads, NEW s \in Scheds, NEW task \in Coros \cup {NoOp},
         DispatchOn(t, s, task)
  PROVE  /\ inbox' \in [Scheds -> Seq(Coros \cup {NoOp})]
         /\ call' \in [Threads -> Calls \cup {None}]
         /\ asleep' \subseteq Coros /\ refused' \subseteq Coros
<1>1. /\ [at |-> "fd", dest |-> s] \in Calls
      /\ [at |-> "late push", dest |-> s, task |-> task] \in Calls
  BY DEF Calls
<1>2. CASE PushInbox(t, s, task, [at |-> "fd", dest |-> s])
  BY <1>1, <1>2, PushInboxType
<1>3. CASE /\ call' = [call EXCEPT ![t] = [at |-> "late push", dest |-> s, task |-> task]]
           /\ asleep' = asleep \ {task}
           /\ UNCHANGED <<inbox, refused>>
  BY <1>1, <1>3 DEF TypeOK
<1> QED BY <1>2, <1>3 DEF DispatchOn
-----------------------------------------------------------------------------
LEMMA InitTypeInv == Init => TypeInv
<1> SUFFICES ASSUME Init PROVE TypeInv
  OBVIOUS
<1>1. TypeOK
  BY Setup, EmptySeq DEF Init, TypeOK, PCs
<1>2. BatchState
  BY DEF Init, BatchState
<1> QED BY <1>1, <1>2 DEF TypeInv

(* The steps of a scheduler's loop keep the types. *)
LEMMA RunType ==
  ASSUME TypeInv, NEW s \in Scheds, Run(s)
  PROVE  TypeInv'
<1>0. TypeOK /\ BatchState
  BY DEF TypeInv
<1>1. CASE Boot(s)
  <2>1. TypeOK'
    BY <1>0, <1>1 DEF Boot, Goto, TypeOK, PCs, queues, rings
  <2>2. BatchState'
    BY <1>0, <1>1 DEF Boot, Goto, TypeOK, BatchState
  <2> QED BY <2>1, <2>2 DEF TypeInv
<1>2. CASE CheckRunning(s)
  <2>1. TypeOK'
    BY <1>0, <1>2 DEF CheckRunning, Goto, TypeOK, PCs, queues, rings
  <2>2. BatchState'
    BY <1>0, <1>2 DEF CheckRunning, Goto, TypeOK, BatchState
  <2> QED BY <2>1, <2>2 DEF TypeInv
<1>3. CASE ProcessInbox(s)
  <2>1. inbox[s] \in Seq(Coros \cup {NoOp}) /\ inbox[s] # <<>>
    BY <1>0, <1>3 DEF ProcessInbox, TypeOK
  <2>2. Tail(inbox[s]) \in Seq(Coros \cup {NoOp}) /\ Head(inbox[s]) \in Coros \cup {NoOp}
    BY <2>1, HeadTailProperties
  <2>3. /\ runnext' \in [Scheds -> Coros \cup {None}]
        /\ local' \in [Scheds -> Seq(Coros)]
    <3>1. CASE Head(inbox[s]) = NoOp
      BY <1>0, <1>3, <3>1 DEF ProcessInbox, TypeOK
    <3>2. CASE Head(inbox[s]) # NoOp
      <4>1. Head(inbox[s]) \in Coros /\ Schedule(s, Head(inbox[s]))
        BY <1>3, <2>2, <3>2 DEF ProcessInbox
      <4> QED BY <1>0, <4>1, ScheduleType
    <3> QED BY <3>1, <3>2
  <2>4. inbox' \in [Scheds -> Seq(Coros \cup {NoOp})]
    BY <1>0, <1>3, <2>2 DEF ProcessInbox, TypeOK
  <2>5. UNCHANGED <<running, pc, initialized, batch, sq, cq, call, asleep, refused, tostop>>
    BY <1>3 DEF ProcessInbox, loop, rings
  <2> QED BY <1>0, <2>3, <2>4, <2>5 DEF TypeInv, TypeOK, BatchState
<1>4. CASE InboxEmpty(s)
  <2>1. TypeOK'
    BY <1>0, <1>4 DEF InboxEmpty, Goto, TypeOK, PCs, queues, rings
  <2>2. BatchState'
    BY <1>0, <1>4 DEF InboxEmpty, Goto, TypeOK, BatchState
  <2> QED BY <2>1, <2>2 DEF TypeInv
<1>5. CASE DequeueBatch(s)
  <2> DEFINE first == IF runnext[s] = None THEN <<>> ELSE <<runnext[s]>>
             room  == BATCH_PIPELINE_DEPTH - Len(first)
             n     == IF Len(local[s]) < room THEN Len(local[s]) ELSE room
             got   == first \o SubSeq(local[s], 1, n)
             rest  == SubSeq(local[s], n + 1, Len(local[s]))
  <2>1. local[s] \in Seq(Coros) /\ Len(local[s]) \in Nat
    BY <1>0 DEF TypeOK
  <2>2. first \in Seq(Coros) /\ Len(first) \in {0, 1}
    BY <1>0 DEF TypeOK
  <2>3. n \in Nat /\ n <= Len(local[s])
    BY <2>1, <2>2, Setup
  <2>4. /\ pc' = [pc EXCEPT ![s] = IF got = <<>> THEN "submit" ELSE "run"]
        /\ batch' = [batch EXCEPT ![s] = got]
        /\ runnext' = [runnext EXCEPT ![s] = None]
        /\ local' = [local EXCEPT ![s] = rest]
        /\ UNCHANGED <<running, initialized, inbox, sq, cq, call, asleep, refused, tostop>>
    BY <1>5 DEF DequeueBatch, Goto, rings
  <2> HIDE DEF first, n
  <2>5. SubSeq(local[s], 1, n) \in Seq(Coros) /\ rest \in Seq(Coros)
    BY <2>1, <2>3
  <2>6. got \in Seq(Coros)
    BY <2>2, <2>5
  <2> HIDE DEF got, rest
  <2>7. TypeOK'
    BY <1>0, <2>4, <2>5, <2>6 DEF TypeOK, PCs
  <2>8. BatchState'
    BY <1>0, <2>4 DEF TypeOK, BatchState
  <2> QED BY <2>7, <2>8 DEF TypeInv
<1>6. CASE CoroutineSuspends(s)
  <2>1. batch[s] \in Seq(Coros) /\ batch[s] # <<>>
    BY <1>0, <1>6 DEF CoroutineSuspends, Goto, TypeOK, BatchState
  <2>2. /\ Head(batch[s]) \in Coros
        /\ Tail(batch[s]) \in Seq(Coros)
        /\ Len(batch[s]) # 1 => Tail(batch[s]) # <<>>
    <3>1. /\ Head(batch[s]) \in Coros /\ Tail(batch[s]) \in Seq(Coros)
          /\ Len(Tail(batch[s])) = Len(batch[s]) - 1 /\ Len(batch[s]) \in Nat
      BY <2>1, HeadTailProperties, LenProperties
    <3>2. Tail(batch[s]) = <<>> => Len(Tail(batch[s])) = 0
      BY <3>1, EmptySeq
    <3> QED BY <3>1, <3>2
  <2>3. TypeOK'
    BY <1>0, <1>6, <2>2 DEF CoroutineSuspends, Goto, TypeOK, PCs, queues, rings
  <2>4. BatchState'
    BY <1>0, <1>6, <2>2 DEF CoroutineSuspends, Goto, TypeOK, BatchState
  <2> QED BY <2>3, <2>4 DEF TypeInv
<1>7. CASE Submit(s)
  <2>1. cq' \in [Scheds -> SUBSET (Coros \cup {TAG_INBOX})]
    BY <1>0, <1>7, DeliveredType DEF Submit
  <2>2. TypeOK'
    BY <1>0, <1>7, <2>1 DEF Submit, Goto, TypeOK, PCs, queues
  <2>3. BatchState'
    BY <1>0, <1>7 DEF Submit, Goto, TypeOK, BatchState
  <2> QED BY <2>2, <2>3 DEF TypeInv
<1>8. CASE WakeUp(s)
  <2>1. TypeOK'
    BY <1>0, <1>8 DEF WakeUp, Goto, TypeOK, PCs, queues, rings
  <2>2. BatchState'
    BY <1>0, <1>8 DEF WakeUp, Goto, TypeOK, BatchState
  <2> QED BY <2>1, <2>2 DEF TypeInv
<1>9. CASE PollOne(s)
  <2>1. PICK m \in cq[s] :
          /\ cq' = [cq EXCEPT ![s] = @ \ {m}]
          /\ \/ /\ m = TAG_INBOX
                /\ pc' = [pc EXCEPT ![s] = "drain"]
                /\ UNCHANGED <<runnext, local>>
             \/ /\ m # TAG_INBOX
                /\ Schedule(s, m)
                /\ UNCHANGED pc
    BY <1>9 DEF PollOne
  <2>2. UNCHANGED <<running, initialized, batch, inbox, sq, call, asleep, refused, tostop>>
    BY <1>9 DEF PollOne
  <2>3. m \in Coros \cup {TAG_INBOX}
    BY <1>0, <2>1 DEF TypeOK
  <2>4. cq' \in [Scheds -> SUBSET (Coros \cup {TAG_INBOX})]
    BY <1>0, <2>1 DEF TypeOK
  <2>5. CASE m = TAG_INBOX
    <3>1. pc' = [pc EXCEPT ![s] = "drain"] /\ UNCHANGED <<runnext, local>>
      BY <2>1, <2>5
    <3> QED BY <1>0, <2>2, <2>4, <3>1 DEF TypeInv, TypeOK, PCs, BatchState
  <2>6. CASE m # TAG_INBOX
    <3>1. Schedule(s, m) /\ pc' = pc /\ m \in Coros
      BY <2>1, <2>3, <2>6
    <3>2. /\ runnext' \in [Scheds -> Coros \cup {None}]
          /\ local' \in [Scheds -> Seq(Coros)]
      BY <1>0, <3>1, ScheduleType
    <3> QED BY <1>0, <2>2, <2>4, <3>1, <3>2 DEF TypeInv, TypeOK, BatchState
  <2> QED BY <2>5, <2>6
<1>10. CASE PollDone(s)
  <2>1. TypeOK'
    BY <1>0, <1>10 DEF PollDone, Goto, TypeOK, PCs, queues, rings
  <2>2. BatchState'
    BY <1>0, <1>10 DEF PollDone, Goto, TypeOK, BatchState
  <2> QED BY <2>1, <2>2 DEF TypeInv
<1> QED BY <1>1, <1>2, <1>3, <1>4, <1>5, <1>6, <1>7, <1>8, <1>9, <1>10 DEF Run

(* So do wake-ups, dispatch_on() and stop(). *)
LEMMA CallType ==
  ASSUME TypeInv,
         \/ \E s \in Scheds : StopDispatch(s) \/ \E c \in Coros : WakeLocal(s, c)
         \/ \E t \in Threads : \/ InDispatch(t)
                               \/ \E c \in Coros : WakeByRing(t, c) \/ Dispatch(t, c)
         \/ StopFlag
  PROVE  TypeInv'
<1>0. TypeOK /\ BatchState
  BY DEF TypeInv
<1>1. ASSUME NEW s \in Scheds, StopDispatch(s) PROVE TypeInv'
  <2>1. Main \in Threads /\ NoOp \in Coros \cup {NoOp} /\ DispatchOn(Main, s, NoOp)
    BY <1>1, Setup DEF StopDispatch, Threads
  <2>2. /\ inbox' \in [Scheds -> Seq(Coros \cup {NoOp})]
        /\ call' \in [Threads -> Calls \cup {None}]
        /\ asleep' \subseteq Coros /\ refused' \subseteq Coros
    BY <1>0, <2>1, DispatchOnType
  <2>3. /\ UNCHANGED <<running, pc, initialized, batch, runnext, local, sq, cq>>
        /\ tostop' = tostop \ {s}
    BY <1>1 DEF StopDispatch, loop, rings
  <2> QED BY <1>0, <2>2, <2>3 DEF TypeInv, TypeOK, BatchState
<1>2. ASSUME NEW s \in Scheds, NEW c \in Coros, WakeLocal(s, c) PROVE TypeInv'
  <2>1. /\ runnext' \in [Scheds -> Coros \cup {None}]
        /\ local' \in [Scheds -> Seq(Coros)]
    BY <1>0, <1>2, ScheduleType DEF WakeLocal
  <2>2. /\ UNCHANGED <<running, pc, initialized, batch, inbox, sq, cq, call, refused, tostop>>
        /\ asleep' = asleep \ {c}
    BY <1>2 DEF WakeLocal, loop, rings
  <2> QED BY <1>0, <2>1, <2>2 DEF TypeInv, TypeOK, BatchState
<1>3. ASSUME NEW t \in Threads, DispatchLatePush(t) PROVE TypeInv'
  <2>1. call[t] \in Calls /\ call[t].at = "late push"
    BY <1>0, <1>3 DEF DispatchLatePush, TypeOK
  <2>2. call[t].dest \in Scheds /\ call[t].task \in Coros \cup {NoOp}
    BY <2>1 DEF Calls
  <2>3. /\ inbox' \in [Scheds -> Seq(Coros \cup {NoOp})]
        /\ call' \in [Threads -> Calls \cup {None}]
        /\ asleep' \subseteq Coros /\ refused' \subseteq Coros
    BY <1>0, <1>3, <2>2, PushInboxType DEF DispatchLatePush
  <2>4. UNCHANGED <<running, pc, initialized, batch, runnext, local, sq, cq, tostop>>
    BY <1>3 DEF DispatchLatePush, loop, rings
  <2> QED BY <1>0, <2>3, <2>4 DEF TypeInv, TypeOK, BatchState
<1>4. ASSUME NEW t \in Threads, DispatchNotify(t) PROVE TypeInv'
  <2>1. call[t] \in Calls
    BY <1>0, <1>4 DEF DispatchNotify, TypeOK
  <2>2. call[t].dest \in Scheds
    BY <2>1 DEF Calls
  <2>3. /\ sq' \in [Scheds -> SUBSET (Scheds \X (Coros \cup {TAG_INBOX}))]
        /\ cq' \in [Scheds -> SUBSET (Coros \cup {TAG_INBOX})]
    <3>1. CASE call[t].dest \in initialized
      <4>1. NotifyTargetRing(t, call[t].dest, TAG_INBOX)
        BY <1>4, <3>1 DEF DispatchNotify
      <4> QED BY <1>0, <2>2, <4>1, NotifyType
    <3>2. CASE call[t].dest \notin initialized
      <4>1. UNCHANGED <<sq, cq>>
        BY <1>4, <3>2 DEF DispatchNotify, rings
      <4> QED BY <1>0, <4>1 DEF TypeOK
    <3> QED BY <3>1, <3>2
  <2>4. /\ UNCHANGED <<running, pc, initialized, batch, inbox, runnext, local, asleep, refused, tostop>>
        /\ call' = [call EXCEPT ![t] = None]
    BY <1>4 DEF DispatchNotify, loop, queues
  <2> QED BY <1>0, <2>3, <2>4 DEF TypeInv, TypeOK, BatchState
<1>5. ASSUME NEW t \in Threads, NEW c \in Coros, WakeByRing(t, c) PROVE TypeInv'
  <2>1. HomeOf[c] \in Scheds
    BY Setup
  <2>2. /\ sq' \in [Scheds -> SUBSET (Scheds \X (Coros \cup {TAG_INBOX}))]
        /\ cq' \in [Scheds -> SUBSET (Coros \cup {TAG_INBOX})]
    BY <1>0, <1>5, <2>1, NotifyType DEF WakeByRing
  <2>3. /\ UNCHANGED <<running, pc, initialized, batch, inbox, runnext, local, call, refused, tostop>>
        /\ asleep' = asleep \ {c}
    BY <1>5 DEF WakeByRing, loop, queues
  <2> QED BY <1>0, <2>2, <2>3 DEF TypeInv, TypeOK, BatchState
<1>6. ASSUME NEW t \in Threads, NEW c \in Coros, Dispatch(t, c) PROVE TypeInv'
  <2>1. HomeOf[c] \in Scheds
    BY Setup
  <2>2. /\ inbox' \in [Scheds -> Seq(Coros \cup {NoOp})]
        /\ call' \in [Threads -> Calls \cup {None}]
        /\ asleep' \subseteq Coros /\ refused' \subseteq Coros
    BY <1>0, <1>6, <2>1, DispatchOnType DEF Dispatch
  <2>3. UNCHANGED <<running, pc, initialized, batch, runnext, local, sq, cq, tostop>>
    BY <1>6 DEF Dispatch, loop, rings
  <2> QED BY <1>0, <2>2, <2>3 DEF TypeInv, TypeOK, BatchState
<1>7. CASE StopFlag
  BY <1>0, <1>7 DEF StopFlag, loop, queues, rings, TypeInv, TypeOK, BatchState
<1> QED BY <1>1, <1>2, <1>3, <1>4, <1>5, <1>6, <1>7 DEF InDispatch

LEMMA TypeStep == TypeInv /\ [Next]_vars => TypeInv'
<1> SUFFICES ASSUME TypeInv, [Next]_vars PROVE TypeInv'
  OBVIOUS
<1>1. CASE UNCHANGED vars
  BY <1>1 DEF vars, loop, queues, rings, TypeInv, TypeOK, BatchState
<1>2. CASE Next
  BY <1>2, RunType, CallType DEF Next
<1> QED BY <1>1, <1>2

(* The variables of the runtime keep their types.  This takes more than    *)
(* TypeOK: that a scheduler in its loop over a batch has a coroutine left  *)
(* to resume.                                                              *)
THEOREM TypeCorrect == Spec => []TypeOK
<1>1. TypeInv => TypeOK
  BY DEF TypeInv
<1> QED BY <1>1, InitTypeInv, TypeStep, PTL DEF Spec
-----------------------------------------------------------------------------
(* A request leaves a submission queue only for the completion queue it is *)
(* addressed to: submitting loses no announcement...                       *)
LEMMA DeliveredKeeps ==
  ASSUME TypeOK, NEW t \in Scheds, NEW u \in Scheds, Announced(u),
         cq' = Delivered(t),
         \A v \in Scheds \ {t} : sq'[v] = sq[v]
  PROVE  Announced(u)'
<1>1. cq'[u] = cq[u] \cup {m[2] : m \in {x \in sq[t] : x[1] = u}}
  BY DEF Delivered
<1>2. CASE cq[u] # {}
  BY <1>1, <1>2 DEF Announced
<1>3. ASSUME NEW v \in Scheds, NEW m \in sq[v], m[1] = u PROVE Announced(u)'
  <2>1. CASE v = t
    <3>1. m[2] \in cq'[u]
      BY <1>1, <1>3, <2>1
    <3> QED BY <3>1 DEF Announced
  <2>2. CASE v # t
    BY <1>3, <2>2 DEF Announced
  <2> QED BY <2>1, <2>2
<1> QED BY <1>2, <1>3 DEF Announced

(* ... and notify_target_ring() adds one for its target, whether it finds  *)
(* room in the submission queue, makes room, or uses a ring of its own.    *)
LEMMA NotifyKeeps ==
  ASSUME TypeOK, NEW t \in Threads, NEW s \in Scheds, NEW msg,
         NotifyTargetRing(t, s, msg)
  PROVE  /\ Announced(s)'
         /\ \A u \in Scheds : Announced(u) => Announced(u)'
<1>1. CASE /\ t \in Scheds
           /\ sq' = [sq EXCEPT ![t] = @ \cup {<<s, msg>>}]
           /\ UNCHANGED cq
  <2>1. <<s, msg>> \in sq'[t] /\ \A v \in Scheds : sq[v] \subseteq sq'[v]
    BY <1>1 DEF TypeOK
  <2>2. Announced(s)'
    BY <1>1, <2>1 DEF Announced
  <2>3. \A u \in Scheds : Announced(u) => Announced(u)'
    BY <1>1, <2>1 DEF Announced
  <2> QED BY <2>2, <2>3
<1>2. CASE /\ t \in Scheds
           /\ cq' = Delivered(t)
           /\ sq' = [sq EXCEPT ![t] = {<<s, msg>>}]
  <2>1. <<s, msg>> \in sq'[t] /\ \A v \in Scheds \ {t} : sq'[v] = sq[v]
    BY <1>2 DEF TypeOK
  <2>2. Announced(s)'
    BY <1>2, <2>1 DEF Announced
  <2>3. \A u \in Scheds : Announced(u) => Announced(u)'
    BY <1>2, <2>1, DeliveredKeeps
  <2> QED BY <2>2, <2>3
<1>3. CASE /\ t \in Externals
           /\ cq' = [cq EXCEPT ![s] = @ \cup {msg}]
           /\ UNCHANGED sq
  <2>1. msg \in cq'[s] /\ \A u \in Scheds : cq[u] \subseteq cq'[u]
    BY <1>3 DEF TypeOK
  <2>2. Announced(s)'
    BY <2>1 DEF Announced
  <2>3. \A u \in Scheds : Announced(u) => Announced(u)'
    BY <1>3, <2>1 DEF Announced
  <2> QED BY <2>2, <2>3
<1> QED BY <1>1, <1>2, <1>3 DEF NotifyTargetRing

LEMMA UnderWay ==
  ASSUME NEW s \in Scheds
  PROVE  WakeupUnderWay(s) <=>
           Announced(s) \/ \E t \in Threads : call[t] = [at |-> "fd", dest |-> s]
  BY DEF WakeupUnderWay, Announced

(* Before the wait a scheduler has looked at its inbox.  A step that puts  *)
(* nothing in an inbox and takes no announcement away cannot make it miss  *)
(* one, unless it moves a scheduler to the wait.                           *)
Watching(s) == pc[s] \in {"dequeue", "submit", "wait"} /\ inbox[s] # <<>>

LEMMA StillUnderWay ==
  ASSUME NoLostWakeup,
         \A s \in Scheds : Watching(s)' => Watching(s),
         \A s \in Scheds : Announced(s) => Announced(s)',
         UNCHANGED call
  PROVE  NoLostWakeup'
<1> SUFFICES ASSUME NEW s \in Scheds, Watching(s)' PROVE WakeupUnderWay(s)'
  BY DEF NoLostWakeup, Watching
<1>1. WakeupUnderWay(s)
  BY DEF NoLostWakeup, Watching
<1>2. CASE Announced(s)
  BY <1>2 DEF WakeupUnderWay, Announced
<1>3. CASE \E t \in Threads : call[t] = [at |-> "fd", dest |-> s]
  BY <1>3 DEF WakeupUnderWay
<1> QED BY <1>1, <1>2, <1>3, UnderWay

(* dispatch_on() to a scheduler with a ring: the push is followed by the   *)
(* look at ring_fd(), from which the message follows.                      *)
LEMMA DispatchOnKeeps ==
  ASSUME IInv, NEW t \in Threads, NEW s \in Scheds, NEW task,
         call[t] = None, DispatchOn(t, s, task), UNCHANGED <<pc, initialized, sq, cq>>
  PROVE  NoLatePush' /\ NoLostWakeup'
<1>0. /\ call \in [Threads -> Calls \cup {None}] /\ inbox \in [Scheds -> Seq(Coros \cup {NoOp})]
      /\ NoLatePush /\ NoLostWakeup
  BY DEF IInv, TypeInv, TypeOK
<1>1. PushInbox(t, s, task, [at |-> "fd", dest |-> s])
  BY DEF DispatchOn, IInv
<1>2. CASE /\ inbox' = [inbox EXCEPT ![s] = Append(@, task)]
           /\ call' = [call EXCEPT ![t] = [at |-> "fd", dest |-> s]]
  <2>1. NoLatePush'
    BY <1>0, <1>2 DEF NoLatePush
  <2>2. ASSUME NEW u \in Scheds, Watching(u)' PROVE WakeupUnderWay(u)'
    <3>1. CASE u = s
      <4>1. call'[t] = [at |-> "fd", dest |-> u]
        BY <1>0, <1>2, <3>1
      <4> QED BY <4>1 DEF WakeupUnderWay
    <3>2. CASE u # s
      <4>1. WakeupUnderWay(u)
        BY <1>0, <1>2, <2>2, <3>2 DEF Watching, NoLostWakeup
      <4>2. CASE Announced(u)
        BY <4>2 DEF WakeupUnderWay, Announced
      <4>3. ASSUME NEW v \in Threads, call[v] = [at |-> "fd", dest |-> u]
            PROVE  WakeupUnderWay(u)'
        <5>1. v # t => call'[v] = call[v]
          BY <1>0, <1>2
        <5>2. CASE v = t
          <6>1. [at |-> "fd", dest |-> u] \in Calls
            BY DEF Calls
          <6>2. None = [at |-> "fd", dest |-> u]
            BY <4>3, <5>2
          <6> QED BY <6>1, <6>2, NoneIsNoCall
        <5>3. CASE v # t
          BY <4>3, <5>1, <5>3 DEF WakeupUnderWay
        <5> QED BY <5>2, <5>3
      <4> QED BY <4>1, <4>2, <4>3, UnderWay
    <3> QED BY <3>1, <3>2
  <2> QED BY <2>1, <2>2 DEF NoLostWakeup, Watching
<1>3. CASE UNCHANGED inbox /\ call' = [call EXCEPT ![t] = None]
  <2>1. call' = call
    BY <1>0, <1>3
  <2>2. NoLostWakeup'
    BY <1>0, <1>3, <2>1, StillUnderWay DEF Watching, Announced
  <2> QED BY <1>0, <2>1, <2>2 DEF NoLatePush
<1> QED BY <1>1, <1>2, <1>3 DEF PushInbox

LEMMA InvStep == IInv /\ [Next]_vars => IInv'
<1> SUFFICES ASSUME IInv, [Next]_vars PROVE IInv'
  OBVIOUS
<1>0. TypeOK /\ TypeInv /\ initialized = Scheds /\ NoLatePush /\ NoLostWakeup
  BY DEF IInv, TypeInv
<1>t. TypeInv'
  BY <1>0, TypeStep
<1> SUFFICES initialized' = Scheds /\ NoLatePush' /\ NoLostWakeup'
  BY <1>t DEF IInv
<1> USE DEF loop, queues, rings
<1>k. ASSUME UNCHANGED call PROVE NoLatePush'
  BY <1>0, <1>k DEF NoLatePush
<1>1. CASE UNCHANGED vars
  BY <1>0, <1>1, <1>k, StillUnderWay DEF vars, Watching, Announced
<1>2. ASSUME NEW s \in Scheds, Boot(s) \/ CheckRunning(s) \/ WakeUp(s) \/ PollDone(s)
      PROVE  initialized' = Scheds /\ NoLatePush' /\ NoLostWakeup'
  <2>1. /\ UNCHANGED <<inbox, sq, cq, call>>
        /\ \E p \in {"check", "inbox", "exited", "poll"} : pc' = [pc EXCEPT ![s] = p]
        /\ initialized' = Scheds
    BY <1>0, <1>2 DEF Boot, CheckRunning, WakeUp, PollDone, Goto
  <2>2. \A u \in Scheds : Watching(u)' => Watching(u)
    BY <1>0, <2>1 DEF Watching, TypeOK
  <2> QED BY <1>0, <2>1, <2>2, <1>k, StillUnderWay DEF Announced
<1>3. ASSUME NEW s \in Scheds, ProcessInbox(s)
      PROVE  initialized' = Scheds /\ NoLatePush' /\ NoLostWakeup'
  <2>1. /\ UNCHANGED <<pc, initialized, sq, cq, call>>
        /\ inbox' = [inbox EXCEPT ![s] = Tail(@)]
        /\ pc[s] \in {"inbox", "drain"}
    BY <1>3 DEF ProcessInbox
  <2>2. \A u \in Scheds : Watching(u)' => Watching(u)
    BY <1>0, <2>1 DEF Watching, TypeOK
  <2> QED BY <1>0, <2>1, <2>2, <1>k, StillUnderWay DEF Announced
<1>4. ASSUME NEW s \in Scheds, InboxEmpty(s)
      PROVE  initialized' = Scheds /\ NoLatePush' /\ NoLostWakeup'
  <2>1. /\ UNCHANGED <<initialized, inbox, sq, cq, call>>
        /\ \E p \in PCs : pc' = [pc EXCEPT ![s] = p]
        /\ inbox[s] = <<>>
    BY <1>4 DEF InboxEmpty, Goto, PCs
  <2>2. \A u \in Scheds : Watching(u)' => Watching(u)
    BY <1>0, <2>1 DEF Watching, TypeOK
  <2> QED BY <1>0, <2>1, <2>2, <1>k, StillUnderWay DEF Announced
<1>5. ASSUME NEW s \in Scheds, DequeueBatch(s) \/ CoroutineSuspends(s)
      PROVE  initialized' = Scheds /\ NoLatePush' /\ NoLostWakeup'
  <2>1. /\ UNCHANGED <<initialized, inbox, sq, cq, call>>
        /\ \/ pc[s] = "dequeue" /\ \E p \in {"submit", "run"} : pc' = [pc EXCEPT ![s] = p]
           \/ \E p \in {"poll", "run"} : pc' = [pc EXCEPT ![s] = p]
    BY <1>5 DEF DequeueBatch, CoroutineSuspends, Goto
  <2>2. \A u \in Scheds : Watching(u)' => Watching(u)
    BY <1>0, <2>1 DEF Watching, TypeOK
  <2> QED BY <1>0, <2>1, <2>2, <1>k, StillUnderWay DEF Announced
<1>6. ASSUME NEW s \in Scheds, Submit(s)
      PROVE  initialized' = Scheds /\ NoLatePush' /\ NoLostWakeup'
  <2>1. /\ UNCHANGED <<initialized, inbox, call>>
        /\ pc[s] = "submit" /\ pc' = [pc EXCEPT ![s] = "wait"]
        /\ cq' = Delivered(s) /\ sq' = [sq EXCEPT ![s] = {}]
    BY <1>6 DEF Submit, Goto
  <2>2. \A u \in Scheds : Watching(u)' => Watching(u)
    BY <1>0, <2>1 DEF Watching, TypeOK
  <2>3. \A v \in Scheds \ {s} : sq'[v] = sq[v]
    BY <1>0, <2>1 DEF TypeOK
  <2>4. \A u \in Scheds : Announced(u) => Announced(u)'
    BY <1>0, <2>1, <2>3, DeliveredKeeps
  <2> QED BY <1>0, <2>1, <2>2, <2>4, <1>k, StillUnderWay
<1>7. ASSUME NEW s \in Scheds, PollOne(s)
      PROVE  initialized' = Scheds /\ NoLatePush' /\ NoLostWakeup'
  <2>1. /\ UNCHANGED <<initialized, inbox, sq, call>>
        /\ pc[s] = "poll"
        /\ pc' = pc \/ pc' = [pc EXCEPT ![s] = "drain"]
        /\ \E m \in cq[s] : cq' = [cq EXCEPT ![s] = @ \ {m}]
    BY <1>7 DEF PollOne
  <2>2. \A u \in Scheds : Watching(u)' => Watching(u) /\ u # s
    BY <1>0, <2>1 DEF Watching, TypeOK
  <2>3. \A u \in Scheds \ {s} : Announced(u) => Announced(u)'
    BY <1>0, <2>1 DEF Announced, TypeOK
  <2>4. ASSUME NEW u \in Scheds, Watching(u)' PROVE WakeupUnderWay(u)'
    <3>1. WakeupUnderWay(u) /\ u # s
      BY <1>0, <2>2, <2>4 DEF NoLostWakeup, Watching
    <3>2. CASE Announced(u)
      BY <2>3, <3>1, <3>2 DEF WakeupUnderWay, Announced
    <3>3. CASE \E t \in Threads : call[t] = [at |-> "fd", dest |-> u]
      BY <2>1, <3>3 DEF WakeupUnderWay
    <3> QED BY <3>1, <3>2, <3>3, UnderWay
  <2>5. NoLostWakeup'
    BY <2>4 DEF NoLostWakeup, Watching
  <2> QED BY <1>0, <2>1, <2>5, <1>k
<1>8. ASSUME NEW s \in Scheds, NEW c \in Coros, WakeLocal(s, c)
      PROVE  initialized' = Scheds /\ NoLatePush' /\ NoLostWakeup'
  BY <1>0, <1>8, <1>k, StillUnderWay DEF WakeLocal, Watching, Announced
<1>9. ASSUME NEW t \in Threads, NEW c \in Coros, WakeByRing(t, c)
      PROVE  initialized' = Scheds /\ NoLatePush' /\ NoLostWakeup'
  <2>1. /\ UNCHANGED <<pc, initialized, inbox, call>>
        /\ NotifyTargetRing(t, HomeOf[c], c) /\ HomeOf[c] \in Scheds
    BY <1>9, Setup DEF WakeByRing
  <2>2. \A u \in Scheds : Announced(u) => Announced(u)'
    BY <1>0, <2>1, NotifyKeeps
  <2> QED BY <1>0, <2>1, <2>2, <1>k, StillUnderWay DEF Watching
<1>10. ASSUME NEW t \in Threads, NEW c \in Coros, Dispatch(t, c)
       PROVE  initialized' = Scheds /\ NoLatePush' /\ NoLostWakeup'
  <2>1. /\ UNCHANGED <<pc, initialized, sq, cq>> /\ call[t] = None
        /\ DispatchOn(t, HomeOf[c], c) /\ HomeOf[c] \in Scheds
    BY <1>10, Setup DEF Dispatch, Acting
  <2> QED BY <1>0, <2>1, DispatchOnKeeps
<1>11. ASSUME NEW t \in Threads, DispatchLatePush(t) PROVE FALSE
  BY <1>0, <1>11 DEF DispatchLatePush, NoLatePush
<1>12. ASSUME NEW t \in Threads, DispatchNotify(t)
       PROVE  initialized' = Scheds /\ NoLatePush' /\ NoLostWakeup'
  <2>1. /\ UNCHANGED <<pc, initialized, inbox>> /\ call' = [call EXCEPT ![t] = None]
        /\ call[t] # None
    BY <1>12 DEF DispatchNotify
  <2>2. call[t] \in Calls
    BY <1>0, <2>1 DEF TypeOK
  <2>3. PICK d \in Scheds : d = call[t].dest
    BY <2>2 DEF Calls
  <2>4. NotifyTargetRing(t, d, TAG_INBOX)
    BY <1>0, <1>12, <2>3 DEF DispatchNotify
  <2>5. /\ Announced(d)'
        /\ \A u \in Scheds : Announced(u) => Announced(u)'
    BY <1>0, <2>3, <2>4, NotifyKeeps
  <2>6. ASSUME NEW u \in Scheds, Watching(u)' PROVE WakeupUnderWay(u)'
    <3>1. WakeupUnderWay(u)
      BY <1>0, <2>1, <2>6 DEF NoLostWakeup, Watching
    <3>2. CASE Announced(u)
      BY <2>5, <3>2 DEF WakeupUnderWay, Announced
    <3>3. ASSUME NEW v \in Threads, call[v] = [at |-> "fd", dest |-> u]
          PROVE  WakeupUnderWay(u)'
      <4>1. CASE v = t
        <5>1. u = d
          BY <2>3, <3>3, <4>1
        <5> QED BY <2>5, <5>1 DEF WakeupUnderWay, Announced
      <4>2. CASE v # t
        <5>1. call'[v] = call[v]
          BY <1>0, <2>1, <4>2 DEF TypeOK
        <5> QED BY <3>3, <5>1 DEF WakeupUnderWay
      <4> QED BY <4>1, <4>2
    <3> QED BY <3>1, <3>2, <3>3, UnderWay
  <2>7. NoLatePush'
    BY <1>0, <2>1 DEF NoLatePush, TypeOK
  <2>8. NoLostWakeup'
    BY <2>6 DEF NoLostWakeup, Watching
  <2> QED BY <1>0, <2>1, <2>7, <2>8
<1>13. CASE StopFlag
  BY <1>0, <1>13, <1>k, StillUnderWay DEF StopFlag, Watching, Announced
<1>14. ASSUME NEW s \in Scheds, StopDispatch(s)
       PROVE  initialized' = Scheds /\ NoLatePush' /\ NoLostWakeup'
  <2>1. /\ UNCHANGED <<pc, initialized, sq, cq>> /\ call[Main] = None
        /\ DispatchOn(Main, s, NoOp) /\ Main \in Threads
    BY <1>14, Setup DEF StopDispatch, Threads
  <2> QED BY <1>0, <2>1, DispatchOnKeeps
<1> QED BY <1>1, <1>2, <1>3, <1>4, <1>5, <1>6, <1>7, <1>8, <1>9, <1>10, <1>11, <1>12,
           <1>13, <1>14 DEF Next, Run, InDispatch

(* Once every scheduler has its ring, no scheduler goes to sleep or stays  *)
(* asleep on a task in its inbox without a message under way to wake it,   *)
(* whatever the threads, the capacities and the interleaving, up to and    *)
(* including stop().                                                       *)
THEOREM WakeupsKept == ASSUME Booted = Scheds PROVE Spec => []NoLostWakeup
<1>1. Init => IInv
  BY InitTypeInv DEF Init, IInv, NoLatePush, NoLostWakeup
<1>2. IInv => NoLostWakeup
  BY DEF IInv
<1> QED BY <1>1, <1>2, InvStep, PTL DEF Spec
-----------------------------------------------------------------------------
(***************************************************************************)
(* Every coroutine is in one place                                         *)
(***************************************************************************)

Has(q, c) == \E i \in 1..Len(q) : q[i] = c
Once(q, c) == \A i, j \in 1..Len(q) : q[i] = c /\ q[j] = c => i = j

Kinds == {"asleep", "refused", "call", "sq", "cq", "inbox", "local", "batch", "next"}

(* Coroutine c is in the structure of kind k that belongs to thread x. *)
At(c, k, x) ==
  \/ k = "call" /\ call[x] \in LatePushes(c)
  \/ /\ x \in Scheds
     /\ \/ k = "asleep" /\ c \in asleep /\ x = HomeOf[c]
        \/ k = "refused" /\ c \in refused /\ x = HomeOf[c]
        \/ k = "sq" /\ <<HomeOf[c], c>> \in sq[x]
        \/ k = "cq" /\ c \in cq[x]
        \/ k = "inbox" /\ Has(inbox[x], c)
        \/ k = "local" /\ Has(local[x], c)
        \/ k = "batch" /\ Has(batch[x], c)
        \/ k = "next" /\ runnext[x] = c

InOneBox(c) ==
  \E k \in Kinds, x \in Threads :
    \A l \in Kinds, y \in Threads : At(c, l, y) <=> l = k /\ y = x

(* A coroutine is queued by its own scheduler only. *)
HomeBound(c) ==
  /\ \A s \in Scheds \ {HomeOf[c]} :
       /\ c \notin cq[s] /\ runnext[s] # c
       /\ ~Has(inbox[s], c) /\ ~Has(local[s], c) /\ ~Has(batch[s], c)
  /\ \A s, t \in Scheds : <<s, c>> \in sq[t] => s = HomeOf[c]
  /\ \A t \in Threads : call[t] \in LatePushes(c) => call[t].dest = HomeOf[c]

NoRepeat(c) == \A s \in Scheds : Once(inbox[s], c) /\ Once(local[s], c) /\ Once(batch[s], c)

Placed(c) == InOneBox(c) /\ HomeBound(c) /\ NoRepeat(c)

(* A batch is finished before the next one is taken. *)
BatchDone == \A s \in Scheds : pc[s] # "run" => batch[s] = <<>>

PlaceInv == TypeInv /\ BatchDone /\ \A c \in Coros : Placed(c)

(* LocalQueue and runnext_ have room for the coroutines of a scheduler. *)
Fits == \A s \in Scheds :
          LET mine == {c \in Coros : HomeOf[c] = s}
          IN  IsFiniteSet(mine) /\ Cardinality(mine) <= LocalCapacity + 1
-----------------------------------------------------------------------------
(* What the operations on queues do to the occurrences of a coroutine. *)
LEMMA HasAppend ==
  ASSUME NEW S, NEW q \in Seq(S), NEW e \in S, NEW c
  PROVE  /\ Has(Append(q, e), c) <=> Has(q, c) \/ c = e
         /\ Once(q, c) /\ ~(c = e /\ Has(q, c)) => Once(Append(q, e), c)
<1>1. /\ Len(q) \in Nat /\ Len(Append(q, e)) = Len(q) + 1
      /\ Append(q, e)[Len(q) + 1] = e
      /\ \A i \in 1..Len(q) : Append(q, e)[i] = q[i]
  OBVIOUS
<1>2. Has(Append(q, e), c) <=> Has(q, c) \/ c = e
  BY <1>1 DEF Has
<1>3. ASSUME Once(q, c), ~(c = e /\ Has(q, c)) PROVE Once(Append(q, e), c)
  <2> SUFFICES ASSUME NEW i \in 1..Len(q) + 1, NEW j \in 1..Len(q) + 1,
                      Append(q, e)[i] = c, Append(q, e)[j] = c
               PROVE  i = j
    BY <1>1 DEF Once
  <2>1. CASE i = Len(q) + 1 /\ j # Len(q) + 1
    BY <1>1, <1>3, <2>1 DEF Has
  <2>2. CASE i # Len(q) + 1 /\ j = Len(q) + 1
    BY <1>1, <1>3, <2>2 DEF Has
  <2>3. CASE i # Len(q) + 1 /\ j # Len(q) + 1
    BY <1>1, <1>3, <2>3 DEF Once
  <2> QED BY <2>1, <2>2, <2>3
<1> QED BY <1>2, <1>3

LEMMA HasTail ==
  ASSUME NEW S, NEW q \in Seq(S), q # <<>>, NEW c, Once(q, c)
  PROVE  /\ Has(q, c) <=> Has(Tail(q), c) \/ c = Head(q)
         /\ c = Head(q) => ~Has(Tail(q), c)
         /\ Once(Tail(q), c)
<1>1. /\ Len(q) \in Nat /\ Len(q) >= 1 /\ Head(q) = q[1]
      /\ Len(Tail(q)) = Len(q) - 1
      /\ \A i \in 1..Len(q) - 1 : Tail(q)[i] = q[i + 1]
  BY EmptySeq
<1>2. \A i \in 1..Len(q) - 1 : i + 1 \in 1..Len(q) /\ i + 1 # 1
  BY <1>1
<1>3. \A i \in 1..Len(q) : i # 1 => i - 1 \in 1..Len(q) - 1 /\ (i - 1) + 1 = i
  BY <1>1
<1>4. Has(Tail(q), c) => Has(q, c)
  BY <1>1, <1>2 DEF Has
<1>5. c = Head(q) => Has(q, c)
  BY <1>1 DEF Has
<1>6. Has(q, c) => Has(Tail(q), c) \/ c = Head(q)
  BY <1>1, <1>3 DEF Has
<1>7. c = Head(q) => ~Has(Tail(q), c)
  BY <1>1, <1>2 DEF Has, Once
<1>8. Once(Tail(q), c)
  <2> SUFFICES ASSUME NEW i \in 1..Len(q) - 1, NEW j \in 1..Len(q) - 1,
                      Tail(q)[i] = c, Tail(q)[j] = c
               PROVE  i = j
    BY <1>1 DEF Once
  <2>1. i + 1 = j + 1
    BY <1>1, <1>2 DEF Once
  <2> QED BY <2>1
<1> QED BY <1>4, <1>5, <1>6, <1>7, <1>8

LEMMA HasConcat ==
  ASSUME NEW S, NEW p \in Seq(S), NEW q \in Seq(S), NEW c
  PROVE  /\ Has(p \o q, c) <=> Has(p, c) \/ Has(q, c)
         /\ Once(p, c) /\ Once(q, c) /\ ~(Has(p, c) /\ Has(q, c)) => Once(p \o q, c)
<1>1. /\ Len(p) \in Nat /\ Len(q) \in Nat /\ Len(p \o q) = Len(p) + Len(q)
      /\ \A i \in 1..Len(p) + Len(q) : (p \o q)[i] = IF i <= Len(p) THEN p[i] ELSE q[i - Len(p)]
  OBVIOUS
<1>2. /\ \A i \in 1..Len(p) : i \in 1..Len(p) + Len(q) /\ (p \o q)[i] = p[i]
      /\ \A i \in 1..Len(q) : /\ i + Len(p) \in 1..Len(p) + Len(q)
                              /\ (p \o q)[i + Len(p)] = q[i]
  BY <1>1
<1>3. \A i \in 1..Len(p) + Len(q) :
        \/ i \in 1..Len(p) /\ (p \o q)[i] = p[i]
        \/ /\ i - Len(p) \in 1..Len(q) /\ (p \o q)[i] = q[i - Len(p)]
           /\ ~(i <= Len(p))
  BY <1>1
<1>4. Has(p \o q, c) => Has(p, c) \/ Has(q, c)
  BY <1>1, <1>3 DEF Has
<1>5. Has(p, c) \/ Has(q, c) => Has(p \o q, c)
  BY <1>1, <1>2 DEF Has
<1>6. ASSUME Once(p, c), Once(q, c), ~(Has(p, c) /\ Has(q, c))
      PROVE  Once(p \o q, c)
  <2> SUFFICES ASSUME NEW i \in 1..Len(p) + Len(q), NEW j \in 1..Len(p) + Len(q),
                      (p \o q)[i] = c, (p \o q)[j] = c
               PROVE  i = j
    BY <1>1 DEF Once
  <2>1. CASE i <= Len(p) /\ j <= Len(p)
    BY <1>1, <1>6, <2>1 DEF Once
  <2>2. CASE ~(i <= Len(p)) /\ ~(j <= Len(p))
    <3>1. i - Len(p) = j - Len(p)
      BY <1>1, <1>6, <2>2 DEF Once
    <3> QED BY <1>1, <3>1
  <2>3. CASE ~(i <= Len(p) <=> j <= Len(p))
    <3>1. Has(p, c) /\ Has(q, c)
      BY <1>1, <1>3, <2>3 DEF Has
    <3> QED BY <1>6, <3>1
  <2> QED BY <2>1, <2>2, <2>3
<1> QED BY <1>4, <1>5, <1>6

LEMMA HasSplit ==
  ASSUME NEW S, NEW q \in Seq(S), NEW n \in 0..Len(q), NEW c, Once(q, c)
  PROVE  LET p == SubSeq(q, 1, n)
             r == SubSeq(q, n + 1, Len(q))
         IN  /\ Has(q, c) <=> Has(p, c) \/ Has(r, c)
             /\ ~(Has(p, c) /\ Has(r, c))
             /\ Once(p, c) /\ Once(r, c)
<1> DEFINE p == SubSeq(q, 1, n)
           r == SubSeq(q, n + 1, Len(q))
<1>0. Len(q) \in Nat /\ n \in Nat /\ n <= Len(q)
  OBVIOUS
<1>1. /\ Len(p) = n /\ Len(r) = Len(q) - n
      /\ \A i \in 1..n : p[i] = q[i]
      /\ \A i \in 1..Len(q) - n : r[i] = q[i + n]
  BY <1>0
<1> HIDE DEF p, r
<1>2. /\ \A i \in 1..n : i \in 1..Len(q)
      /\ \A i \in 1..Len(q) - n : i + n \in 1..Len(q) /\ i + n \notin 1..n
      /\ \A i \in 1..Len(q) : i \notin 1..n => i - n \in 1..Len(q) - n /\ (i - n) + n = i
  BY <1>0
<1>3. Has(q, c) <=> Has(p, c) \/ Has(r, c)
  <2>1. Has(p, c) => Has(q, c)
    BY <1>1, <1>2 DEF Has
  <2>2. Has(r, c) => Has(q, c)
    BY <1>1, <1>2 DEF Has
  <2>3. ASSUME NEW i \in 1..Len(q), q[i] = c PROVE Has(p, c) \/ Has(r, c)
    <3>1. CASE i \in 1..n
      BY <1>1, <2>3, <3>1 DEF Has
    <3>2. CASE i \notin 1..n
      <4>1. i - n \in 1..Len(q) - n /\ (i - n) + n = i
        BY <1>2, <3>2
      <4>2. r[i - n] = c
        BY <1>1, <2>3, <4>1
      <4> QED BY <1>1, <4>1, <4>2 DEF Has
    <3> QED BY <3>1, <3>2
  <2> QED BY <2>1, <2>2, <2>3 DEF Has
<1>4. ~(Has(p, c) /\ Has(r, c))
  BY <1>1, <1>2 DEF Has, Once
<1>5. Once(p, c)
  BY <1>1, <1>2 DEF Once
<1>6. Once(r, c)
  <2> SUFFICES ASSUME NEW i \in 1..Len(q) - n, NEW j \in 1..Len(q) - n, r[i] = c, r[j] = c
               PROVE  i = j
    BY <1>1 DEF Once
  <2>1. i + n = j + n
    BY <1>1, <1>2 DEF Once
  <2> QED BY <1>0, <2>1
<1> QED BY <1>3, <1>4, <1>5, <1>6 DEF p, r

LEMMA HasOther ==
  ASSUME NEW c, NEW e
  PROVE  /\ ~Has(<<>>, c) /\ Once(<<>>, c)
         /\ (Has(<<e>>, c) <=> c = e) /\ Once(<<e>>, c)
  BY DEF Has, Once
-----------------------------------------------------------------------------
(* LocalQueue::push() is an append as long as there is room. *)
LEMMA LocalPushAppends ==
  ASSUME NEW q \in Seq(Coros), NEW c \in Coros, Len(q) < LocalCapacity
  PROVE  LocalPush(q, c) = Append(q, c)
<1>1. Len(q) \in Nat /\ LocalCapacity \in Nat \ {0}
  BY Setup
<1>2. \A a \in Nat : a < LocalCapacity => a % LocalCapacity = a
  BY <1>1
<1>3. \A i \in 1..Len(q) + 1 :
        (IF (Len(q) + 1 - i) % LocalCapacity = 0 THEN c ELSE q[i])
          = IF i = Len(q) + 1 THEN c ELSE q[i]
  <2> TAKE i \in 1..Len(q) + 1
  <2>1. Len(q) + 1 - i \in Nat /\ Len(q) + 1 - i < LocalCapacity
    BY <1>1
  <2>2. (Len(q) + 1 - i) % LocalCapacity = Len(q) + 1 - i
    BY <1>2, <2>1
  <2>3. Len(q) + 1 - i = 0 <=> i = Len(q) + 1
    BY <1>1
  <2> QED BY <2>2, <2>3
<1>4. /\ Append(q, c) \in Seq(Coros) /\ LocalPush(q, c) \in Seq(Coros)
      /\ Len(Append(q, c)) = Len(q) + 1
  BY LocalPushType
<1>5. DOMAIN LocalPush(q, c) = 1..Len(q) + 1
  BY DEF LocalPush
<1>6. Len(LocalPush(q, c)) = Len(q) + 1
  BY <1>1, <1>4, <1>5, LenProperties
<1>7. \A i \in 1..Len(q) + 1 : LocalPush(q, c)[i] = Append(q, c)[i]
  BY <1>1, <1>3 DEF LocalPush
<1> QED BY <1>4, <1>6, <1>7, SeqEqual

(* A coroutine that is nowhere else fits in the local queue: with it and   *)
(* the one in runnext_ the queue holds no more than the scheduler's own.   *)
LEMMA RoomForIt ==
  ASSUME Fits, PlaceInv, NEW s \in Scheds, NEW c \in Coros, HomeOf[c] = s,
         NEW r \in Coros, runnext[s] = r, r # c,
         ~Has(local[s], c), ~Has(local[s], r)
  PROVE  Len(local[s]) < LocalCapacity
<1> DEFINE mine == {d \in Coros : HomeOf[d] = s}
           q == local[s]
           n == Len(q)
           R == {q[i] : i \in 1..n}
           f == [i \in 1..n |-> q[i]]
<1>1. q \in Seq(Coros) /\ n \in Nat
  BY DEF PlaceInv, TypeInv, TypeOK
<1>2. /\ \A i, j \in 1..n : q[i] = q[j] => i = j
      /\ R \subseteq mine
  <2>1. \A i \in 1..n : q[i] \in Coros /\ Placed(q[i])
    BY <1>1 DEF PlaceInv
  <2>2. \A i \in 1..n : HomeOf[q[i]] = s /\ Once(q, q[i])
    <3> TAKE i \in 1..n
    <3>1. Has(q, q[i]) /\ q[i] \in Coros /\ HomeBound(q[i]) /\ NoRepeat(q[i])
      BY <2>1 DEF Placed, Has
    <3>2. HomeOf[q[i]] = s
      BY <3>1 DEF HomeBound
    <3> QED BY <3>1, <3>2 DEF NoRepeat
  <2> QED BY <2>1, <2>2 DEF Once
<1>3. f \in Bijection(1..n, R)
  <2>1. f \in Injection(1..n, R)
    BY <1>2 DEF Injection, IsInjective
  <2>2. f \in Surjection(1..n, R)
    BY DEF Surjection
  <2> QED BY <2>1, <2>2 DEF Bijection
<1>4. IsFiniteSet(1..n) /\ Cardinality(1..n) = n
  <2> HIDE DEF n
  <2> QED BY <1>1, FS_Interval
<1>5. IsFiniteSet(R) /\ Cardinality(R) = n
  BY <1>3, <1>4, FS_Bijection DEF ExistsBijection
<1>6. c \notin R /\ r \notin R
  BY DEF Has
<1>7. c \in mine /\ r \in mine
  <2>1. HomeBound(r)
    BY DEF PlaceInv, Placed
  <2>2. HomeOf[r] = s
    BY <2>1 DEF HomeBound
  <2> QED BY <2>2
<1>8. IsFiniteSet(mine) /\ Cardinality(mine) <= LocalCapacity + 1
  BY DEF Fits
<1> HIDE DEF R, mine, n
<1>9. IsFiniteSet(R \cup {c}) /\ Cardinality(R \cup {c}) = n + 1
  BY <1>5, <1>6, FS_AddElement
<1>10. r \notin R \cup {c}
  BY <1>6
<1>11. /\ IsFiniteSet((R \cup {c}) \cup {r})
       /\ Cardinality((R \cup {c}) \cup {r}) = (n + 1) + 1
  BY <1>9, <1>10, FS_AddElement
<1>12. (R \cup {c}) \cup {r} \subseteq mine
  BY <1>2, <1>7
<1>13. (n + 1) + 1 <= Cardinality(mine)
  BY <1>8, <1>11, <1>12, FS_Subset
<1>14. Cardinality(mine) \in Nat
  BY <1>8, FS_CardinalityType
<1>15. n < LocalCapacity
  BY <1>1, <1>8, <1>13, <1>14, Setup
<1> QED BY <1>15 DEF n

(* What schedule() does to the places of the coroutines: the one it is     *)
(* given, which is not on this scheduler's queue, is put in runnext_ or at *)
(* the end of the local queue.                                             *)
LEMMA SchedulePuts ==
  ASSUME Fits, PlaceInv, NEW s \in Scheds, NEW c \in Coros, HomeOf[c] = s,
         Schedule(s, c), ~Has(local[s], c), runnext[s] # c
  PROVE  \E k \in {"next", "local"} : \A d \in Coros, u \in Scheds :
           /\ runnext'[u] = d <=> runnext[u] = d \/ (k = "next" /\ u = s /\ d = c)
           /\ Has(local'[u], d) <=> Has(local[u], d) \/ (k = "local" /\ u = s /\ d = c)
           /\ Once(local[u], d) => Once(local'[u], d)
<1>0. /\ runnext \in [Scheds -> Coros \cup {None}] /\ local \in [Scheds -> Seq(Coros)]
      /\ None \notin Coros
  BY Setup DEF PlaceInv, TypeInv, TypeOK
<1>1. CASE runnext[s] = None /\ runnext' = [runnext EXCEPT ![s] = c] /\ local' = local
  <2> WITNESS "next" \in {"next", "local"}
  <2> QED BY <1>0, <1>1
<1>2. CASE /\ runnext[s] # None /\ runnext' = runnext
           /\ local' = [local EXCEPT ![s] = LocalPush(@, c)]
  <2>1. PICK r \in Coros : runnext[s] = r
    BY <1>0, <1>2
  <2>2. ~Has(local[s], r)
    <3>1. At(r, "next", s) /\ s \in Threads
      BY <2>1 DEF At, Threads
    <3>2. ~At(r, "local", s)
      BY <3>1 DEF PlaceInv, Placed, InOneBox, Kinds
    <3> QED BY <3>2 DEF At
  <2>3. Len(local[s]) < LocalCapacity
    BY <2>1, <2>2, RoomForIt
  <2>4. local[s] \in Seq(Coros)
    BY <1>0
  <2>5. LocalPush(local[s], c) = Append(local[s], c)
    BY <2>3, <2>4, LocalPushAppends
  <2>6. /\ local'[s] = Append(local[s], c)
        /\ \A u \in Scheds : u # s => local'[u] = local[u]
    BY <1>0, <1>2, <2>5
  <2>7. \A d \in Coros : /\ Has(local'[s], d) <=> Has(local[s], d) \/ d = c
                         /\ Once(local[s], d) => Once(local'[s], d)
    BY <2>4, <2>6, HasAppend
  <2> WITNESS "local" \in {"next", "local"}
  <2> QED BY <1>2, <2>6, <2>7
<1> QED BY <1>1, <1>2 DEF Schedule
-----------------------------------------------------------------------------
LEMMA NotLate ==
  ASSUME NEW c \in Coros, NEW s \in Scheds
  PROVE  /\ None \notin LatePushes(c)
         /\ [at |-> "fd", dest |-> s] \notin LatePushes(c)
         /\ [at |-> "late push", dest |-> s, task |-> NoOp] \notin LatePushes(c)
         /\ [at |-> "late push", dest |-> s, task |-> c] \in LatePushes(c)
         /\ \A d \in Coros : d # c =>
              [at |-> "late push", dest |-> s, task |-> d] \notin LatePushes(c)
<1>1. LatePushes(c) \subseteq Calls
  BY DEF LatePushes, Calls
<1>2. None \notin LatePushes(c)
  BY <1>1, NoneIsNoCall
<1>3. \A r \in LatePushes(c) : r.at = "late push" /\ r.task = c
  BY DEF LatePushes
<1>4. [at |-> "late push", dest |-> s, task |-> c] \in LatePushes(c)
  BY DEF LatePushes
<1> QED BY <1>2, <1>3, <1>4, Setup

(* What a step may do to a thread's call as far as c is concerned. *)
SameCalls(c) == \A x \in Threads : \/ call'[x] = call[x]
                                   \/ call'[x] \notin LatePushes(c) /\ call[x] \notin LatePushes(c)
SameRings(c) == \A s \in Scheds : /\ c \in cq'[s] <=> c \in cq[s]
                                  /\ \A x \in Scheds : <<x, c>> \in sq'[s] <=> <<x, c>> \in sq[s]
SameSleep(c) == /\ c \in asleep' <=> c \in asleep
                /\ c \in refused' <=> c \in refused
SameQueues(c) ==
  \A s \in Scheds : /\ Has(inbox'[s], c) <=> Has(inbox[s], c)
                    /\ Has(local'[s], c) <=> Has(local[s], c)
                    /\ Has(batch'[s], c) <=> Has(batch[s], c)
                    /\ runnext'[s] = c <=> runnext[s] = c
                    /\ Once(inbox[s], c) => Once(inbox'[s], c)
                    /\ Once(local[s], c) => Once(local'[s], c)
                    /\ Once(batch[s], c) => Once(batch'[s], c)

LEMMA Boxes ==
  ASSUME NEW c \in Coros
  PROVE  /\ HomeOf[c] \in Scheds
         /\ \A x \in Scheds : x \in Threads
         /\ {"asleep", "refused", "call", "sq", "cq", "inbox", "local", "batch", "next"} = Kinds
         /\ InOneBox(c) => \A k, l \in Kinds : \A x, y \in Threads :
                             At(c, k, x) /\ At(c, l, y) => k = l /\ x = y
  BY Setup DEF Threads, Kinds, InOneBox

LEMMA Settled ==
  ASSUME NEW c, NEW k \in Kinds, NEW x \in Threads,
         \A l \in Kinds, y \in Threads : At(c, l, y)' <=> l = k /\ y = x
  PROVE  InOneBox(c)'
  BY DEF InOneBox

(* Nothing moves. *)
LEMMA Kept ==
  ASSUME NEW c \in Coros, Placed(c), SameCalls(c), SameRings(c), SameQueues(c),
         SameSleep(c)
  PROVE  Placed(c)'
<1>0. InOneBox(c) /\ HomeBound(c) /\ NoRepeat(c)
  BY DEF Placed
<1>1. \A k \in Kinds, x \in Threads : At(c, k, x)' <=> At(c, k, x)
  BY Boxes DEF At, SameCalls, SameRings, SameSleep, SameQueues
<1>2. InOneBox(c)'
  BY <1>0, <1>1 DEF InOneBox
<1>3. HomeBound(c)'
  BY <1>0 DEF HomeBound, SameCalls, SameRings, SameQueues
<1>4. NoRepeat(c)'
  BY <1>0 DEF NoRepeat, SameQueues
<1> QED BY <1>2, <1>3, <1>4 DEF Placed

LEMMA Untouched ==
  ASSUME NEW c \in Coros, Placed(c), SameCalls(c), SameRings(c),
         SameSleep(c),
         UNCHANGED <<inbox, local, batch, runnext>>
  PROVE  Placed(c)'
<1>1. SameQueues(c)
  BY DEF SameQueues
<1> QED BY <1>1, Kept

LEMMA DeliveredIs ==
  ASSUME TypeOK, NEW c \in Coros, HomeBound(c), NEW t \in Scheds, NEW u \in Scheds
  PROVE  c \in Delivered(t)[u] <=> \/ c \in cq[u]
                                   \/ u = HomeOf[c] /\ <<HomeOf[c], c>> \in sq[t]
<1>1. Delivered(t)[u] = cq[u] \cup {m[2] : m \in {x \in sq[t] : x[1] = u}}
  BY DEF Delivered
<1>2. ASSUME NEW m \in sq[t], m[1] = u, m[2] = c
      PROVE  u = HomeOf[c] /\ <<HomeOf[c], c>> \in sq[t]
  <2>1. m = <<u, c>>
    BY <1>2 DEF TypeOK
  <2> QED BY <1>2, <2>1 DEF HomeBound
<1>3. ASSUME u = HomeOf[c], <<HomeOf[c], c>> \in sq[t] PROVE c \in Delivered(t)[u]
  <2>1. <<u, c>>[1] = u /\ <<u, c>>[2] = c
    OBVIOUS
  <2> QED BY <1>1, <1>3, <2>1
<1> QED BY <1>1, <1>2, <1>3

(* Submitting moves the messages of one ring to those they are for. *)
LEMMA Flushed ==
  ASSUME TypeOK, NEW c \in Coros, Placed(c), SameCalls(c), SameSleep(c),
         UNCHANGED <<inbox, local, batch, runnext>>,
         NEW t \in Scheds, cq' = Delivered(t),
         \A v \in Scheds \ {t} : sq'[v] = sq[v],
         \A s \in Scheds : <<s, c>> \notin sq'[t]
  PROVE  Placed(c)'
<1>0. InOneBox(c) /\ HomeBound(c) /\ NoRepeat(c) /\ HomeOf[c] \in Scheds
  BY Boxes DEF Placed
<1>1. CASE <<HomeOf[c], c>> \notin sq[t]
  <2>1. \A s \in Scheds : <<s, c>> \notin sq[t]
    BY <1>0, <1>1 DEF HomeBound
  <2>2. SameRings(c)
    BY <1>0, <1>1, <2>1, DeliveredIs DEF SameRings
  <2> QED BY <2>2, Untouched
<1>2. CASE <<HomeOf[c], c>> \in sq[t]
  <2>1. At(c, "sq", t) /\ t \in Threads
    BY <1>2, Boxes DEF At
  <2>2. \A k \in Kinds, x \in Threads : At(c, k, x) <=> k = "sq" /\ x = t
    BY <1>0, <2>1, Boxes
  <2>3. \A s \in Scheds : c \in cq'[s] <=> s = HomeOf[c]
    <3>1. \A s \in Scheds : c \notin cq[s]
      BY <2>2, Boxes DEF At
    <3> QED BY <1>0, <1>2, <3>1, DeliveredIs
  <2>4. \A s, x \in Scheds : <<s, c>> \notin sq'[x]
    <3>1. \A x \in Scheds : x # t => <<HomeOf[c], c>> \notin sq[x]
      BY <2>2, Boxes DEF At
    <3> QED BY <1>0, <3>1 DEF HomeBound
  <2>5. \A k \in Kinds, x \in Threads : At(c, k, x)' <=> k = "cq" /\ x = HomeOf[c]
    <3> TAKE k \in Kinds, x \in Threads
    <3>1. CASE k \in {"sq", "cq"}
      BY <1>0, <2>3, <2>4, <3>1 DEF At
    <3>2. CASE k \in {"call", "asleep", "refused"}
      BY <2>2, <3>2 DEF At, SameCalls, SameSleep
    <3>3. CASE k \in {"inbox", "local", "batch", "next"}
      BY <2>2, <3>3 DEF At
    <3> QED BY <3>1, <3>2, <3>3 DEF Kinds
  <2>6. InOneBox(c)'
    <3>1. "cq" \in Kinds /\ HomeOf[c] \in Threads
      BY Boxes
    <3> QED BY <2>5, <3>1, Settled
  <2>7. HomeBound(c)'
    BY <1>0, <2>3, <2>4 DEF HomeBound, SameCalls
  <2>8. NoRepeat(c)'
    BY <1>0 DEF NoRepeat
  <2> QED BY <2>6, <2>7, <2>8 DEF Placed
<1> QED BY <1>1, <1>2

(* A message moves no coroutine but the one it carries. *)
LEMMA NotifyOthers ==
  ASSUME TypeOK, NEW c \in Coros, Placed(c), SameCalls(c), SameSleep(c),
         UNCHANGED <<inbox, local, batch, runnext>>,
         NEW t \in Threads, NEW s \in Scheds, NEW msg, msg # c,
         NotifyTargetRing(t, s, msg)
  PROVE  Placed(c)'
<1>1. CASE /\ t \in Scheds
           /\ sq' = [sq EXCEPT ![t] = @ \cup {<<s, msg>>}]
           /\ UNCHANGED cq
  <2>1. SameRings(c)
    BY <1>1 DEF SameRings, TypeOK
  <2> QED BY <2>1, Untouched
<1>2. CASE /\ t \in Scheds
           /\ cq' = Delivered(t)
           /\ sq' = [sq EXCEPT ![t] = {<<s, msg>>}]
  <2>1. /\ \A v \in Scheds \ {t} : sq'[v] = sq[v]
        /\ \A u \in Scheds : <<u, c>> \notin sq'[t]
    BY <1>2 DEF TypeOK
  <2> QED BY <1>2, <2>1, Flushed
<1>3. CASE /\ t \in Externals
           /\ cq' = [cq EXCEPT ![s] = @ \cup {msg}]
           /\ UNCHANGED sq
  <2>1. SameRings(c)
    BY <1>3 DEF SameRings, TypeOK
  <2> QED BY <2>1, Untouched
<1> QED BY <1>1, <1>2, <1>3 DEF NotifyTargetRing

(* The coroutine it carries is in a submission queue or in the completion  *)
(* queue of its own scheduler.                                             *)
LEMMA NotifyMoves ==
  ASSUME TypeOK, NEW c \in Coros, Placed(c), c \in asleep, c \notin asleep',
         UNCHANGED <<inbox, local, batch, runnext, call, refused>>,
         NEW t \in Threads, NotifyTargetRing(t, HomeOf[c], c)
  PROVE  Placed(c)'
<1> DEFINE h == HomeOf[c]
<1>0. InOneBox(c) /\ HomeBound(c) /\ NoRepeat(c) /\ h \in Scheds
  BY Boxes DEF Placed
<1>1. At(c, "asleep", h) /\ h \in Threads
  BY <1>0, Boxes DEF At
<1>2. \A k \in Kinds, x \in Threads : At(c, k, x) <=> k = "asleep" /\ x = h
  BY <1>0, <1>1, Boxes
<1>3. \A s, x \in Scheds : c \notin cq[s] /\ <<x, c>> \notin sq[s]
  <2>1. \A s \in Scheds : c \notin cq[s] /\ <<h, c>> \notin sq[s]
    BY <1>2, Boxes DEF At
  <2> QED BY <1>0, <2>1 DEF HomeBound
<1>4. \E k \in {"sq", "cq"}, y \in Scheds : \A s, x \in Scheds :
        /\ c \in cq'[s] <=> k = "cq" /\ y = h /\ s = h
        /\ <<x, c>> \in sq'[s] <=> k = "sq" /\ s = y /\ x = h
        /\ k = "cq" => y = h
  <2>1. CASE /\ t \in Scheds
             /\ sq' = [sq EXCEPT ![t] = @ \cup {<<h, c>>}]
             /\ UNCHANGED cq
    <3> USE <1>0, <2>1
    <3> WITNESS "sq" \in {"sq", "cq"}, t \in Scheds
    <3> QED BY <1>3 DEF TypeOK
  <2>2. CASE /\ t \in Scheds
             /\ cq' = Delivered(t)
             /\ sq' = [sq EXCEPT ![t] = {<<h, c>>}]
    <3>1. \A s \in Scheds : c \notin cq'[s]
      BY <1>0, <1>3, <2>2, DeliveredIs
    <3> USE <1>0, <2>2
    <3> WITNESS "sq" \in {"sq", "cq"}, t \in Scheds
    <3> QED BY <1>3, <3>1 DEF TypeOK
  <2>3. CASE /\ t \in Externals
             /\ cq' = [cq EXCEPT ![h] = @ \cup {c}]
             /\ UNCHANGED sq
    <3> USE <1>0, <2>3
    <3> WITNESS "cq" \in {"sq", "cq"}, h \in Scheds
    <3> QED BY <1>3 DEF TypeOK
  <2> QED BY <2>1, <2>2, <2>3 DEF NotifyTargetRing
<1>5. PICK k \in {"sq", "cq"}, y \in Scheds : \A s, x \in Scheds :
        /\ c \in cq'[s] <=> k = "cq" /\ y = h /\ s = h
        /\ <<x, c>> \in sq'[s] <=> k = "sq" /\ s = y /\ x = h
        /\ k = "cq" => y = h
  BY <1>4
<1>6. \A l \in Kinds, x \in Threads : At(c, l, x)' <=> l = k /\ x = y
  <2> TAKE l \in Kinds, x \in Threads
  <2>1. CASE l \in {"sq", "cq"}
    BY <1>0, <1>5, <2>1 DEF At
  <2>2. CASE l \in {"call", "asleep", "refused"}
    BY <1>2, <2>2 DEF At
  <2>3. CASE l \in {"inbox", "local", "batch", "next"}
    BY <1>2, <2>3 DEF At
  <2> QED BY <2>1, <2>2, <2>3 DEF Kinds
<1>7. InOneBox(c)'
  <2>1. k \in Kinds /\ y \in Threads
    BY Boxes
  <2> QED BY <1>6, <2>1, Settled
<1>8. HomeBound(c)'
  BY <1>0, <1>5 DEF HomeBound
<1>9. NoRepeat(c)'
  BY <1>0 DEF NoRepeat
<1> QED BY <1>7, <1>8, <1>9 DEF Placed
-----------------------------------------------------------------------------
(* What schedule() moves: a coroutine of the scheduler that was asleep, in *)
(* its completion queue or in its inbox.                                   *)
LEMMA Scheduled ==
  ASSUME Fits, PlaceInv, NEW s \in Scheds, NEW c \in Coros, HomeOf[c] = s,
         NEW k0 \in {"asleep", "cq", "inbox"}, At(c, k0, s), Schedule(s, c),
         UNCHANGED <<batch, sq, call, refused>>,
         \A d \in Coros : d \in asleep' <=> d \in asleep /\ ~(k0 = "asleep" /\ d = c),
         \A d \in Coros, u \in Scheds :
           /\ d \in cq'[u] <=> d \in cq[u] /\ ~(k0 = "cq" /\ d = c)
           /\ Has(inbox'[u], d) <=> Has(inbox[u], d) /\ ~(k0 = "inbox" /\ d = c)
           /\ Once(inbox'[u], d)
  PROVE  \A d \in Coros : Placed(d)'
<1>0. InOneBox(c) /\ HomeBound(c) /\ NoRepeat(c)
  BY DEF PlaceInv, Placed
<1>1. \A k \in Kinds, x \in Threads : At(c, k, x) <=> k = k0 /\ x = s
  BY <1>0, Boxes
<1>2. \A u \in Scheds : ~Has(local[u], c) /\ runnext[u] # c /\ ~Has(batch[u], c)
  BY <1>1, Boxes DEF At
<1>3. PICK k \in {"next", "local"} : \A d \in Coros, u \in Scheds :
           /\ runnext'[u] = d <=> runnext[u] = d \/ (k = "next" /\ u = s /\ d = c)
           /\ Has(local'[u], d) <=> Has(local[u], d) \/ (k = "local" /\ u = s /\ d = c)
           /\ Once(local[u], d) => Once(local'[u], d)
  BY <1>2, SchedulePuts
<1>4. ASSUME NEW d \in Coros, d # c PROVE Placed(d)'
  <2>1. SameCalls(d)
    BY DEF SameCalls
  <2>2. SameRings(d)
    BY <1>4 DEF SameRings
  <2>3. SameQueues(d)
    BY <1>3, <1>4 DEF SameQueues
  <2>4. Placed(d) /\ SameSleep(d)
    BY <1>4 DEF PlaceInv, SameSleep
  <2> QED BY <2>1, <2>2, <2>3, <2>4, Kept
<1>5. Placed(c)'
  <2>1. \A l \in Kinds, x \in Threads : At(c, l, x)' <=> l = k /\ x = s
    <3> TAKE l \in Kinds, x \in Threads
    <3>1. CASE l \in {"next", "local"}
      BY <1>2, <1>3, <3>1 DEF At
    <3>2. CASE l \in {"call", "sq", "batch", "refused"}
      BY <1>1, <3>2 DEF At
    <3>3. CASE l \in {"asleep", "cq", "inbox"}
      BY <1>1, <3>3 DEF At
    <3> QED BY <3>1, <3>2, <3>3 DEF Kinds
  <2>2. k \in Kinds /\ s \in Threads
    BY Boxes
  <2>3. InOneBox(c)'
    BY <2>1, <2>2, Settled
  <2>4. HomeBound(c)'
    BY <1>0, <1>2, <1>3 DEF HomeBound
  <2>5. NoRepeat(c)'
    BY <1>0, <1>3 DEF NoRepeat
  <2> QED BY <2>3, <2>4, <2>5 DEF Placed
<1> QED BY <1>4, <1>5

LEMMA ProcessInboxPlaces ==
  ASSUME Fits, PlaceInv, NEW s \in Scheds, ProcessInbox(s)
  PROVE  \A d \in Coros : Placed(d)'
<1>1. /\ inbox \in [Scheds -> Seq(Coros \cup {NoOp})] /\ inbox[s] # <<>>
      /\ inbox' = [inbox EXCEPT ![s] = Tail(@)]
      /\ UNCHANGED <<batch, sq, cq, call, asleep, refused>>
  BY DEF ProcessInbox, PlaceInv, TypeInv, TypeOK, loop, rings
<1>2. inbox[s] \in Seq(Coros \cup {NoOp}) /\ Head(inbox[s]) \in Coros \cup {NoOp}
  BY <1>1, HeadTailProperties
<1>3. \A d \in Coros : /\ Has(inbox[s], d) <=> Has(Tail(inbox[s]), d) \/ d = Head(inbox[s])
                       /\ d = Head(inbox[s]) => ~Has(Tail(inbox[s]), d)
                       /\ Once(Tail(inbox[s]), d)
  <2>1. \A d \in Coros : Once(inbox[s], d)
    BY DEF PlaceInv, Placed, NoRepeat
  <2> QED BY <1>1, <1>2, <2>1, HasTail
<1>4. \A d \in Coros, u \in Scheds :
        /\ Has(inbox'[u], d) <=> Has(inbox[u], d) /\ ~(u = s /\ d = Head(inbox[s]))
        /\ Once(inbox'[u], d)
  <2> TAKE d \in Coros, u \in Scheds
  <2>1. CASE u = s
    BY <1>1, <1>3, <2>1
  <2>2. CASE u # s
    BY <1>1, <2>2 DEF PlaceInv, Placed, NoRepeat
  <2> QED BY <2>1, <2>2
<1>5. CASE Head(inbox[s]) = NoOp
  <2>1. UNCHANGED <<runnext, local>> /\ NoOp \notin Coros
    BY <1>5, Setup DEF ProcessInbox
  <2>2. \A d \in Coros : SameCalls(d) /\ SameRings(d) /\ SameQueues(d) /\ SameSleep(d)
    BY <1>1, <1>4, <1>5, <2>1 DEF SameCalls, SameRings, SameQueues, SameSleep
  <2> QED BY <1>1, <2>2, Kept DEF PlaceInv
<1>6. CASE Head(inbox[s]) # NoOp
  <2>1. PICK c \in Coros : c = Head(inbox[s])
    BY <1>2, <1>6
  <2>2. Schedule(s, c)
    BY <1>6, <2>1 DEF ProcessInbox
  <2>3. Has(inbox[s], c) /\ HomeBound(c)
    BY <1>3, <2>1 DEF PlaceInv, Placed
  <2>4. HomeOf[c] = s /\ \A u \in Scheds : Has(inbox[u], c) => u = s
    BY <2>3 DEF HomeBound
  <2>5. At(c, "inbox", s)
    BY <2>3 DEF At
  <2>6. \A d \in Coros, u \in Scheds :
          Has(inbox'[u], d) <=> Has(inbox[u], d) /\ ~(d = c)
    BY <1>4, <2>1, <2>4
  <2>7. \A d \in Coros : /\ d \in asleep' <=> d \in asleep
                         /\ \A u \in Scheds : d \in cq'[u] <=> d \in cq[u]
    BY <1>1
  <2> QED BY <1>1, <1>4, <2>2, <2>4, <2>5, <2>6, <2>7, Scheduled
<1> QED BY <1>5, <1>6

LEMMA PollOnePlaces ==
  ASSUME Fits, PlaceInv, NEW s \in Scheds, PollOne(s)
  PROVE  \A d \in Coros : Placed(d)'
<1>1. PICK m \in cq[s] :
        /\ cq' = [cq EXCEPT ![s] = @ \ {m}]
        /\ \/ m = TAG_INBOX /\ UNCHANGED <<runnext, local>>
           \/ m # TAG_INBOX /\ Schedule(s, m)
  BY DEF PollOne
<1>2. UNCHANGED <<batch, inbox, sq, call, asleep, refused>>
  BY DEF PollOne
<1>3. cq \in [Scheds -> SUBSET (Coros \cup {TAG_INBOX})]
  BY DEF PlaceInv, TypeInv, TypeOK
<1>4. \A d \in Coros, u \in Scheds : d \in cq'[u] <=> d \in cq[u] /\ ~(u = s /\ d = m)
  BY <1>1, <1>3
<1>5. CASE m = TAG_INBOX
  <2>1. UNCHANGED <<runnext, local>> /\ TAG_INBOX \notin Coros
    BY <1>1, <1>5, Setup
  <2>2. \A d \in Coros : SameCalls(d) /\ SameRings(d) /\ SameSleep(d)
    BY <1>2, <1>4, <1>5, <2>1 DEF SameCalls, SameRings, SameSleep
  <2> QED BY <1>2, <2>1, <2>2, Untouched DEF PlaceInv
<1>6. CASE m # TAG_INBOX
  <2>1. m \in Coros /\ Schedule(s, m)
    BY <1>1, <1>3, <1>6
  <2>2. HomeBound(m)
    BY <2>1 DEF PlaceInv, Placed
  <2>3. HomeOf[m] = s /\ \A u \in Scheds : m \in cq[u] => u = s
    BY <2>2 DEF HomeBound
  <2>4. At(m, "cq", s)
    BY DEF At
  <2>5. \A d \in Coros, u \in Scheds :
          /\ d \in cq'[u] <=> d \in cq[u] /\ ~(d = m)
          /\ Has(inbox'[u], d) <=> Has(inbox[u], d)
          /\ Once(inbox'[u], d)
    BY <1>2, <1>4, <2>3 DEF PlaceInv, Placed, NoRepeat
  <2> QED BY <1>2, <2>1, <2>3, <2>4, <2>5, Scheduled
<1> QED BY <1>5, <1>6

LEMMA WakeLocalPlaces ==
  ASSUME Fits, PlaceInv, NEW s \in Scheds, NEW c \in Coros, WakeLocal(s, c)
  PROVE  \A d \in Coros : Placed(d)'
<1>1. /\ c \in asleep /\ HomeOf[c] = s /\ Schedule(s, c) /\ asleep' = asleep \ {c}
      /\ UNCHANGED <<batch, inbox, sq, cq, call, refused>>
  BY DEF WakeLocal, loop, rings
<1>2. At(c, "asleep", s)
  BY <1>1 DEF At
<1>3. \A d \in Coros, u \in Scheds :
        /\ d \in asleep' <=> d \in asleep /\ ~(d = c)
        /\ d \in cq'[u] <=> d \in cq[u]
        /\ Has(inbox'[u], d) <=> Has(inbox[u], d)
        /\ Once(inbox'[u], d)
  BY <1>1 DEF PlaceInv, Placed, NoRepeat
<1>4. \A d \in Coros : d \in asleep' <=> d \in asleep /\ ~(d = c)
  BY <1>1
<1> QED BY <1>1, <1>2, <1>3, <1>4, Scheduled

(* try_dequeue_batch() moves runnext_ and the front of the local queue to  *)
(* the batch, which is empty by then.                                      *)
LEMMA DequeueBatchPlaces ==
  ASSUME PlaceInv, NEW s \in Scheds, DequeueBatch(s), NEW c \in Coros
  PROVE  Placed(c)'
<1> DEFINE first == IF runnext[s] = None THEN <<>> ELSE <<runnext[s]>>
           room  == BATCH_PIPELINE_DEPTH - Len(first)
           n     == IF Len(local[s]) < room THEN Len(local[s]) ELSE room
           taken == SubSeq(local[s], 1, n)
           rest  == SubSeq(local[s], n + 1, Len(local[s]))
<1>0. /\ InOneBox(c) /\ HomeBound(c) /\ NoRepeat(c)
      /\ runnext \in [Scheds -> Coros \cup {None}]
      /\ local \in [Scheds -> Seq(Coros)] /\ batch \in [Scheds -> Seq(Coros)]
      /\ None \notin Coros
  BY Setup DEF PlaceInv, Placed, TypeInv, TypeOK
<1>1. /\ pc[s] = "dequeue"
      /\ batch' = [batch EXCEPT ![s] = first \o taken]
      /\ runnext' = [runnext EXCEPT ![s] = None]
      /\ local' = [local EXCEPT ![s] = rest]
      /\ UNCHANGED <<inbox, sq, cq, call, asleep, refused>>
  BY DEF DequeueBatch, Goto, rings
<1>2. batch[s] = <<>>
  BY <1>1 DEF PlaceInv, BatchDone
<1>3. local[s] \in Seq(Coros) /\ Len(local[s]) \in Nat
  BY <1>0
<1>4. first \in Seq(Coros) /\ Len(first) \in {0, 1}
  BY <1>0
<1>5. n \in 0..Len(local[s])
  BY <1>3, <1>4, Setup
<1>6. (Has(first, c) <=> runnext[s] = c) /\ Once(first, c)
  BY <1>0, HasOther
<1> HIDE DEF first, n
<1>7. taken \in Seq(Coros)
  BY <1>3, <1>5
<1>8. /\ Has(local[s], c) <=> Has(taken, c) \/ Has(rest, c)
      /\ ~(Has(taken, c) /\ Has(rest, c))
      /\ Once(taken, c) /\ Once(rest, c)
  <2>1. Once(local[s], c)
    BY <1>0 DEF NoRepeat
  <2> QED BY <1>3, <1>5, <2>1, HasSplit
<1> HIDE DEF taken, rest
<1>9. ~(runnext[s] = c /\ Has(local[s], c))
  <2>1. ~(At(c, "next", s) /\ At(c, "local", s))
    BY <1>0, Boxes
  <2> QED BY <2>1 DEF At
<1>10. /\ Has(first \o taken, c) <=> runnext[s] = c \/ Has(taken, c)
       /\ Once(first \o taken, c)
  BY <1>4, <1>6, <1>7, <1>8, <1>9, HasConcat
<1>11. \A u \in Scheds :
         /\ Has(batch'[u], c) <=> Has(batch[u], c) \/ (u = s /\ (runnext[s] = c \/ Has(taken, c)))
         /\ Has(local'[u], c) <=> Has(local[u], c) /\ ~(u = s /\ Has(taken, c))
         /\ runnext'[u] = c <=> runnext[u] = c /\ u # s
         /\ Once(batch'[u], c) /\ Once(local'[u], c)
  <2> TAKE u \in Scheds
  <2>1. CASE u = s
    <3>1. batch'[u] = first \o taken /\ local'[u] = rest /\ runnext'[u] = None
      BY <1>0, <1>1, <2>1
    <3>2. ~Has(batch[s], c)
      BY <1>2, HasOther
    <3> QED BY <1>0, <1>8, <1>10, <2>1, <3>1, <3>2
  <2>2. CASE u # s
    <3>1. batch'[u] = batch[u] /\ local'[u] = local[u] /\ runnext'[u] = runnext[u]
      BY <1>0, <1>1, <2>2
    <3> QED BY <1>0, <2>2, <3>1 DEF NoRepeat
  <2> QED BY <2>1, <2>2
<1>12. CASE ~(runnext[s] = c \/ Has(taken, c))
  <2>1. SameCalls(c) /\ SameRings(c) /\ SameSleep(c)
    BY <1>1 DEF SameCalls, SameRings, SameSleep
  <2>2. SameQueues(c)
    BY <1>1, <1>11, <1>12 DEF SameQueues
  <2> QED BY <1>1, <2>1, <2>2, Kept DEF PlaceInv
<1>13. CASE runnext[s] = c \/ Has(taken, c)
  <2>1. PICK k \in {"next", "local"} : At(c, k, s)
    BY <1>8, <1>13 DEF At
  <2>2. \A l \in Kinds, x \in Threads : At(c, l, x) <=> l = k /\ x = s
    BY <1>0, <2>1, Boxes
  <2>3. \A l \in Kinds, x \in Threads : At(c, l, x)' <=> l = "batch" /\ x = s
    <3> TAKE l \in Kinds, x \in Threads
    <3>1. CASE l \in {"next", "local", "batch"}
      <4>1. x \in Scheds /\ x # s => /\ ~Has(local[x], c) /\ ~Has(batch[x], c)
                                     /\ runnext[x] # c
        BY <2>2, Boxes DEF At
      <4>2. Has(local[s], c) => Has(taken, c)
        BY <1>9, <1>13
      <4> QED BY <1>11, <1>13, <3>1, <4>1, <4>2 DEF At
    <3>2. CASE l \in {"call", "sq", "asleep", "refused", "cq", "inbox"}
      BY <1>1, <2>2, <3>2 DEF At
    <3> QED BY <3>1, <3>2 DEF Kinds
  <2>4. InOneBox(c)'
    <3>1. "batch" \in Kinds /\ s \in Threads
      BY Boxes
    <3> QED BY <2>3, <3>1, Settled
  <2>5. HomeBound(c)'
    <3>1. s = HomeOf[c]
      BY <1>0, <1>8, <1>13 DEF HomeBound
    <3> QED BY <1>0, <1>1, <1>11, <3>1 DEF HomeBound
  <2>6. NoRepeat(c)'
    BY <1>0, <1>1, <1>11 DEF NoRepeat
  <2> QED BY <2>4, <2>5, <2>6 DEF Placed
<1> QED BY <1>12, <1>13

LEMMA CoroutineSuspendsPlaces ==
  ASSUME PlaceInv, NEW s \in Scheds, CoroutineSuspends(s), NEW c \in Coros
  PROVE  Placed(c)'
<1>0. /\ InOneBox(c) /\ HomeBound(c) /\ NoRepeat(c)
      /\ batch \in [Scheds -> Seq(Coros)]
  BY DEF PlaceInv, Placed, TypeInv, TypeOK
<1>1. /\ pc[s] = "run"
      /\ asleep' = asleep \cup {Head(batch[s])}
      /\ batch' = [batch EXCEPT ![s] = Tail(@)]
      /\ UNCHANGED <<inbox, local, runnext, sq, cq, call, refused>>
  BY DEF CoroutineSuspends, Goto, queues, rings
<1>2. batch[s] # <<>> /\ batch[s] \in Seq(Coros)
  BY <1>0, <1>1 DEF PlaceInv, TypeInv, BatchState
<1>3. /\ Has(batch[s], c) <=> Has(Tail(batch[s]), c) \/ c = Head(batch[s])
      /\ c = Head(batch[s]) => ~Has(Tail(batch[s]), c)
      /\ Once(Tail(batch[s]), c)
  <2>1. Once(batch[s], c)
    BY <1>0 DEF NoRepeat
  <2> QED BY <1>2, <2>1, HasTail
<1>4. \A u \in Scheds :
        /\ Has(batch'[u], c) <=> Has(batch[u], c) /\ ~(u = s /\ c = Head(batch[s]))
        /\ Once(batch'[u], c)
  <2> TAKE u \in Scheds
  <2>1. CASE u = s
    BY <1>0, <1>1, <1>3, <2>1
  <2>2. CASE u # s
    BY <1>0, <1>1, <2>2 DEF NoRepeat
  <2> QED BY <2>1, <2>2
<1>5. CASE c # Head(batch[s])
  <2>1. SameCalls(c) /\ SameRings(c) /\ SameSleep(c)
    BY <1>1, <1>5 DEF SameCalls, SameRings, SameSleep
  <2>2. SameQueues(c)
    BY <1>1, <1>4, <1>5 DEF SameQueues
  <2> QED BY <1>1, <1>5, <2>1, <2>2, Kept DEF PlaceInv
<1>6. CASE c = Head(batch[s])
  <2>1. At(c, "batch", s) /\ HomeOf[c] = s
    BY <1>0, <1>3, <1>6 DEF At, HomeBound
  <2>2. \A l \in Kinds, x \in Threads : At(c, l, x) <=> l = "batch" /\ x = s
    BY <1>0, <2>1, Boxes
  <2>3. \A l \in Kinds, x \in Threads : At(c, l, x)' <=> l = "asleep" /\ x = s
    <3> TAKE l \in Kinds, x \in Threads
    <3>1. CASE l \in {"asleep", "batch"}
      BY <1>1, <1>4, <1>6, <2>1, <2>2, <3>1 DEF At
    <3>2. CASE l \in {"call", "refused", "sq", "cq", "inbox", "local", "next"}
      BY <1>1, <2>2, <3>2 DEF At
    <3> QED BY <3>1, <3>2 DEF Kinds
  <2>4. InOneBox(c)'
    <3>1. "asleep" \in Kinds /\ s \in Threads
      BY Boxes
    <3> QED BY <2>3, <3>1, Settled
  <2>5. HomeBound(c)'
    BY <1>0, <1>1, <1>4 DEF HomeBound
  <2>6. NoRepeat(c)'
    BY <1>0, <1>1, <1>4 DEF NoRepeat
  <2> QED BY <2>4, <2>5, <2>6 DEF Placed
<1> QED BY <1>5, <1>6

(* push_inbox() moves no coroutine but the one of its task... *)
LEMMA PushOthers ==
  ASSUME PlaceInv, NEW t \in Threads, NEW s \in Scheds, NEW task \in Coros \cup {NoOp},
         NEW next, PushInbox(t, s, task, next),
         UNCHANGED <<local, batch, runnext, sq, cq>>,
         NEW c \in Coros, c # task, next \notin LatePushes(c), call[t] \notin LatePushes(c)
  PROVE  Placed(c)'
<1>1. /\ inbox \in [Scheds -> Seq(Coros \cup {NoOp})]
      /\ call \in [Threads -> Calls \cup {None}]
  BY DEF PlaceInv, TypeInv, TypeOK
<1>2. SameRings(c) /\ SameSleep(c)
  BY DEF SameRings, SameSleep, PushInbox
<1>3. SameCalls(c)
  <2>1. None \notin LatePushes(c)
    BY NotLate
  <2> QED BY <1>1, <2>1 DEF SameCalls, PushInbox
<1>4. SameQueues(c)
  <2>1. \A u \in Scheds : \/ inbox'[u] = inbox[u]
                          \/ inbox'[u] = Append(inbox[u], task)
    BY <1>1 DEF PushInbox
  <2>2. \A u \in Scheds : /\ Has(Append(inbox[u], task), c) <=> Has(inbox[u], c)
                          /\ Once(inbox[u], c) => Once(Append(inbox[u], task), c)
    BY <1>1, HasAppend
  <2>3. \A u \in Scheds : /\ Has(inbox'[u], c) <=> Has(inbox[u], c)
                          /\ Once(inbox[u], c) => Once(inbox'[u], c)
    BY <2>1, <2>2
  <2> QED BY <2>3 DEF SameQueues
<1> QED BY <1>2, <1>3, <1>4, Kept DEF PlaceInv

(* ... and puts that one in the inbox, or refuses it. *)
LEMMA PushMoves ==
  ASSUME PlaceInv, NEW t \in Threads, NEW c \in Coros, NEW next, next \notin LatePushes(c),
         PushInbox(t, HomeOf[c], c, next),
         UNCHANGED <<local, batch, runnext, sq, cq>>,
         \/ call[t] \in LatePushes(c)
         \/ c \in asleep /\ call[t] \notin LatePushes(c)
  PROVE  Placed(c)'
<1> DEFINE h == HomeOf[c]
<1>0. /\ inbox \in [Scheds -> Seq(Coros \cup {NoOp})]
      /\ call \in [Threads -> Calls \cup {None}]
      /\ InOneBox(c) /\ HomeBound(c) /\ NoRepeat(c)
      /\ h \in Scheds /\ h \in Threads /\ c # NoOp
      /\ None \notin LatePushes(c)
  BY Boxes, NotLate, Setup DEF PlaceInv, Placed, TypeInv, TypeOK
<1>1. PICK k0 \in {"call", "asleep"}, x0 \in Threads :
        /\ At(c, k0, x0) /\ (k0 = "call" => x0 = t)
  BY <1>0 DEF At
<1>2. \A l \in Kinds, x \in Threads : At(c, l, x) <=> l = k0 /\ x = x0
  BY <1>0, <1>1, Boxes
<1>3. \A u \in Scheds : /\ ~Has(inbox[u], c) /\ ~Has(local[u], c) /\ ~Has(batch[u], c)
                        /\ runnext[u] # c /\ c \notin cq[u] /\ <<h, c>> \notin sq[u]
  BY <1>2, Boxes DEF At
<1>4. \A x \in Threads : call'[x] \notin LatePushes(c)
  <2>1. \A x \in Threads : x # t => call[x] \notin LatePushes(c) /\ call'[x] = call[x]
    <3>1. \A x \in Threads : call[x] \in LatePushes(c) => x = t
      BY <1>1, <1>2, Boxes DEF At
    <3> QED BY <1>0, <3>1 DEF PushInbox
  <2>2. call'[t] \notin LatePushes(c)
    BY <1>0 DEF PushInbox
  <2> QED BY <2>1, <2>2
<1>5. PICK k \in {"inbox", "refused"} :
        /\ c \notin asleep' /\ (c \in refused' <=> k = "refused")
        /\ \A u \in Scheds : /\ Has(inbox'[u], c) <=> k = "inbox" /\ u = h
                             /\ Once(inbox'[u], c)
  <2>0. c \notin asleep' /\ c \notin refused
    BY <1>0, <1>2, Boxes DEF At, PushInbox
  <2>1. CASE inbox' = [inbox EXCEPT ![h] = Append(@, c)] /\ UNCHANGED refused
    <3>1. /\ Has(Append(inbox[h], c), c) /\ Once(Append(inbox[h], c), c)
      <4>1. Once(inbox[h], c) /\ ~Has(inbox[h], c)
        BY <1>0, <1>3 DEF NoRepeat
      <4>2. inbox[h] \in Seq(Coros \cup {NoOp}) /\ c \in Coros \cup {NoOp}
        BY <1>0
      <4> HIDE DEF h
      <4> QED BY <4>1, <4>2, HasAppend
    <3>2. \A u \in Scheds : /\ Has(inbox'[u], c) <=> u = h
                            /\ Once(inbox'[u], c)
      <4> TAKE u \in Scheds
      <4>1. CASE u = h
        BY <1>0, <2>1, <3>1, <4>1
      <4>2. CASE u # h
        <5>1. inbox'[u] = inbox[u]
          BY <1>0, <2>1, <4>2
        <5> QED BY <1>0, <1>3, <4>2, <5>1 DEF NoRepeat
      <4> QED BY <4>1, <4>2
    <3> WITNESS "inbox" \in {"inbox", "refused"}
    <3> QED BY <2>0, <2>1, <3>2
  <2>2. CASE UNCHANGED inbox /\ refused' = refused \cup ({c} \ {NoOp})
    <3>1. c \in refused'
      BY <1>0, <2>2
    <3>2. \A u \in Scheds : ~Has(inbox'[u], c) /\ Once(inbox'[u], c)
      BY <1>0, <1>3, <2>2 DEF NoRepeat
    <3> WITNESS "refused" \in {"inbox", "refused"}
    <3> QED BY <2>0, <3>1, <3>2
  <2> QED BY <2>1, <2>2 DEF PushInbox
<1>6. \A l \in Kinds, x \in Threads : At(c, l, x)' <=> l = k /\ x = h
  <2> TAKE l \in Kinds, x \in Threads
  <2>1. CASE l = "call"
    BY <1>4, <2>1 DEF At
  <2>2. CASE l \in {"asleep", "refused", "inbox"}
    BY <1>0, <1>5, <2>2 DEF At
  <2>3. CASE l \in {"sq", "cq", "local", "batch", "next"}
    BY <1>3, <2>3 DEF At
  <2> QED BY <2>1, <2>2, <2>3 DEF Kinds
<1>7. InOneBox(c)'
  <2>1. k \in Kinds /\ h \in Threads
    BY <1>0, Boxes
  <2> QED BY <1>6, <2>1, Settled
<1>8. HomeBound(c)'
  BY <1>0, <1>4, <1>5 DEF HomeBound
<1>9. NoRepeat(c)'
  BY <1>0, <1>5 DEF NoRepeat
<1> QED BY <1>7, <1>8, <1>9 DEF Placed

LEMMA DispatchOnPlaces ==
  ASSUME PlaceInv, NEW t \in Threads, NEW s \in Scheds, NEW task \in Coros \cup {NoOp},
         call[t] = None, DispatchOn(t, s, task),
         task \in Coros => task \in asleep /\ s = HomeOf[task],
         UNCHANGED <<local, batch, runnext, sq, cq>>, NEW c \in Coros
  PROVE  Placed(c)'
<1>0. /\ call \in [Threads -> Calls \cup {None}] /\ None \notin LatePushes(c)
      /\ [at |-> "fd", dest |-> s] \notin LatePushes(c)
      /\ InOneBox(c) /\ HomeBound(c) /\ NoRepeat(c)
      /\ c # NoOp
  BY NotLate, Setup DEF PlaceInv, Placed, TypeInv, TypeOK
<1>1. CASE PushInbox(t, s, task, [at |-> "fd", dest |-> s])
  <2>1. CASE task = c
    BY <1>0, <1>1, <2>1, PushMoves
  <2>2. CASE task # c
    BY <1>0, <1>1, <2>2, PushOthers
  <2> QED BY <2>1, <2>2
<1>2. CASE /\ call' = [call EXCEPT ![t] = [at |-> "late push", dest |-> s, task |-> task]]
           /\ asleep' = asleep \ {task}
           /\ UNCHANGED <<inbox, refused>>
  <2>1. CASE task # c
    <3>1. [at |-> "late push", dest |-> s, task |-> task] \notin LatePushes(c)
      BY <2>1, NotLate
    <3>2. SameCalls(c) /\ SameRings(c)
      BY <1>0, <1>2, <3>1 DEF SameCalls, SameRings
    <3>3. SameSleep(c)
      BY <1>2, <2>1 DEF SameSleep
    <3> QED BY <1>2, <3>2, <3>3, Untouched DEF PlaceInv
  <2>2. CASE task = c
    <3>1. c \in asleep /\ s = HomeOf[c] /\ s \in Threads
      BY <2>2, Boxes
    <3>2. At(c, "asleep", s)
      BY <3>1 DEF At
    <3>3. \A l \in Kinds, x \in Threads : At(c, l, x) <=> l = "asleep" /\ x = s
      BY <1>0, <3>1, <3>2, Boxes
    <3>4. \A x \in Threads : /\ call'[x] \in LatePushes(c) <=> x = t
                             /\ x # t => call'[x] = call[x]
      <4>1. \A x \in Threads : call[x] \notin LatePushes(c)
        BY <3>3, Boxes DEF At
      <4>2. [at |-> "late push", dest |-> s, task |-> c] \in LatePushes(c)
        BY NotLate
      <4> QED BY <1>0, <1>2, <2>2, <4>1, <4>2
    <3>5. \A l \in Kinds, x \in Threads : At(c, l, x)' <=> l = "call" /\ x = t
      <4> TAKE l \in Kinds, x \in Threads
      <4>1. CASE l = "call"
        BY <3>4, <4>1 DEF At
      <4>2. CASE l = "asleep"
        BY <1>2, <2>2, <4>2 DEF At
      <4>3. CASE l \in {"refused", "sq", "cq", "inbox", "local", "batch", "next"}
        BY <1>2, <3>3, <4>3 DEF At
      <4> QED BY <4>1, <4>2, <4>3 DEF Kinds
    <3>6. InOneBox(c)'
      <4>1. "call" \in Kinds
        BY Boxes
      <4> QED BY <3>5, <4>1, Settled
    <3>7. HomeBound(c)'
      <4>1. call'[t].dest = HomeOf[c]
        BY <1>0, <1>2, <3>1
      <4> QED BY <1>0, <1>2, <3>4, <4>1 DEF HomeBound
    <3>8. NoRepeat(c)'
      BY <1>0, <1>2 DEF NoRepeat
    <3> QED BY <3>6, <3>7, <3>8 DEF Placed
  <2> QED BY <2>1, <2>2
<1> QED BY <1>1, <1>2 DEF DispatchOn

LEMMA LatePushPlaces ==
  ASSUME PlaceInv, NEW t \in Threads, DispatchLatePush(t), NEW c \in Coros
  PROVE  Placed(c)'
<1>1. call[t] \in Calls /\ call[t].at = "late push"
  BY DEF DispatchLatePush, PlaceInv, TypeInv, TypeOK
<1> DEFINE s == call[t].dest
           task == call[t].task
<1>2. /\ s \in Scheds /\ task \in Coros \cup {NoOp}
      /\ call[t] = [at |-> "late push", dest |-> s, task |-> task]
  BY <1>1 DEF Calls
<1>3. /\ PushInbox(t, s, task, None)
      /\ UNCHANGED <<local, batch, runnext, sq, cq>>
  BY DEF DispatchLatePush, loop, rings
<1>4. None \notin LatePushes(c)
  BY <1>2, NotLate
<1>5. CASE task = c
  <2>1. call[t] \in LatePushes(c)
    BY <1>2, <1>5, NotLate
  <2>2. HomeBound(c)
    BY DEF PlaceInv, Placed
  <2>3. s = HomeOf[c]
    BY <2>1, <2>2 DEF HomeBound
  <2> QED BY <1>2, <1>3, <1>4, <1>5, <2>1, <2>3, PushMoves
<1>6. CASE task # c
  <2>1. call[t] \notin LatePushes(c)
    BY <1>2, <1>6, NotLate
  <2> QED BY <1>2, <1>3, <1>4, <1>6, <2>1, PushOthers
<1> QED BY <1>5, <1>6

LEMMA PlaceInit == Init => PlaceInv
<1> SUFFICES ASSUME Init PROVE PlaceInv
  OBVIOUS
<1>1. TypeInv
  BY InitTypeInv
<1>2. BatchDone
  BY DEF Init, BatchDone
<1>3. ASSUME NEW c \in Coros PROVE Placed(c)
  <2> DEFINE h == HomeOf[c]
  <2>0. /\ h \in Scheds /\ h \in Threads /\ "asleep" \in Kinds
        /\ None \notin LatePushes(c) /\ None # c
    BY Boxes, NotLate, Setup
  <2>1. \A x \in Scheds : /\ inbox[x] = <<>> /\ local[x] = <<>> /\ batch[x] = <<>>
                          /\ runnext[x] = None /\ sq[x] = {} /\ cq[x] = {}
    BY DEF Init
  <2>2. asleep = Coros /\ refused = {} /\ \A x \in Threads : call[x] = None
    BY DEF Init
  <2>3. \A k \in Kinds, x \in Threads : At(c, k, x) <=> k = "asleep" /\ x = h
    BY <2>0, <2>1, <2>2, HasOther DEF At
  <2>4. InOneBox(c)
    BY <2>0, <2>3 DEF InOneBox
  <2>5. HomeBound(c)
    <3>1. ~Has(<<>>, c)
      BY HasOther
    <3> QED BY <2>0, <2>1, <2>2, <3>1 DEF HomeBound
  <2>6. NoRepeat(c)
    BY <2>1, HasOther DEF NoRepeat
  <2> QED BY <2>4, <2>5, <2>6 DEF Placed
<1> QED BY <1>1, <1>2, <1>3 DEF PlaceInv

LEMMA BatchDoneStep ==
  ASSUME TypeInv, BatchDone, [Next]_vars
  PROVE  BatchDone'
<1>0. pc \in [Scheds -> PCs] /\ batch \in [Scheds -> Seq(Coros)]
  BY DEF TypeInv, TypeOK
<1>1. CASE UNCHANGED <<pc, batch>>
  BY <1>1 DEF BatchDone
<1>2. ASSUME NEW s \in Scheds, NEW to, to # "run", Goto(s, pc[s], to), pc[s] # "run",
             UNCHANGED batch
      PROVE  BatchDone'
  BY <1>0, <1>2 DEF Goto, BatchDone
<1>3. ASSUME NEW s \in Scheds, Run(s) PROVE BatchDone'
  <2>1. CASE \/ Boot(s) \/ CheckRunning(s) \/ InboxEmpty(s) \/ Submit(s) \/ WakeUp(s)
             \/ PollDone(s)
    BY <1>0, <2>1 DEF Boot, CheckRunning, InboxEmpty, Submit, WakeUp, PollDone, Goto, BatchDone
  <2>2. CASE ProcessInbox(s)
    BY <1>1, <2>2 DEF ProcessInbox, loop
  <2>3. CASE DequeueBatch(s)
    <3>1. PICK got : /\ pc' = [pc EXCEPT ![s] = IF got = <<>> THEN "submit" ELSE "run"]
                     /\ batch' = [batch EXCEPT ![s] = got]
      BY <2>3 DEF DequeueBatch, Goto
    <3> QED BY <1>0, <3>1 DEF BatchDone
  <2>4. CASE CoroutineSuspends(s)
    <3>1. /\ pc[s] = "run"
          /\ pc' = [pc EXCEPT ![s] = IF Len(batch[s]) = 1 THEN "poll" ELSE "run"]
          /\ batch' = [batch EXCEPT ![s] = Tail(@)]
      BY <2>4 DEF CoroutineSuspends, Goto
    <3>2. batch[s] \in Seq(Coros) /\ batch[s] # <<>>
      BY <1>0, <3>1 DEF TypeInv, BatchState
    <3>3. Len(batch[s]) = 1 => Tail(batch[s]) = <<>>
      <4>1. Tail(batch[s]) \in Seq(Coros) /\ Len(Tail(batch[s])) = Len(batch[s]) - 1
        BY <3>2, HeadTailProperties
      <4>2. Len(batch[s]) = 1 => Len(Tail(batch[s])) = 0
        BY <4>1
      <4>3. \A q \in Seq(Coros) : Len(q) = 0 => q = <<>>
        BY EmptySeq
      <4> QED BY <4>1, <4>2, <4>3
    <3> QED BY <1>0, <3>1, <3>3 DEF BatchDone
  <2>5. CASE PollOne(s)
    BY <1>0, <2>5 DEF PollOne, BatchDone
  <2> QED BY <1>3, <2>1, <2>2, <2>3, <2>4, <2>5 DEF Run
<1>4. CASE \/ \E s \in Scheds : StopDispatch(s) \/ \E c \in Coros : WakeLocal(s, c)
           \/ \E t \in Threads : \/ InDispatch(t)
                                 \/ \E c \in Coros : WakeByRing(t, c) \/ Dispatch(t, c)
           \/ StopFlag
           \/ UNCHANGED vars
  BY <1>1, <1>4 DEF StopDispatch, WakeLocal, InDispatch, DispatchLatePush, DispatchNotify,
                    WakeByRing, Dispatch, StopFlag, vars, loop
<1> QED BY <1>3, <1>4 DEF Next

LEMMA PlaceStep == Fits /\ PlaceInv /\ [Next]_vars => PlaceInv'
<1> SUFFICES ASSUME Fits, PlaceInv, [Next]_vars PROVE PlaceInv'
  OBVIOUS
<1>0. TypeInv /\ TypeOK /\ BatchDone /\ \A c \in Coros : Placed(c)
  BY DEF PlaceInv, TypeInv
<1>1. TypeInv' /\ BatchDone'
  BY <1>0, TypeStep, BatchDoneStep
<1> SUFFICES ASSUME NEW c \in Coros PROVE Placed(c)'
  BY <1>1 DEF PlaceInv
<1>2. CASE UNCHANGED <<queues, rings, batch, call, asleep, refused>>
  <2>1. SameCalls(c) /\ SameRings(c) /\ SameSleep(c)
    BY <1>2 DEF SameCalls, SameRings, SameSleep, rings
  <2> QED BY <1>0, <1>2, <2>1, Untouched DEF queues
<1>3. ASSUME NEW s \in Scheds, Run(s) PROVE Placed(c)'
  <2>1. CASE Boot(s) \/ CheckRunning(s) \/ InboxEmpty(s) \/ WakeUp(s) \/ PollDone(s)
    BY <1>2, <2>1 DEF Boot, CheckRunning, InboxEmpty, WakeUp, PollDone
  <2>2. CASE ProcessInbox(s)
    BY <2>2, ProcessInboxPlaces
  <2>3. CASE DequeueBatch(s)
    BY <2>3, DequeueBatchPlaces
  <2>4. CASE CoroutineSuspends(s)
    BY <2>4, CoroutineSuspendsPlaces
  <2>5. CASE Submit(s)
    <3>1. /\ cq' = Delivered(s) /\ sq' = [sq EXCEPT ![s] = {}]
          /\ UNCHANGED <<inbox, local, batch, runnext, call, asleep, refused>>
      BY <2>5 DEF Submit, queues
    <3>2. /\ \A v \in Scheds \ {s} : sq'[v] = sq[v]
          /\ \A u \in Scheds : <<u, c>> \notin sq'[s]
      BY <1>0, <3>1 DEF TypeOK
    <3>3. SameCalls(c) /\ SameSleep(c)
      BY <3>1 DEF SameCalls, SameSleep
    <3> QED BY <1>0, <3>1, <3>2, <3>3, Flushed
  <2>6. CASE PollOne(s)
    BY <2>6, PollOnePlaces
  <2> QED BY <1>3, <2>1, <2>2, <2>3, <2>4, <2>5, <2>6 DEF Run
<1>4. ASSUME NEW s \in Scheds, NEW d \in Coros, WakeLocal(s, d) PROVE Placed(c)'
  BY <1>4, WakeLocalPlaces
<1>5. ASSUME NEW t \in Threads, NEW d \in Coros, WakeByRing(t, d) PROVE Placed(c)'
  <2>1. /\ d \in asleep /\ asleep' = asleep \ {d} /\ HomeOf[d] \in Scheds
        /\ NotifyTargetRing(t, HomeOf[d], d)
        /\ UNCHANGED <<inbox, local, batch, runnext, call, refused>>
    BY <1>5, Boxes DEF WakeByRing, loop, queues
  <2>2. CASE d = c
    BY <1>0, <2>1, <2>2, NotifyMoves
  <2>3. CASE d # c
    <3>1. SameCalls(c) /\ SameSleep(c)
      BY <2>1, <2>3 DEF SameCalls, SameSleep
    <3> QED BY <1>0, <2>1, <2>3, <3>1, NotifyOthers
  <2> QED BY <2>2, <2>3
<1>6. ASSUME NEW t \in Threads, NEW d \in Coros, Dispatch(t, d) PROVE Placed(c)'
  <2>1. /\ call[t] = None /\ d \in asleep /\ HomeOf[d] \in Scheds
        /\ DispatchOn(t, HomeOf[d], d)
        /\ UNCHANGED <<local, batch, runnext, sq, cq>>
    BY <1>6, Boxes DEF Dispatch, Acting, loop, rings
  <2> QED BY <2>1, DispatchOnPlaces
<1>7. ASSUME NEW t \in Threads, DispatchLatePush(t) PROVE Placed(c)'
  BY <1>7, LatePushPlaces
<1>8. ASSUME NEW t \in Threads, DispatchNotify(t) PROVE Placed(c)'
  <2>1. /\ call[t] # None /\ call[t].at = "fd" /\ call' = [call EXCEPT ![t] = None]
        /\ UNCHANGED <<inbox, local, batch, runnext, asleep, refused>>
    BY <1>8 DEF DispatchNotify, loop, queues
  <2>2. SameCalls(c) /\ SameSleep(c)
    <3>1. call[t] \notin LatePushes(c)
      BY <2>1 DEF LatePushes
    <3>2. None \notin LatePushes(c)
      BY NotLate, Boxes
    <3> QED BY <1>0, <2>1, <3>1, <3>2 DEF SameCalls, SameSleep, TypeOK
  <2>3. call[t].dest \in Scheds
    BY <1>0, <2>1 DEF TypeOK, Calls
  <2>4. CASE call[t].dest \in initialized
    <3>1. NotifyTargetRing(t, call[t].dest, TAG_INBOX) /\ TAG_INBOX # c
      BY <1>8, <2>4, Setup DEF DispatchNotify
    <3> QED BY <1>0, <2>1, <2>2, <2>3, <3>1, NotifyOthers
  <2>5. CASE call[t].dest \notin initialized
    <3>1. SameRings(c)
      BY <1>8, <2>5 DEF DispatchNotify, rings, SameRings
    <3> QED BY <1>0, <2>1, <2>2, <3>1, Untouched
  <2> QED BY <2>4, <2>5
<1>9. ASSUME NEW s \in Scheds, StopDispatch(s) PROVE Placed(c)'
  <2>1. /\ call[Main] = None /\ DispatchOn(Main, s, NoOp)
        /\ UNCHANGED <<local, batch, runnext, sq, cq>>
        /\ Main \in Threads /\ NoOp \notin Coros
    BY <1>9, Setup DEF StopDispatch, Threads, loop, rings
  <2> QED BY <2>1, DispatchOnPlaces
<1>10. CASE StopFlag \/ UNCHANGED vars
  BY <1>2, <1>10 DEF StopFlag, vars, loop
<1> QED BY <1>3, <1>4, <1>5, <1>6, <1>7, <1>8, <1>9, <1>10 DEF Next, InDispatch
-----------------------------------------------------------------------------
LEMMA SeqWider ==
  ASSUME NEW S, NEW T, S \subseteq T, NEW q \in Seq(S)
  PROVE  q \in Seq(T)
<1>1. Len(q) \in Nat /\ DOMAIN q = 1..Len(q) /\ \A i \in 1..Len(q) : q[i] \in T
  BY LenProperties, ElementOfSeq
<1>2. q = [i \in 1..Len(q) |-> q[i]]
  BY <1>1, LenProperties
<1> QED BY <1>1, <1>2, IsASeq

LEMMA QueuesInOne ==
  ASSUME PlaceInv, NEW s \in Scheds
  PROVE  LET S == Coros \cup {NoOp, None}
         IN  /\ inbox[s] \in Seq(S) /\ local[s] \in Seq(S) /\ batch[s] \in Seq(S)
             /\ (IF runnext[s] = None THEN <<>> ELSE <<runnext[s]>>) \in Seq(S)
<1> DEFINE S == Coros \cup {NoOp, None}
<1>1. /\ inbox[s] \in Seq(Coros \cup {NoOp}) /\ local[s] \in Seq(Coros)
      /\ batch[s] \in Seq(Coros) /\ runnext[s] \in S
  BY DEF PlaceInv, TypeInv, TypeOK
<1>2. Coros \cup {NoOp} \subseteq S /\ Coros \subseteq S
  OBVIOUS
<1> HIDE DEF S
<1>3. inbox[s] \in Seq(S) /\ local[s] \in Seq(S) /\ batch[s] \in Seq(S)
  BY <1>1, <1>2, SeqWider
<1>4. (IF runnext[s] = None THEN <<>> ELSE <<runnext[s]>>) \in Seq(S)
  BY <1>1
<1> QED BY <1>3, <1>4 DEF S

(* The queues of a scheduler, one after the other. *)
LEMMA QueuedIs ==
  ASSUME PlaceInv, NEW c \in Coros, NEW s \in Scheds
  PROVE  /\ Has(Queued(s), c) <=> \E k \in {"inbox", "local", "batch", "next"} : At(c, k, s)
         /\ Once(Queued(s), c)
<1> DEFINE S == Coros \cup {NoOp, None}
           last == IF runnext[s] = None THEN <<>> ELSE <<runnext[s]>>
           il == inbox[s] \o local[s]
           ilb == il \o batch[s]
<1>0. /\ InOneBox(c) /\ NoRepeat(c)
      /\ inbox[s] \in Seq(Coros \cup {NoOp}) /\ local[s] \in Seq(Coros)
      /\ batch[s] \in Seq(Coros) /\ runnext[s] \in Coros \cup {None} /\ None # c
  BY Setup DEF PlaceInv, Placed, TypeInv, TypeOK
<1>1. inbox[s] \in Seq(S) /\ local[s] \in Seq(S) /\ batch[s] \in Seq(S) /\ last \in Seq(S)
  BY QueuesInOne
<1>2. (Has(last, c) <=> runnext[s] = c) /\ Once(last, c)
  BY <1>0, HasOther
<1>3. /\ ~(Has(inbox[s], c) /\ Has(local[s], c))
      /\ ~(Has(batch[s], c) /\ (Has(inbox[s], c) \/ Has(local[s], c)))
      /\ ~(runnext[s] = c /\ (Has(inbox[s], c) \/ Has(local[s], c) \/ Has(batch[s], c)))
  <2>1. /\ At(c, "inbox", s) <=> Has(inbox[s], c)
        /\ At(c, "local", s) <=> Has(local[s], c)
        /\ At(c, "batch", s) <=> Has(batch[s], c)
        /\ At(c, "next", s) <=> runnext[s] = c
    BY DEF At
  <2> QED BY <1>0, <2>1, Boxes
<1> HIDE DEF S, last
<1>4. Once(inbox[s], c) /\ Once(local[s], c) /\ Once(batch[s], c)
  BY <1>0 DEF NoRepeat
<1>5. il \in Seq(S) /\ (Has(il, c) <=> Has(inbox[s], c) \/ Has(local[s], c)) /\ Once(il, c)
  BY <1>1, <1>3, <1>4, HasConcat
<1> HIDE DEF il
<1>6. ilb \in Seq(S) /\ (Has(ilb, c) <=> Has(il, c) \/ Has(batch[s], c)) /\ Once(ilb, c)
  BY <1>1, <1>3, <1>4, <1>5, HasConcat
<1> HIDE DEF ilb
<1>7. (Has(ilb \o last, c) <=> Has(ilb, c) \/ Has(last, c)) /\ Once(ilb \o last, c)
  BY <1>1, <1>2, <1>3, <1>5, <1>6, HasConcat
<1>8. Queued(s) = ilb \o last
  BY DEF Queued, ilb, il, last
<1>9. (\E k \in {"inbox", "local", "batch", "next"} : At(c, k, s)) <=>
        Has(inbox[s], c) \/ Has(local[s], c) \/ Has(batch[s], c) \/ runnext[s] = c
  BY DEF At
<1> QED BY <1>2, <1>5, <1>6, <1>7, <1>8, <1>9

LEMMA PlaceIsOne == PlaceInv => OnePlace
<1> SUFFICES ASSUME PlaceInv, NEW c \in Coros PROVE Cardinality(Places(c)) = 1
  BY DEF OnePlace
<1> DEFINE h == HomeOf[c]
           A == {<<"asleep", c, c>> : x \in asleep \cap {c}}
           F == {<<"refused", c, c>> : x \in refused \cap {c}}
           L == {<<"call", t, c>> : t \in {t \in Threads : call[t] \in LatePushes(c)}}
           Q == {<<"sq", p[1], p[2]>> : p \in {p \in Scheds \X Scheds : <<p[2], c>> \in sq[p[1]]}}
           C == {<<"cq", s, c>> : s \in {s \in Scheds : c \in cq[s]}}
           At5(s) == {i \in DOMAIN Queued(s) : Queued(s)[i] = c}
           U == UNION {{<<"queue", s, i>> : i \in At5(s)} : s \in Scheds}
<1>0. /\ InOneBox(c) /\ HomeBound(c) /\ h \in Scheds /\ h \in Threads
      /\ Scheds \subseteq Threads
  BY Boxes DEF PlaceInv, Placed
<1>1. PICK k \in Kinds, x \in Threads :
        \A l \in Kinds, y \in Threads : At(c, l, y) <=> l = k /\ y = x
  BY <1>0 DEF InOneBox
<1>2. /\ k # "asleep" => A = {}
      /\ k = "asleep" => A = {<<"asleep", c, c>>}
  <2>1. c \in asleep <=> k = "asleep"
    <3>1. At(c, "asleep", h) <=> c \in asleep
      BY <1>0 DEF At
    <3>2. "asleep" \in Kinds /\ At(c, "asleep", x) => c \in asleep
      BY Boxes DEF At
    <3> QED BY <1>0, <1>1, <3>1, <3>2, Boxes
  <2> QED BY <2>1
<1>3. /\ k # "refused" => F = {}
      /\ k = "refused" => F = {<<"refused", c, c>>}
  <2>1. c \in refused <=> k = "refused"
    <3>1. At(c, "refused", h) <=> c \in refused
      BY <1>0 DEF At
    <3>2. "refused" \in Kinds /\ At(c, "refused", x) => c \in refused
      BY Boxes DEF At
    <3> QED BY <1>0, <1>1, <3>1, <3>2, Boxes
  <2> QED BY <2>1
<1>4. /\ k # "call" => L = {}
      /\ k = "call" => L = {<<"call", x, c>>}
  <2>1. \A t \in Threads : call[t] \in LatePushes(c) <=> k = "call" /\ t = x
    BY <1>1, Boxes DEF At
  <2> QED BY <2>1
<1>5. /\ k # "sq" => Q = {}
      /\ k = "sq" => Q = {<<"sq", x, h>>}
  <2>1. \A t, s \in Scheds : <<s, c>> \in sq[t] <=> k = "sq" /\ t = x /\ s = h
    <3>1. \A t \in Scheds : <<h, c>> \in sq[t] <=> k = "sq" /\ t = x
      BY <1>0, <1>1, Boxes DEF At
    <3> QED BY <1>0, <3>1 DEF HomeBound
  <2>2. \A p \in Scheds \X Scheds : <<p[2], c>> \in sq[p[1]] <=> k = "sq" /\ p = <<x, h>>
    BY <2>1
  <2>3. k = "sq" => x \in Scheds
    BY <1>1, Boxes DEF At
  <2>4. k # "sq" => Q = {}
    BY <2>2
  <2>5. ASSUME k = "sq" PROVE Q = {<<"sq", x, h>>}
    <3>1. {p \in Scheds \X Scheds : <<p[2], c>> \in sq[p[1]]} = {<<x, h>>}
      BY <1>0, <2>2, <2>3, <2>5
    <3>2. <<x, h>>[1] = x /\ <<x, h>>[2] = h
      OBVIOUS
    <3> QED BY <3>1, <3>2
  <2> QED BY <2>4, <2>5
<1>6. /\ k # "cq" => C = {}
      /\ k = "cq" => C = {<<"cq", x, c>>}
  <2>1. \A s \in Scheds : c \in cq[s] <=> k = "cq" /\ s = x
    BY <1>0, <1>1, Boxes DEF At
  <2>2. k = "cq" => x \in Scheds
    BY <1>1, Boxes DEF At
  <2> QED BY <2>1, <2>2
<1>7. /\ k \notin {"inbox", "local", "batch", "next"} => U = {}
      /\ k \in {"inbox", "local", "batch", "next"} => \E i : U = {<<"queue", x, i>>}
  <2>1. \A s \in Scheds : Has(Queued(s), c) <=> k \in {"inbox", "local", "batch", "next"} /\ s = x
    <3> TAKE s \in Scheds
    <3>1. \A l \in {"inbox", "local", "batch", "next"} : At(c, l, s) <=> l = k /\ s = x
      BY <1>0, <1>1, Boxes
    <3> QED BY <3>1, QueuedIs
  <2>2. \A s \in Scheds : At5(s) = {i \in 1..Len(Queued(s)) : Queued(s)[i] = c}
    <3> TAKE s \in Scheds
    <3>1. Queued(s) \in Seq(Coros \cup {NoOp, None})
      <4> DEFINE S == Coros \cup {NoOp, None}
                 last == IF runnext[s] = None THEN <<>> ELSE <<runnext[s]>>
      <4>1. /\ inbox[s] \in Seq(S) /\ local[s] \in Seq(S) /\ batch[s] \in Seq(S)
            /\ last \in Seq(S)
        BY QueuesInOne
      <4>2. Queued(s) = inbox[s] \o local[s] \o batch[s] \o last
        BY DEF Queued
      <4> HIDE DEF S, last
      <4>3. Queued(s) \in Seq(S)
        BY <4>1, <4>2
      <4> QED BY <4>3 DEF S
    <3> QED BY <3>1
  <2>3. \A s \in Scheds : Has(Queued(s), c) <=> At5(s) # {}
    BY <2>2 DEF Has
  <2>4. \A s \in Scheds : \A i, j \in At5(s) : i = j
    BY <2>2, QueuedIs DEF Once
  <2> HIDE DEF At5
  <2>5. CASE k \notin {"inbox", "local", "batch", "next"}
    BY <2>1, <2>3, <2>5
  <2>6. CASE k \in {"inbox", "local", "batch", "next"}
    <3>1. x \in Scheds
      BY <1>1, <2>6, Boxes DEF At
    <3>2. PICK i : At5(x) = {i}
      BY <2>1, <2>3, <2>4, <2>6, <3>1
    <3>3. \A s \in Scheds : s # x => At5(s) = {}
      BY <2>1, <2>3
    <3>4. U = {<<"queue", x, i>>}
      BY <3>1, <3>2, <3>3
    <3> QED BY <2>6, <3>4
  <2> QED BY <2>5, <2>6
<1>8. Places(c) = A \cup F \cup L \cup Q \cup C \cup U
  BY DEF Places
<1> HIDE DEF A, F, L, Q, C, U, h
<1>9. \E p : Places(c) = {p}
  <2>1. CASE k = "asleep"
    BY <1>2, <1>3, <1>4, <1>5, <1>6, <1>7, <1>8, <2>1
  <2>2. CASE k = "call"
    BY <1>2, <1>3, <1>4, <1>5, <1>6, <1>7, <1>8, <2>2
  <2>3. CASE k = "sq"
    BY <1>2, <1>3, <1>4, <1>5, <1>6, <1>7, <1>8, <2>3
  <2>4. CASE k = "cq"
    BY <1>2, <1>3, <1>4, <1>5, <1>6, <1>7, <1>8, <2>4
  <2>5. CASE k \in {"inbox", "local", "batch", "next"}
    BY <1>2, <1>3, <1>4, <1>5, <1>6, <1>7, <1>8, <2>5
  <2>6. CASE k = "refused"
    BY <1>2, <1>3, <1>4, <1>5, <1>6, <1>7, <1>8, <2>6
  <2> QED BY <2>1, <2>2, <2>3, <2>4, <2>5, <2>6 DEF Kinds
<1> QED BY <1>9, FS_Singleton

(* No coroutine is forgotten, but by a dispatch_on() that found the inbox  *)
(* full, and none is in two places, through dispatch, msg_ring, flushes of *)
(* full submission queues, late pushes and stop(), as long as no scheduler *)
(* has more coroutines of its own than its local queue and runnext_ have   *)
(* room for.                                                               *)
THEOREM EachInOnePlace == ASSUME Fits PROVE Spec => []OnePlace
<1>1. PlaceInv /\ [Next]_vars => PlaceInv'
  BY PlaceStep
<1> QED BY <1>1, PlaceInit, PlaceIsOne, PTL DEF Spec
=============================================================================
