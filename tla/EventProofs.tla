---------------------------- MODULE EventProofs -----------------------------
(***************************************************************************)
(* Proofs about Event, for any number of waiters and of callers of set(),  *)
(* any placement of them on schedulers and any inbox capacity.             *)
(***************************************************************************)
EXTENDS Event, SeqFacts, SequenceTheorems, TLAPS

InChain(c) == \E t \in Setters : c \in Range(chain[t])

(* The mutex is held by the coroutine in await_suspend()'s critical        *)
(* section; set() holds it only within one step.                           *)
MutexState == /\ mutex \notin Setters
              /\ \A c \in Coros : wpc[c] \in {"check", "push"} <=> mutex = c

(* At most one call of set() has found signaled_ false. *)
SetState ==
  /\ \A t \in Setters : spc[t] # "idle" => signaled
  /\ \A t, u \in Setters : spc[t] # "idle" /\ spc[u] # "idle" => t = u
  /\ \A t \in Setters : spc[t] # "resume" => chain[t] = <<>>

(* A coroutine that read signaled_ as false and is about to join the list  *)
(* of an event that is set has the call of set() waiting for its mutex.    *)
PushState ==
  \A c \in Coros : wpc[c] = "push" /\ signaled => \E t \in Setters : spc[t] = "take"

(* The lists of suspended coroutines: WaitersOnce in a form that suits the *)
(* provers.                                                                *)
ListState ==
  /\ IsInjective(waiters)
  /\ \A t \in Setters : IsInjective(chain[t])
  /\ \A c \in Coros : wpc[c] = "suspended" <=> c \in Range(waiters) \/ InChain(c)
  /\ \A c \in Coros : ~(c \in Range(waiters) /\ InChain(c))

(* The inboxes hold the coroutines that were dispatched, each once. *)
InboxState ==
  /\ \A s \in Scheds : IsInjective(inbox[s])
  /\ \A s \in Scheds : \A c \in Range(inbox[s]) :
       c \in Coros /\ SchedOf[c] = s /\ wpc[c] = "inbox"

(* Nobody is released before the exchange. *)
ReleaseState ==
  /\ passed # {} => signaled
  /\ \A c \in Coros : wpc[c] \in {"inbox", "ready", "dropped"} => signaled

IInv == /\ TypeOK
        /\ MutexState
        /\ SetState
        /\ PushState
        /\ NoStrandedWaiter
        /\ ListState
        /\ InboxState
        /\ ReleaseState

LEMMA InitInv == Init => IInv
<1> SUFFICES ASSUME Init PROVE IInv
  OBVIOUS
<1>1. TypeOK
  BY EmptySeq DEF Init, TypeOK
<1>2. ListState /\ InboxState
  BY EmptyFacts DEF Init, ListState, InboxState, InChain
<1>3. NoStrandedWaiter /\ MutexState /\ SetState /\ PushState /\ ReleaseState
  BY ThreadsDistinct
  DEF Init, NoStrandedWaiter, MutexState, SetState, PushState, ReleaseState
<1> QED BY <1>1, <1>2, <1>3 DEF IInv

LEMMA TypeStep == TypeOK /\ [Next]_vars => TypeOK'
<1> SUFFICES ASSUME TypeOK, [Next]_vars PROVE TypeOK'
  OBVIOUS
<1> USE DEF TypeOK
<1>1. ASSUME NEW c \in Coros, Wait(c) PROVE TypeOK'
  <2>1. CASE AwaitReady(c)    BY <2>1 DEF AwaitReady
  <2>2. CASE SuspendLock(c)   BY <2>2 DEF SuspendLock
  <2>3. CASE SuspendCheck(c)  BY <2>3 DEF SuspendCheck
  <2>4. CASE SuspendPush(c)
    <3>1. Cons(c, waiters) \in Seq(Coros)
      BY ConsFacts
    <3> QED BY <2>4, <3>1 DEF SuspendPush
  <2> QED BY <1>1, <2>1, <2>2, <2>3, <2>4 DEF Wait
<1>2. ASSUME NEW c \in Coros, Resume(c) PROVE TypeOK'
  BY <1>2 DEF Resume
<1>3. ASSUME NEW t \in Setters, Set(t) PROVE TypeOK'
  <2>1. CASE SetExchange(t)  BY <2>1 DEF SetExchange
  <2>2. CASE SetTake(t)      BY <2>2, EmptySeq DEF SetTake
  <2>3. CASE SetResume(t)
    <3> DEFINE c == Head(chain[t])
    <3>1. c \in Coros /\ Tail(chain[t]) \in Seq(Coros)
      BY <2>3, HeadTailProperties DEF SetResume
    <3>2. SchedOf[c] \in Scheds => Append(inbox[SchedOf[c]], c) \in Seq(Coros)
      BY <3>1
    <3>3. /\ chain' = [chain EXCEPT ![t] = Tail(@)]
          /\ \E v \in {"ready", "inbox", "dropped", "idle"} : wpc' = [wpc EXCEPT ![c] = v]
          /\ passed' = passed \/ passed' = passed \cup {c}
          /\ \/ inbox' = inbox
             \/ /\ SchedOf[c] \in Scheds
                /\ inbox' = [inbox EXCEPT ![SchedOf[c]] = Append(@, c)]
          /\ UNCHANGED <<signaled, mutex, waiters, spc>>
      BY <2>3 DEF SetResume
    <3>4. inbox' \in [Scheds -> Seq(Coros)]
      BY <3>2, <3>3
    <3> HIDE DEF c
    <3> QED BY <3>1, <3>3, <3>4
  <2>4. CASE SetReturn(t)    BY <2>4 DEF SetReturn
  <2> QED BY <1>3, <2>1, <2>2, <2>3, <2>4 DEF Set
<1>4. ASSUME NEW s \in Scheds, ProcessInbox(s) PROVE TypeOK'
  <2>1. Head(inbox[s]) \in Coros /\ Tail(inbox[s]) \in Seq(Coros)
    BY <1>4, HeadTailProperties DEF ProcessInbox
  <2> QED BY <1>4, <2>1 DEF ProcessInbox
<1>5. CASE UNCHANGED vars  BY <1>5 DEF vars
<1> QED BY <1>1, <1>2, <1>3, <1>4, <1>5 DEF Next

(* The event's fields and its callers' locals keep their types. *)
THEOREM TypeCorrect == Spec => []TypeOK
<1>1. Init => TypeOK
  BY EmptySeq DEF Init, TypeOK
<1> QED BY <1>1, TypeStep, PTL DEF Spec
-----------------------------------------------------------------------------
(* Each step preserves the invariant.                                      *)

LEMMA AwaitReadyInv ==
  ASSUME IInv, NEW c \in Coros, AwaitReady(c), TypeOK'
  PROVE  IInv'
<1>1. /\ UNCHANGED <<signaled, mutex, waiters, spc, chain, inbox>>
      /\ wpc[c] = "idle"
      /\ \/ signaled /\ wpc' = wpc
         \/ passed' = passed /\ wpc' = [wpc EXCEPT ![c] = "lock"]
  BY DEF AwaitReady
<1>2. MutexState' /\ SetState' /\ PushState' /\ NoStrandedWaiter'
  BY <1>1 DEF MutexState, SetState, PushState, NoStrandedWaiter, IInv, TypeOK
<1>3. ListState'
  BY <1>1 DEF ListState, InChain, IInv, TypeOK
<1>4. InboxState'
  BY <1>1 DEF InboxState, IInv, TypeOK
<1>5. ReleaseState'
  BY <1>1 DEF ReleaseState, IInv, TypeOK
<1> QED BY <1>2, <1>3, <1>4, <1>5 DEF IInv

LEMMA SuspendLockInv ==
  ASSUME IInv, NEW c \in Coros, SuspendLock(c), TypeOK'
  PROVE  IInv'
<1>1. /\ UNCHANGED <<signaled, waiters, passed, spc, chain, inbox>>
      /\ wpc[c] = "lock" /\ wpc' = [wpc EXCEPT ![c] = "check"]
      /\ mutex = Nobody /\ mutex' = c
  BY DEF SuspendLock
<1>2. MutexState' /\ SetState' /\ PushState' /\ NoStrandedWaiter'
  BY <1>1, ThreadsDistinct
  DEF MutexState, SetState, PushState, NoStrandedWaiter, IInv, TypeOK
<1>3. ListState'
  BY <1>1 DEF ListState, InChain, IInv, TypeOK
<1>4. InboxState'
  BY <1>1 DEF InboxState, IInv, TypeOK
<1>5. ReleaseState'
  BY <1>1 DEF ReleaseState, IInv, TypeOK
<1> QED BY <1>2, <1>3, <1>4, <1>5 DEF IInv

LEMMA SuspendCheckInv ==
  ASSUME IInv, NEW c \in Coros, SuspendCheck(c), TypeOK'
  PROVE  IInv'
<1>1. /\ UNCHANGED <<signaled, waiters, spc, chain, inbox>>
      /\ wpc[c] = "check"
      /\ \/ signaled /\ mutex' = Nobody /\ wpc' = [wpc EXCEPT ![c] = "idle"]
         \/ /\ ~signaled /\ UNCHANGED <<mutex, passed>>
            /\ wpc' = [wpc EXCEPT ![c] = "push"]
  BY DEF SuspendCheck
<1>2. MutexState'
  BY <1>1, ThreadsDistinct DEF MutexState, IInv, TypeOK
<1>3. SetState' /\ PushState' /\ NoStrandedWaiter'
  BY <1>1 DEF SetState, PushState, NoStrandedWaiter, IInv, TypeOK
<1>4. ListState'
  BY <1>1 DEF ListState, InChain, IInv, TypeOK
<1>5. InboxState'
  BY <1>1 DEF InboxState, IInv, TypeOK
<1>6. ReleaseState'
  BY <1>1 DEF ReleaseState, IInv, TypeOK
<1> QED BY <1>2, <1>3, <1>4, <1>5, <1>6 DEF IInv

(* The race the second read of signaled_ leaves open: the exchange may     *)
(* have happened since, but not the taking of the list.                    *)
LEMMA SuspendPushInv ==
  ASSUME IInv, NEW c \in Coros, SuspendPush(c), TypeOK'
  PROVE  IInv'
<1>1. /\ UNCHANGED <<signaled, passed, spc, chain, inbox>>
      /\ wpc[c] = "push" /\ wpc' = [wpc EXCEPT ![c] = "suspended"]
      /\ mutex' = Nobody
      /\ waiters' = Cons(c, waiters)
  BY DEF SuspendPush
<1>2. c \notin Range(waiters) /\ ~InChain(c)
  BY <1>1 DEF IInv, ListState
<1>3. Range(waiters') = Range(waiters) \cup {c} /\ IsInjective(waiters')
  <2>1. waiters \in Seq(Coros) /\ IsInjective(waiters)
    BY DEF IInv, ListState, TypeOK
  <2>2. /\ Range(Cons(c, waiters)) = Range(waiters) \cup {c}
        /\ IsInjective(Cons(c, waiters))
    BY <1>2, <2>1, ConsFacts
  <2> QED BY <1>1, <2>2
<1>4. MutexState'
  BY <1>1, ThreadsDistinct DEF MutexState, IInv, TypeOK
<1>5. NoStrandedWaiter'
  <2>1. signaled => \E t \in Setters : spc[t] = "take"
    BY <1>1 DEF PushState, IInv
  <2> QED BY <1>1, <2>1, Zenon DEF NoStrandedWaiter
<1>6. SetState' /\ PushState'
  BY <1>1 DEF SetState, PushState, IInv, TypeOK
<1>7. ListState'
  BY <1>1, <1>2, <1>3 DEF ListState, InChain, IInv, TypeOK
<1>8. InboxState'
  BY <1>1 DEF InboxState, IInv, TypeOK
<1>9. ReleaseState'
  BY <1>1 DEF ReleaseState, IInv, TypeOK
<1> QED BY <1>4, <1>5, <1>6, <1>7, <1>8, <1>9 DEF IInv

LEMMA SetExchangeInv ==
  ASSUME IInv, NEW t \in Setters, SetExchange(t), TypeOK'
  PROVE  IInv'
<1>1. /\ UNCHANGED <<mutex, waiters, wpc, passed, chain, inbox>>
      /\ spc[t] = "idle" /\ signaled' = TRUE
      /\ spc' = IF signaled THEN spc ELSE [spc EXCEPT ![t] = "take"]
  BY DEF SetExchange
<1>2. ~signaled => \A u \in Setters : spc[u] = "idle"
  BY DEF IInv, SetState
<1>3. SetState' /\ PushState' /\ NoStrandedWaiter'
  BY <1>1, <1>2 DEF SetState, PushState, NoStrandedWaiter, IInv, TypeOK
<1>4. MutexState' /\ ListState' /\ InboxState' /\ ReleaseState'
  BY <1>1 DEF MutexState, ListState, InChain, InboxState, ReleaseState, IInv
<1> QED BY <1>3, <1>4 DEF IInv

LEMMA SetTakeInv ==
  ASSUME IInv, NEW t \in Setters, SetTake(t), TypeOK'
  PROVE  IInv'
<1>1. /\ UNCHANGED <<signaled, mutex, wpc, passed, inbox>>
      /\ mutex = Nobody
      /\ spc[t] = "take" /\ spc' = [spc EXCEPT ![t] = "resume"]
      /\ chain' = [chain EXCEPT ![t] = waiters]
      /\ waiters' = <<>>
  BY DEF SetTake
<1>2. \A u \in Setters : chain[u] = <<>>
  BY <1>1 DEF IInv, SetState
<1>3. \A c \in Coros : wpc[c] # "push"
  BY <1>1, ThreadsDistinct DEF IInv, MutexState
<1>4. /\ \A c \in Coros : ~InChain(c)
      /\ \A c \in Coros : InChain(c)' <=> c \in Range(waiters)
  BY <1>1, <1>2, EmptyFacts DEF InChain, IInv, TypeOK
<1>5. MutexState' /\ InboxState' /\ ReleaseState'
  BY <1>1 DEF MutexState, InboxState, ReleaseState, IInv
<1>6. SetState' /\ PushState' /\ NoStrandedWaiter'
  BY <1>1, <1>3 DEF SetState, PushState, NoStrandedWaiter, IInv, TypeOK
<1>7. ListState'
  BY <1>1, <1>2, <1>4, EmptyFacts DEF ListState, IInv, TypeOK
<1> QED BY <1>5, <1>6, <1>7 DEF IInv

(* The waiter leaves the chain as it is resumed, dispatched or dropped. *)
LEMMA SetResumeInv ==
  ASSUME IInv, NEW t \in Setters, SetResume(t), TypeOK'
  PROVE  IInv'
<1> DEFINE c == Head(chain[t])
           s == SchedOf[c]
<1>1. /\ UNCHANGED <<signaled, mutex, waiters, spc>>
      /\ spc[t] = "resume" /\ chain[t] # <<>>
      /\ chain' = [chain EXCEPT ![t] = Tail(chain[t])]
  BY DEF SetResume
<1>2. chain[t] \in Seq(Coros) /\ IsInjective(chain[t])
  BY DEF IInv, TypeOK, ListState
<1>3. /\ c \in Coros /\ c \in Range(chain[t])
      /\ Range(chain'[t]) = Range(chain[t]) \ {c} /\ IsInjective(chain'[t])
  BY <1>1, <1>2, TailFacts DEF IInv, TypeOK
<1>4. signaled /\ \A u \in Setters \ {t} : chain[u] = <<>> /\ chain'[u] = <<>>
  BY <1>1 DEF IInv, SetState, TypeOK
<1>5. InChain(c) /\ wpc[c] = "suspended" /\ c \notin Range(waiters)
  BY <1>3 DEF IInv, ListState, InChain
<1>6. \A d \in Coros : InChain(d)' <=> InChain(d) /\ d # c
  BY <1>3, <1>4, EmptyFacts DEF InChain
<1>7. PICK v \in {"ready", "inbox", "dropped", "idle"} : wpc' = [wpc EXCEPT ![c] = v]
  BY DEF SetResume
<1>8. \/ inbox' = inbox
      \/ /\ s \in Scheds /\ wpc'[c] = "inbox"
         /\ inbox' = [inbox EXCEPT ![s] = Append(inbox[s], c)]
  BY <1>3 DEF SetResume, IInv, TypeOK
<1> HIDE DEF c, s
<1>9. MutexState'
  BY <1>1, <1>3, <1>5, <1>7 DEF MutexState, IInv, TypeOK
<1>10. SetState' /\ PushState' /\ NoStrandedWaiter'
  BY <1>1, <1>3, <1>4, <1>5, <1>7
  DEF SetState, PushState, NoStrandedWaiter, IInv, TypeOK
<1>11. ListState'
  <2>1. \A d \in Coros : wpc'[d] = "suspended" <=> d \in Range(waiters') \/ InChain(d)'
    BY <1>1, <1>3, <1>5, <1>6, <1>7 DEF IInv, ListState, TypeOK
  <2>2. \A u \in Setters : IsInjective(chain'[u])
    BY <1>3, <1>4, EmptyFacts
  <2> QED BY <1>1, <1>6, <2>1, <2>2 DEF ListState, IInv
<1>12. \A d \in Coros \ {c} : wpc'[d] = wpc[d]
  BY <1>3, <1>7 DEF IInv, TypeOK
<1>13. \A u \in Scheds : c \notin Range(inbox[u])
  BY <1>5 DEF IInv, InboxState
<1>14. InboxState'
  <2>1. CASE inbox' = inbox
    BY <1>12, <1>13, <2>1 DEF InboxState, IInv
  <2>2. CASE /\ s \in Scheds /\ wpc'[c] = "inbox"
             /\ inbox' = [inbox EXCEPT ![s] = Append(inbox[s], c)]
    <3>1. /\ Range(inbox'[s]) = Range(inbox[s]) \cup {c}
          /\ IsInjective(inbox'[s])
      BY <1>3, <1>13, <2>2, AppendFacts DEF IInv, InboxState, TypeOK
    <3>2. \A u \in Scheds \ {s} : inbox'[u] = inbox[u]
      BY <2>2 DEF IInv, TypeOK
    <3> QED BY <1>3, <1>12, <1>13, <2>2, <3>1, <3>2 DEF InboxState, IInv, s
  <2> QED BY <1>8, <2>1, <2>2
<1>15. ReleaseState'
  BY <1>1, <1>4 DEF ReleaseState
<1> QED BY <1>9, <1>10, <1>11, <1>14, <1>15 DEF IInv

LEMMA SetReturnInv ==
  ASSUME IInv, NEW t \in Setters, SetReturn(t), TypeOK'
  PROVE  IInv'
<1>1. /\ UNCHANGED <<signaled, mutex, waiters, wpc, passed, chain, inbox>>
      /\ spc[t] = "resume" /\ spc' = [spc EXCEPT ![t] = "idle"]
      /\ chain[t] = <<>>
  BY DEF SetReturn
<1>2. SetState' /\ PushState' /\ NoStrandedWaiter'
  BY <1>1 DEF SetState, PushState, NoStrandedWaiter, IInv, TypeOK
<1>3. MutexState' /\ ListState' /\ InboxState' /\ ReleaseState'
  BY <1>1 DEF MutexState, ListState, InChain, InboxState, ReleaseState, IInv
<1> QED BY <1>2, <1>3 DEF IInv

LEMMA ProcessInboxInv ==
  ASSUME IInv, NEW s \in Scheds, ProcessInbox(s), TypeOK'
  PROVE  IInv'
<1> DEFINE c == Head(inbox[s])
<1>1. /\ UNCHANGED <<signaled, mutex, waiters, passed, spc, chain>>
      /\ inbox[s] # <<>>
      /\ wpc' = [wpc EXCEPT ![c] = "ready"]
      /\ inbox' = [inbox EXCEPT ![s] = Tail(inbox[s])]
  BY DEF ProcessInbox
<1>2. /\ c \in Coros /\ c \in Range(inbox[s])
      /\ Range(inbox'[s]) = Range(inbox[s]) \ {c} /\ IsInjective(inbox'[s])
  BY <1>1, TailFacts DEF IInv, TypeOK, InboxState
<1> HIDE DEF c
<1>3. wpc[c] = "inbox" /\ SchedOf[c] = s
  BY <1>2 DEF IInv, InboxState
<1>4. MutexState' /\ PushState'
  BY <1>1, <1>2, <1>3 DEF MutexState, PushState, IInv, TypeOK
<1>5. SetState' /\ NoStrandedWaiter'
  BY <1>1 DEF SetState, NoStrandedWaiter, IInv
<1>6. ListState'
  BY <1>1, <1>2, <1>3 DEF ListState, InChain, IInv, TypeOK
<1>7. InboxState'
  <2>1. \A u \in Scheds \ {s} : inbox'[u] = inbox[u] /\ c \notin Range(inbox[u])
    BY <1>1, <1>3 DEF IInv, InboxState, TypeOK
  <2>2. \A d \in Coros \ {c} : wpc'[d] = wpc[d]
    BY <1>1, <1>2 DEF IInv, TypeOK
  <2> QED BY <1>2, <2>1, <2>2 DEF InboxState, IInv
<1>8. ReleaseState'
  BY <1>1, <1>2, <1>3 DEF ReleaseState, IInv, TypeOK
<1> QED BY <1>4, <1>5, <1>6, <1>7, <1>8 DEF IInv

LEMMA ResumeInv ==
  ASSUME IInv, NEW c \in Coros, Resume(c), TypeOK'
  PROVE  IInv'
<1>1. /\ UNCHANGED <<signaled, mutex, waiters, spc, chain, inbox>>
      /\ wpc[c] = "ready" /\ wpc' = [wpc EXCEPT ![c] = "idle"]
  BY DEF Resume
<1>2. MutexState' /\ SetState' /\ PushState' /\ NoStrandedWaiter'
  BY <1>1 DEF MutexState, SetState, PushState, NoStrandedWaiter, IInv, TypeOK
<1>3. ListState'
  BY <1>1 DEF ListState, InChain, IInv, TypeOK
<1>4. InboxState'
  BY <1>1 DEF InboxState, IInv, TypeOK
<1>5. ReleaseState'
  BY <1>1 DEF ReleaseState, IInv, TypeOK
<1> QED BY <1>2, <1>3, <1>4, <1>5 DEF IInv

LEMMA InvStep == IInv /\ [Next]_vars => IInv'
<1> SUFFICES ASSUME IInv, [Next]_vars PROVE IInv'
  OBVIOUS
<1>1. TypeOK'
  BY TypeStep DEF IInv
<1>2. ASSUME NEW c \in Coros, Wait(c) \/ Resume(c) PROVE IInv'
  BY <1>1, <1>2, AwaitReadyInv, SuspendLockInv, SuspendCheckInv, SuspendPushInv,
     ResumeInv DEF Wait
<1>3. ASSUME NEW t \in Setters, Set(t) PROVE IInv'
  BY <1>1, <1>3, SetExchangeInv, SetTakeInv, SetResumeInv, SetReturnInv DEF Set
<1>4. ASSUME NEW s \in Scheds, ProcessInbox(s) PROVE IInv'
  BY <1>1, <1>4, ProcessInboxInv
<1>5. CASE UNCHANGED vars
  BY <1>1, <1>5 DEF vars, IInv, MutexState, SetState, PushState,
     NoStrandedWaiter, ListState, InChain, InboxState, ReleaseState
<1> QED BY <1>2, <1>3, <1>4, <1>5 DEF Next

(* The invariant holds in every reachable state. *)
THEOREM Invariant == Spec => []IInv
  BY InitInv, InvStep, PTL DEF Spec

(* Whatever the race between await_suspend() and set(), no waiter is left  *)
(* in the list of an event that is set with nobody to take it.             *)
THEOREM NoneStranded == Spec => []NoStrandedWaiter
<1>1. IInv => NoStrandedWaiter
  BY DEF IInv
<1> QED BY <1>1, Invariant, PTL

(* Every suspended coroutine is in one list exactly once, so it is resumed *)
(* at most once and set() only reads nodes whose frames exist.             *)
THEOREM EachWaiterOnce == Spec => []WaitersOnce
<1>1. IInv => WaitersOnce
  <2> SUFFICES ASSUME IInv PROVE WaitersOnce
    OBVIOUS
  <2>1. \A c \in Coros :
          InChain(c) <=> c \in UNION {Range(chain[t]) : t \in Setters}
    BY DEF InChain
  <2>2. \A t \in Setters : Range(chain[t]) \subseteq Coros
    BY DEF IInv, TypeOK, Range
  <2>3. \A t \in Setters : Range(waiters) \cap Range(chain[t]) = {}
    BY <2>2 DEF IInv, ListState, InChain
  <2> QED BY <2>1, <2>3 DEF IInv, ListState, WaitersOnce
<1> QED BY <1>1, Invariant, PTL

(* No coroutine gets past co_await event before set() is called. *)
THEOREM NotEarly == Spec => []NotBeforeSet
<1>1. IInv => NotBeforeSet
  BY DEF IInv, ReleaseState, NotBeforeSet
<1> QED BY <1>1, Invariant, PTL
=============================================================================
