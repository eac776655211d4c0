------------------------------ MODULE CoMutex -------------------------------
(***************************************************************************)
(* novaio::CoMutex (include/novaio/comutex.hpp, src/comutex.cpp): the      *)
(* coroutine mutex.  One atomic word, state_, is UNLOCKED,                 *)
(* LOCKED_NO_WAITERS or the address of the newest waiting Awaiter; the     *)
(* waiters pushed since the last unlock form a LIFO chain through next_.   *)
(* The holder keeps a second, private chain waiters_head_ of waiters in    *)
(* arrival order, which it refills by taking and reversing the LIFO chain. *)
(*                                                                         *)
(* Every atomic operation on state_ is one step.  A coroutine has at most  *)
(* one Awaiter on the mutex, so the coroutine's name stands for it, and a  *)
(* chain of next_ pointers is the sequence of the awaiters on it.          *)
(* Coroutines interleave at every step, as if each ran on a thread of its  *)
(* own: a superset of what schedulers that run several of them can do.     *)
(***************************************************************************)
EXTENDS Naturals, Sequences, SequencesExt

CONSTANTS Coros,              (* coroutines that use the mutex             *)
          SchedOf,            (* the Scheduler a coroutine runs on         *)
          NoSched,            (* Scheduler::current() outside a scheduler  *)
          NoCoro,             (* no coroutine                              *)
          UNLOCKED,           (* the words 0 and 1 of state_, which are    *)
          LOCKED_NO_WAITERS   (* never the address of an Awaiter           *)

ASSUME WordsDistinct == /\ UNLOCKED \notin Coros
                        /\ LOCKED_NO_WAITERS \notin Coros
                        /\ UNLOCKED # LOCKED_NO_WAITERS

ASSUME NoCoroIsNone == NoCoro \notin Coros

VARIABLES
  locked,        (* state_ # UNLOCKED                                      *)
  stack,         (* the LIFO chain whose first awaiter state_ points to    *)
  waiters_head,  (* waiters_head_: the holder's chain, oldest first        *)
  taken,         (* unlock()'s local old_state, once it is a chain         *)
  pc,            (* where a coroutine is in lock() / unlock()              *)
  old,           (* await_suspend()'s local old_state                      *)
  route          (* how the resumption of a waiter is travelling           *)

vars == <<locked, stack, waiters_head, taken, pc, old, route>>

Words == Coros \cup {UNLOCKED, LOCKED_NO_WAITERS}

(* The value of state_. *)
Word == IF ~locked THEN UNLOCKED
        ELSE IF stack = <<>> THEN LOCKED_NO_WAITERS
        ELSE Head(stack)

Init == /\ locked = FALSE
        /\ stack = <<>>
        /\ waiters_head = <<>>
        /\ taken = <<>>
        /\ pc = [c \in Coros |-> "idle"]
        /\ old = [c \in Coros |-> UNLOCKED]
        /\ route = [c \in Coros |-> "none"]

Goto(c, from, to) == /\ pc[c] = from
                     /\ pc' = [pc EXCEPT ![c] = to]
-----------------------------------------------------------------------------
(* co_await mutex.lock(): Awaiter::await_suspend().                        *)

(* The first load of state_. *)
LockLoad(c) ==
  /\ Goto(c, "idle", "cas")
  /\ old' = [old EXCEPT ![c] = Word]
  /\ UNCHANGED <<locked, stack, waiters_head, taken, route>>

(* Mutant: load and store in place of the CAS. *)
LockAcquire_NoCas(c) ==
  /\ old[c] = UNLOCKED
  /\ Goto(c, "cas", "cs")
  /\ locked' = TRUE
  /\ UNCHANGED <<stack, waiters_head, taken, old, route>>

(* CAS UNLOCKED -> LOCKED_NO_WAITERS succeeds: the coroutine goes on,      *)
(* holding the lock.                                                       *)
LockAcquire(c) ==
  /\ old[c] = UNLOCKED
  /\ Word = old[c]
  /\ Goto(c, "cas", "cs")
  /\ locked' = TRUE
  /\ UNCHANGED <<stack, waiters_head, taken, old, route>>

(* CAS old_state -> this succeeds, next_ being the chain old_state starts: *)
(* the coroutine is suspended on top of the LIFO chain.  The CAS compares  *)
(* the address only, so the chain below it may have changed since the load.*)
LockPush(c) ==
  /\ old[c] # UNLOCKED
  /\ Word = old[c]
  /\ Goto(c, "cas", "suspended")
  /\ stack' = Cons(c, stack)
  /\ UNCHANGED <<locked, waiters_head, taken, old, route>>

(* Either CAS fails and stores the word it met in old_state.  (A spurious  *)
(* failure of the weak CAS changes nothing that anybody can see.)          *)
LockRetry(c) ==
  /\ pc[c] = "cas"
  /\ Word # old[c]
  /\ old' = [old EXCEPT ![c] = Word]
  /\ UNCHANGED <<locked, stack, waiters_head, taken, pc, route>>
-----------------------------------------------------------------------------
(* unlock(), called by the holder.                                         *)

(* With no waiter of its own the holder exchanges state_ with              *)
(* LOCKED_NO_WAITERS: it got either that word or a chain.                  *)
UnlockExchange(c) ==
  /\ waiters_head = <<>>
  /\ Goto(c, "cs", IF Word = LOCKED_NO_WAITERS THEN "release" ELSE "reverse")
  /\ taken' = stack
  /\ stack' = <<>>
  /\ locked' = TRUE
  /\ UNCHANGED <<waiters_head, old, route>>

(* Mutant: a store of UNLOCKED in place of the CAS. *)
UnlockRelease_Store(c) ==
  /\ Goto(c, "release", "idle")
  /\ locked' = FALSE
  /\ stack' = <<>>
  /\ UNCHANGED <<waiters_head, taken, old, route>>

(* Nobody waits: CAS LOCKED_NO_WAITERS -> UNLOCKED, and unlock() returns.  *)
UnlockRelease(c) ==
  /\ Word = LOCKED_NO_WAITERS
  /\ Goto(c, "release", "idle")
  /\ locked' = FALSE
  /\ UNCHANGED <<stack, waiters_head, taken, old, route>>

(* Mutant: compare_exchange_weak, which may fail for no reason. *)
UnlockReleaseFails_Weak(c) ==
  /\ Goto(c, "release", "retake")
  /\ UNCHANGED <<locked, stack, waiters_head, taken, old, route>>

(* That CAS fails: a waiter arrived since the exchange. *)
UnlockReleaseFails(c) ==
  /\ Word # LOCKED_NO_WAITERS
  /\ Goto(c, "release", "retake")
  /\ UNCHANGED <<locked, stack, waiters_head, taken, old, route>>

(* The second exchange takes the chain of that waiter and of those that    *)
(* came after it; its result is used as an address without a test.         *)
UnlockExchangeAgain(c) ==
  /\ Goto(c, "retake", "reverse")
  /\ taken' = stack
  /\ stack' = <<>>
  /\ locked' = TRUE
  /\ UNCHANGED <<waiters_head, old, route>>

(* Mutant: the chain is used as it was pushed. *)
UnlockReverse_Lifo(c) ==
  /\ Goto(c, "reverse", "resume")
  /\ waiters_head' = taken
  /\ taken' = <<>>
  /\ UNCHANGED <<locked, stack, old, route>>

(* The loop that turns the LIFO chain around. *)
UnlockReverse(c) ==
  /\ Goto(c, "reverse", "resume")
  /\ waiters_head' = Reverse(taken)
  /\ taken' = <<>>
  /\ UNCHANGED <<locked, stack, old, route>>

(* Mutants: the message to another scheduler is forgotten; a waiter that   *)
(* runs on no scheduler is resumed inside unlock(), as Event does.         *)
RouteTo_LocalOnly(s, d) == IF SchedOf[d] = s THEN "local" ELSE "dropped"
RouteTo_Inline(s, d) == CASE SchedOf[d] = NoSched -> "inline"
                          [] SchedOf[d] = s       -> "local"
                          [] OTHER                -> "ring"

(* Where the resumption of waiter d goes when a coroutine of scheduler s   *)
(* unlocks: the local queue, a TAG_CORO message to d's ring, or nowhere    *)
(* when d did not run on a scheduler.                                      *)
RouteTo(s, d) == CASE SchedOf[d] = NoSched             -> "dropped"
                   [] SchedOf[d] # NoSched /\ SchedOf[d] = s -> "local"
                   [] SchedOf[d] # NoSched /\ SchedOf[d] # s -> "ring"

(* The oldest waiter leaves waiters_head_ and is resumed as the new        *)
(* holder; unlock() returns.                                               *)
UnlockResume(c) ==
  /\ pc[c] \in {"cs", "resume"}
  /\ waiters_head # <<>>
  /\ pc' = [pc EXCEPT ![c] = "idle"]
  /\ waiters_head' = Tail(waiters_head)
  /\ route' = [route EXCEPT ![Head(waiters_head)] =
                 RouteTo(SchedOf[c], Head(waiters_head))]
  /\ UNCHANGED <<locked, stack, taken, old>>
-----------------------------------------------------------------------------
(* The waiter's scheduler.                                                 *)

(* IoEngine::poll() meets the TAG_CORO completion and schedules it. *)
Poll(c) ==
  /\ route[c] = "ring"
  /\ route' = [route EXCEPT ![c] = "local"]
  /\ UNCHANGED <<locked, stack, waiters_head, taken, pc, old>>

(* Scheduler::run() resumes it: lock() returns and it holds the lock. *)
Resume(c) ==
  /\ route[c] = "local"
  /\ route' = [route EXCEPT ![c] = "none"]
  /\ pc' = [pc EXCEPT ![c] = "cs"]
  /\ UNCHANGED <<locked, stack, waiters_head, taken, old>>
-----------------------------------------------------------------------------
Lock(c) == LockLoad(c) \/ LockAcquire(c) \/ LockPush(c) \/ LockRetry(c)

Unlock(c) == \/ UnlockExchange(c) \/ UnlockRelease(c) \/ UnlockReleaseFails(c)
             \/ UnlockExchangeAgain(c) \/ UnlockReverse(c) \/ UnlockResume(c)

Next == \E c \in Coros : Lock(c) \/ Unlock(c) \/ Poll(c) \/ Resume(c)

Spec == Init /\ [][Next]_vars

(* A coroutine inside lock() or unlock() is not stopped there, a holder    *)
(* does unlock, and the schedulers keep polling and resuming.  A CAS that  *)
(* can succeed again and again finally does: no thread loses every race.   *)
Fairness ==
  \A c \in Coros :
    /\ WF_vars(LockRetry(c))
    /\ SF_vars(LockAcquire(c) \/ LockPush(c))
    /\ WF_vars(Unlock(c))
    /\ WF_vars(Poll(c) \/ Resume(c))

FairSpec == Spec /\ Fairness
-----------------------------------------------------------------------------
PCs == {"idle", "cas", "suspended", "cs", "release", "retake", "reverse",
        "resume"}

(* The variables keep their types. *)
TypeOK == /\ locked \in BOOLEAN
          /\ stack \in Seq(Coros)
          /\ waiters_head \in Seq(Coros)
          /\ taken \in Seq(Coros)
          /\ pc \in [Coros -> PCs]
          /\ old \in [Coros -> Words]
          /\ route \in [Coros -> {"none", "local", "ring", "dropped"}]

(* c owns the mutex: it is in its critical section or in unlock(), or the  *)
(* ownership is travelling to it.                                          *)
Owns(c) == \/ pc[c] \in {"cs", "release", "retake", "reverse", "resume"}
           \/ route[c] # "none"

(* The mutex never has two owners, the ones being resumed included: what   *)
(* makes waiters_head_, a plain field, safe to use without an atomic.      *)
MutualExclusion == \A c, d \in Coros : Owns(c) /\ Owns(d) => c = d

(* The requests that wait, oldest first, wherever unlock() has them. *)
Queue == waiters_head \o Reverse(taken) \o Reverse(stack)

(* A suspended coroutine is in exactly one chain, once, or is being        *)
(* resumed: no interleaving of pushes and unlocks forgets a waiter or      *)
(* resumes one twice.                                                      *)
NoLostWaiter ==
  /\ \A c \in Coros : pc[c] = "suspended" <=>
                        (c \in Range(Queue)) # (route[c] # "none")
  /\ IsInjective(Queue)

(* When unlock() comes to reverse the chain it took, there is one: neither *)
(* exchange can have returned UNLOCKED or LOCKED_NO_WAITERS, which the     *)
(* code would use as the address of an Awaiter (comutex.cpp:50).           *)
TakesAChain == \A c \in Coros : pc[c] = "reverse" => taken # <<>>

(* The mutex is FIFO: the test suite calls it that ("CoMutex FIFO/CAS      *)
(* competition", examples/test_framework.cpp:121).  No newcomer overtakes  *)
(* a suspended waiter and the lock is never free while somebody waits.     *)
Holder == IF \E c \in Coros : Owns(c) THEN CHOOSE c \in Coros : Owns(c)
          ELSE NoCoro
Fifo == INSTANCE FifoLock WITH holder <- Holder, queue <- Queue
ImplementsFifoLock == Fifo!Spec

(* Whoever calls lock() gets the mutex, unless a waiter that ran on no     *)
(* scheduler was made its owner: nobody resumes that one.                  *)
Abandoned == \E d \in Coros : SchedOf[d] = NoSched /\ route[d] = "dropped"
EveryLockSucceeds == \A c \in Coros : pc[c] = "cas" ~> (pc[c] = "cs" \/ Abandoned)
=============================================================================
