------------------------------- MODULE Event --------------------------------
(***************************************************************************)
(* novaio::Event (include/novaio/event.hpp): a one-shot event.  signaled_  *)
(* is atomic and is read and exchanged without the mutex; the mutex guards *)
(* only the list of waiting Awaiters.  set() takes the whole list and      *)
(* resumes its waiters one by one, each on the scheduler it waited on,     *)
(* going through that scheduler's bounded inbox when it is another one.    *)
(*                                                                         *)
(* Every access to signaled_ is a step, and so is each critical section of *)
(* the mutex, but for await_suspend()'s, which reads signaled_ inside.  An *)
(* Awaiter lives in the frame of its coroutine, which stands for it.       *)
(***************************************************************************)
EXTENDS Naturals, Sequences, SequencesExt

CONSTANTS Coros,          (* coroutines that wait for the event            *)
          Setters,        (* callers of set()                              *)
          Scheds,         (* schedulers                                    *)
          SchedOf,        (* where a coroutine or a caller of set() runs   *)
          NoSched,        (* Scheduler::current() outside a scheduler      *)
          Nobody,         (* the owner of an unlocked mutex                *)
          InboxCapacity   (* capacity of a scheduler's inbox               *)

ASSUME ThreadsDistinct == /\ Coros \cap Setters = {}
                          /\ Nobody \notin Coros \cup Setters

ASSUME Placed == /\ SchedOf \in [Coros \cup Setters -> Scheds \cup {NoSched}]
                 /\ NoSched \notin Scheds

VARIABLES
  signaled,   (* signaled_                                                 *)
  mutex,      (* the owner of mutex_                                       *)
  waiters,    (* waiters_: the list, newest waiter first                   *)
  wpc,        (* where a coroutine is: in co_await event, or on its way    *)
  passed,     (* the coroutines that have got past a co_await              *)
  spc,        (* where a caller is in set()                                *)
  chain,      (* set()'s local waiters                                     *)
  inbox       (* the tasks that set() dispatched to a scheduler            *)

vars == <<signaled, mutex, waiters, wpc, passed, spc, chain, inbox>>

Init == /\ signaled = FALSE
        /\ mutex = Nobody
        /\ waiters = <<>>
        /\ wpc = [c \in Coros |-> "idle"]
        /\ passed = {}
        /\ spc = [t \in Setters |-> "idle"]
        /\ chain = [t \in Setters |-> <<>>]
        /\ inbox = [s \in Scheds |-> <<>>]
-----------------------------------------------------------------------------
(* co_await event                                                          *)

(* await_ready(): the coroutine goes on when the event is already set. *)
AwaitReady(c) ==
  /\ wpc[c] = "idle"
  /\ \/ /\ signaled
        /\ passed' = passed \cup {c}
        /\ UNCHANGED wpc
     \/ /\ ~signaled
        /\ wpc' = [wpc EXCEPT ![c] = "lock"]
        /\ UNCHANGED passed
  /\ UNCHANGED <<signaled, mutex, waiters, spc, chain, inbox>>

(* await_suspend() enters its critical section... *)
SuspendLock(c) ==
  /\ wpc[c] = "lock"
  /\ mutex = Nobody
  /\ mutex' = c
  /\ wpc' = [wpc EXCEPT ![c] = "check"]
  /\ UNCHANGED <<signaled, waiters, passed, spc, chain, inbox>>

(* Mutant: signaled_ is not read again. *)
SuspendCheck_NoRecheck(c) ==
  /\ wpc[c] = "check"
  /\ wpc' = [wpc EXCEPT ![c] = "push"]
  /\ UNCHANGED <<signaled, mutex, waiters, passed, spc, chain, inbox>>

(* ... reads signaled_ again, and returns false if it is set meanwhile... *)
SuspendCheck(c) ==
  /\ wpc[c] = "check"
  /\ \/ /\ signaled
        /\ mutex' = Nobody
        /\ passed' = passed \cup {c}
        /\ wpc' = [wpc EXCEPT ![c] = "idle"]
     \/ /\ ~signaled
        /\ wpc' = [wpc EXCEPT ![c] = "push"]
        /\ UNCHANGED <<mutex, passed>>
  /\ UNCHANGED <<signaled, waiters, spc, chain, inbox>>

(* ... or puts the awaiter in front of the list and suspends. *)
SuspendPush(c) ==
  /\ wpc[c] = "push"
  /\ mutex' = Nobody
  /\ waiters' = Cons(c, waiters)
  /\ wpc' = [wpc EXCEPT ![c] = "suspended"]
  /\ UNCHANGED <<signaled, passed, spc, chain, inbox>>
-----------------------------------------------------------------------------
(* set()                                                                   *)

(* Only the first call finds signaled_ false; the others return. *)
SetExchange(t) ==
  /\ spc[t] = "idle"
  /\ signaled' = TRUE
  /\ spc' = IF signaled THEN spc ELSE [spc EXCEPT ![t] = "take"]
  /\ UNCHANGED <<mutex, waiters, wpc, passed, chain, inbox>>

(* Mutant: the list is read, and not emptied. *)
SetTake_Keep(t) ==
  /\ spc[t] = "take"
  /\ mutex = Nobody
  /\ chain' = [chain EXCEPT ![t] = waiters]
  /\ spc' = [spc EXCEPT ![t] = "resume"]
  /\ UNCHANGED <<signaled, mutex, waiters, wpc, passed, inbox>>

(* The whole list is taken in one critical section. *)
SetTake(t) ==
  /\ spc[t] = "take"
  /\ mutex = Nobody
  /\ chain' = [chain EXCEPT ![t] = waiters]
  /\ waiters' = <<>>
  /\ spc' = [spc EXCEPT ![t] = "resume"]
  /\ UNCHANGED <<signaled, mutex, wpc, passed, inbox>>

(* resume_waiter(): the waiter's own scheduler queues it, another one is   *)
(* sent a task, and a waiter that runs on no scheduler is resumed on the   *)
(* spot.  A task that finds the inbox full is destroyed, with the only     *)
(* handle of the waiter.  next_ has been read before.                      *)
SetResume(t) ==
  LET c == Head(chain[t])
      s == SchedOf[c]
  IN /\ spc[t] = "resume"
     /\ chain[t] # <<>>
     /\ chain' = [chain EXCEPT ![t] = Tail(@)]
     /\ \/ /\ s \in Scheds /\ s = SchedOf[t]
           /\ wpc' = [wpc EXCEPT ![c] = "ready"]
           /\ UNCHANGED <<passed, inbox>>
        \/ /\ s \in Scheds /\ s # SchedOf[t]
           /\ Len(inbox[s]) < InboxCapacity
           /\ inbox' = [inbox EXCEPT ![s] = Append(@, c)]
           /\ wpc' = [wpc EXCEPT ![c] = "inbox"]
           /\ UNCHANGED passed
        \/ /\ s \in Scheds /\ s # SchedOf[t]
           /\ Len(inbox[s]) >= InboxCapacity
           /\ wpc' = [wpc EXCEPT ![c] = "dropped"]
           /\ UNCHANGED <<passed, inbox>>
        \/ /\ s = NoSched
           /\ wpc' = [wpc EXCEPT ![c] = "idle"]
           /\ passed' = passed \cup {c}
           /\ UNCHANGED inbox
     /\ UNCHANGED <<signaled, mutex, waiters, spc>>

SetReturn(t) ==
  /\ spc[t] = "resume"
  /\ chain[t] = <<>>
  /\ spc' = [spc EXCEPT ![t] = "idle"]
  /\ UNCHANGED <<signaled, mutex, waiters, wpc, passed, chain, inbox>>
-----------------------------------------------------------------------------
(* The waiter's scheduler: process_inbox() runs the dispatched task, which *)
(* schedules the coroutine, and run() resumes it.                          *)

(* Mutant: the task resumes the coroutine itself. *)
ProcessInbox_Inline(s) ==
  /\ inbox[s] # <<>>
  /\ wpc' = [wpc EXCEPT ![Head(inbox[s])] = "running"]
  /\ inbox' = [inbox EXCEPT ![s] = Tail(@)]
  /\ UNCHANGED <<signaled, mutex, waiters, passed, spc, chain>>

ProcessInbox(s) ==
  /\ inbox[s] # <<>>
  /\ wpc' = [wpc EXCEPT ![Head(inbox[s])] = "ready"]
  /\ inbox' = [inbox EXCEPT ![s] = Tail(@)]
  /\ UNCHANGED <<signaled, mutex, waiters, passed, spc, chain>>

Resume(c) ==
  /\ wpc[c] = "ready"
  /\ wpc' = [wpc EXCEPT ![c] = "idle"]
  /\ passed' = passed \cup {c}
  /\ UNCHANGED <<signaled, mutex, waiters, spc, chain, inbox>>
-----------------------------------------------------------------------------
Wait(c) == AwaitReady(c) \/ SuspendLock(c) \/ SuspendCheck(c) \/ SuspendPush(c)
Set(t) == SetExchange(t) \/ SetTake(t) \/ SetResume(t) \/ SetReturn(t)

Next == \/ \E c \in Coros : Wait(c) \/ Resume(c)
        \/ \E t \in Setters : Set(t)
        \/ \E s \in Scheds : ProcessInbox(s)

Spec == Init /\ [][Next]_vars

(* A call of set() that has started runs on, as does a coroutine inside    *)
(* await_suspend(), and each scheduler keeps emptying its inbox and        *)
(* resuming.  Nobody is obliged to wait or to call set().  A std::mutex is *)
(* not fair, but set() needs it once and each coroutine asks for it only   *)
(* while the event is not set.                                             *)
Fairness == /\ \A c \in Coros : /\ WF_vars(SuspendCheck(c) \/ SuspendPush(c))
                                /\ SF_vars(SuspendLock(c))
                                /\ WF_vars(Resume(c))
            /\ \A t \in Setters : SF_vars(SetTake(t)) /\ WF_vars(SetResume(t))
            /\ \A s \in Scheds : WF_vars(ProcessInbox(s))

FairSpec == Spec /\ Fairness
-----------------------------------------------------------------------------
(* The variables keep their types. *)
TypeOK ==
  /\ signaled \in BOOLEAN
  /\ mutex \in Coros \cup Setters \cup {Nobody}
  /\ waiters \in Seq(Coros)
  /\ wpc \in [Coros -> {"idle", "lock", "check", "push", "suspended", "inbox",
                        "ready", "dropped"}]
  /\ passed \subseteq Coros
  /\ spc \in [Setters -> {"idle", "take", "resume"}]
  /\ chain \in [Setters -> Seq(Coros)]
  /\ inbox \in [Scheds -> Seq(Coros)]

(* Nobody gets past co_await before set() is called. *)
NotBeforeSet == passed # {} => signaled

(* No waiter is left in the list of an event that is set: one whose        *)
(* await_suspend() raced with set() is still going to be taken by the call *)
(* of set() that made the exchange.                                        *)
NoStrandedWaiter == signaled /\ waiters # <<>> => \E t \in Setters : spc[t] = "take"

(* Every suspended coroutine is in one list, once; the nodes a call of     *)
(* set() is still going to read belong to suspended coroutines, so their   *)
(* frames, in which they live, cannot be gone.                             *)
WaitersOnce ==
  /\ IsInjective(waiters)
  /\ \A t \in Setters : IsInjective(chain[t])
  /\ \A c \in Coros :
       wpc[c] = "suspended" <=>
         c \in Range(waiters) \cup UNION {Range(chain[t]) : t \in Setters}
  /\ \A t \in Setters : Range(waiters) \cap Range(chain[t]) = {}

(* set() takes off all waiters and resumes them (ENGINEERING_UPGRADE.md:56, *)
(* and :57 for those of another scheduler): whoever is suspended when the  *)
(* event is set gets past its co_await.                                    *)
AllWaitersResumed ==
  \A c \in Coros : (signaled /\ wpc[c] = "suspended") ~> wpc[c] = "idle"
=============================================================================
