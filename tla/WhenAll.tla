------------------------------ MODULE WhenAll -------------------------------
(***************************************************************************)
(* co_await when_all(tasks...) in a coroutine (include/novaio/when_all.hpp)*)
(* and the coroutine types it is made of (include/novaio/task.hpp): a      *)
(* DetachedTask awaits a Task<void>, the parent, which awaits N Tasks, the *)
(* children, as the repository's tests do.                                 *)
(*                                                                         *)
(* await_suspend() starts the children one after the other.  Each runs     *)
(* inside it, as part of a helper coroutine, until it suspends or ends; a  *)
(* child that suspended is resumed later, maybe by another thread.  When   *)
(* it ends, its helper stores the result and counts it, and the last one   *)
(* has the parent resumed, on its own scheduler or, outside of the         *)
(* runtime, at once.  The tasks, the results and the counter are part of   *)
(* the awaiter, which is destroyed when the parent goes on: nobody may     *)
(* use them after that.                                                    *)
(***************************************************************************)
EXTENDS Naturals

CONSTANTS N,        (* the number of children                              *)
          Scheds,   (* threads that run a scheduler                        *)
          Outside,  (* a thread that does not                              *)
          None

Children == 1..N
Threads == Scheds \cup {Outside}

ASSUME SomeChildren == /\ N \in Nat \ {0}
                       /\ Outside \notin Scheds /\ None \notin Threads

VARIABLES
  home,     (* the thread that runs await_suspend()                        *)
  next,     (* the child that start_tasks() starts next                    *)
  nested,   (* the child that runs inside start_tasks(), or 0              *)
  child,    (* where each child is, or the helper that awaits it           *)
  on,       (* the thread that runs it                                     *)
  outcome,  (* what a child's promise holds: a value or an exception       *)
  stored,   (* the children whose result is in results_                    *)
  count,    (* counter_.count_                                             *)
  resumes,  (* how often the parent was scheduled or resumed               *)
  parent,   (* "suspended", "queued", "running", at its end "returned" or  *)
            (* "threw"; the awaiter exists until it ends                   *)
  place,    (* the thread the parent is queued or running on               *)
  root      (* the DetachedTask: "awaiting", "ended" or, when the program  *)
            (* has been terminated, "terminated"                           *)

kids == <<nested, child, on, outcome, stored>>
ends == <<resumes, parent, place, root>>
vars == <<home, next, kids, count, ends>>

(* The parent has been started by co_await, and calls when_all() with the  *)
(* count N.  Mutant: one less.                                             *)
InitialCount_OneLess == N - 1
InitialCount == N

Init == /\ home \in Threads
        /\ next = 1 /\ nested = 0
        /\ child = [i \in Children |-> "created"]
        /\ on = [i \in Children |-> None]
        /\ outcome = [i \in Children |-> None]
        /\ stored = {}
        /\ count = InitialCount
        /\ resumes = 0
        /\ parent = "suspended" /\ place = None /\ root = "awaiting"

Started == next > N /\ nested = 0

(* A thread that can resume a coroutine from its loop. *)
Idle(t) == /\ t = home => Started
           /\ \A i \in Children : on[i] # t
           /\ ~(parent = "running" /\ place = t)

(* Child i leaves its thread, and start_tasks() goes on if it waited. *)
Leaves(i) == /\ on' = [on EXCEPT ![i] = None]
             /\ nested' = IF nested = i THEN 0 ELSE nested
-----------------------------------------------------------------------------
(* Starting and running the children                                       *)

(* start_tasks() calls run_task(), whose co_await sets the continuation    *)
(* and transfers to the child.                                             *)
StartTask ==
  /\ root = "awaiting"
  /\ next <= N /\ nested = 0
  /\ child' = [child EXCEPT ![next] = "running"]
  /\ on' = [on EXCEPT ![next] = home]
  /\ nested' = next
  /\ next' = next + 1
  /\ UNCHANGED <<home, outcome, stored, count, ends>>

(* The child awaits something else, and is resumed when that is there. *)
ChildSuspends(i) ==
  /\ child[i] = "running" /\ root = "awaiting"
  /\ child' = [child EXCEPT ![i] = "suspended"]
  /\ Leaves(i)
  /\ UNCHANGED <<home, next, outcome, stored, count, ends>>

ChildResumes(i, t) ==
  /\ child[i] = "suspended" /\ Idle(t) /\ root = "awaiting"
  /\ child' = [child EXCEPT ![i] = "running"]
  /\ on' = [on EXCEPT ![i] = t]
  /\ UNCHANGED <<home, next, nested, outcome, stored, count, ends>>

(* return_value() or unhandled_exception(); FinalAwaiter then transfers to *)
(* the helper, on the same thread.                                         *)
ChildEnds(i, how) ==
  /\ child[i] = "running" /\ root = "awaiting"
  /\ child' = [child EXCEPT ![i] = "final"]
  /\ outcome' = [outcome EXCEPT ![i] = how]
  /\ UNCHANGED <<home, next, nested, on, stored, count, ends>>
-----------------------------------------------------------------------------
(* run_task(), once its child has ended                                    *)

(* await_resume() rethrows an exception, which the helper does not catch,  *)
(* or the value is stored.                                                 *)
HelperStores(i) ==
  /\ child[i] = "final" /\ root = "awaiting"
  /\ \/ /\ outcome[i] = "exception"
        /\ root' = "terminated"
        /\ UNCHANGED <<child, stored>>
     \/ /\ outcome[i] = "value"
        /\ stored' = stored \cup {i}
        /\ child' = [child EXCEPT ![i] = "stored"]
        /\ UNCHANGED root
  /\ UNCHANGED <<home, next, nested, on, outcome, count, resumes, parent, place>>

(* Which notify() is the last, given the count it found.  Mutants: the     *)
(* count that is left is compared; <= 2; 0.                                *)
IsLast_Left(n) == n - 1 = 1
IsLast_Le(n) == n <= 2
IsLast_Zero(n) == n = 0
IsLast(n) == n = 1

(* notify(): the fetch_sub.  But for the last one, the helper ends here.   *)
Notify(i) ==
  /\ child[i] = "stored" /\ root = "awaiting"
  /\ count' = count - 1
  /\ \/ /\ IsLast(count)
        /\ child' = [child EXCEPT ![i] = "last"]
        /\ UNCHANGED <<on, nested>>
     \/ /\ ~IsLast(count)
        /\ child' = [child EXCEPT ![i] = "done"]
        /\ Leaves(i)
  /\ UNCHANGED <<home, next, outcome, stored, ends>>

(* notify(), the last one: the parent goes to the queue of the notifier's  *)
(* scheduler, or is resumed here and now when it has none.                 *)
ResumeParent(i) ==
  /\ child[i] = "last" /\ root = "awaiting"
  /\ child' = [child EXCEPT ![i] = "done"]
  /\ Leaves(i)
  /\ parent' = IF on[i] \in Scheds THEN "queued" ELSE "running"
  /\ place' = on[i]
  /\ resumes' = resumes + 1
  /\ UNCHANGED <<home, next, outcome, stored, count, root>>
-----------------------------------------------------------------------------
(* The parent and the root                                                 *)

SchedulerResumes ==
  /\ parent = "queued" /\ Idle(place)
  /\ parent' = "running"
  /\ UNCHANGED <<home, next, kids, count, resumes, place, root>>

(* The parent takes the results, and the awaiter is destroyed with the     *)
(* children's frames.  Then the parent returns or throws.                  *)
ParentEnds(how) ==
  /\ parent = "running" /\ root = "awaiting"
  /\ parent' = how
  /\ UNCHANGED <<home, next, kids, count, resumes, place, root>>

(* FinalAwaiter transfers to the root, which ends or, when the exception   *)
(* is rethrown, does not catch it.                                         *)
RootResumes ==
  /\ parent \in {"returned", "threw"} /\ root = "awaiting"
  /\ root' = IF parent = "threw" THEN "terminated" ELSE "ended"
  /\ UNCHANGED <<home, next, kids, count, resumes, parent, place>>
-----------------------------------------------------------------------------
Outcomes == {"value", "exception"}

Next == \/ StartTask
        \/ \E i \in Children : \/ ChildSuspends(i)
                               \/ \E t \in Threads : ChildResumes(i, t)
                               \/ \E how \in Outcomes : ChildEnds(i, how)
                               \/ HelperStores(i) \/ Notify(i) \/ ResumeParent(i)
        \/ SchedulerResumes
        \/ \E how \in {"returned", "threw"} : ParentEnds(how)
        \/ RootResumes

Spec == Init /\ [][Next]_vars

(* Threads go on, and a scheduler resumes what it has queued.  Nothing is  *)
(* assumed of the children: one may be suspended, or run, for ever.        *)
Fairness == /\ WF_vars(StartTask) /\ WF_vars(SchedulerResumes)
            /\ WF_vars(\E how \in {"returned", "threw"} : ParentEnds(how))
            /\ WF_vars(RootResumes)
            /\ \A i \in Children : WF_vars(HelperStores(i) \/ Notify(i) \/ ResumeParent(i))

FairSpec == Spec /\ Fairness
-----------------------------------------------------------------------------
(* The variables keep their types; count_ does not wrap below 0. *)
TypeOK ==
  /\ home \in Threads
  /\ next \in 1..N+1 /\ nested \in 0..N /\ count \in 0..N /\ resumes \in Nat
  /\ child \in [Children -> {"created", "running", "suspended", "final",
                             "stored", "last", "done"}]
  /\ on \in [Children -> Threads \cup {None}]
  /\ outcome \in [Children -> Outcomes \cup {None}]
  /\ stored \subseteq Children
  /\ parent \in {"suspended", "queued", "running", "returned", "threw"}
  /\ place \in Threads \cup {None}
  /\ root \in {"awaiting", "ended", "terminated"}

(* The parent goes on only with the results of all children; one that      *)
(* threw does not leave it with a default.                                 *)
ResultsComplete ==
  parent # "suspended" =>
    stored = Children /\ \A i \in Children : outcome[i] = "value"

(* The parent is resumed once, whichever threads the last children end on. *)
(* It may go on while await_suspend() has not returned, and while helpers  *)
(* are in notify(): when it does, nobody will use the awaiter again, and   *)
(* every child is suspended at its end.                                    *)
ResumedOnceAtTheEnd ==
  /\ resumes <= 1
  /\ resumes > 0 => next > N /\ \A i \in Children : child[i] = "done"

(* When every child has returned a value, the root goes on: it ends, or    *)
(* the parent has thrown.                                                  *)
WhenAllReturns ==
  (\A i \in Children : outcome[i] = "value") ~> root # "awaiting"
=============================================================================
