--------------------------- MODULE WhenAllProofs ----------------------------
(***************************************************************************)
(* Proofs about WhenAll, for every number of children and any threads.     *)
(***************************************************************************)
EXTENDS WhenAll, FiniteSetTheorems, TLAPS

(* The children that have not yet been counted. *)
Left == {i \in Children : child[i] \notin {"last", "done"}}

(* count_ is the number of children left. *)
CountState == count = Cardinality(Left)

(* start_tasks() has started the children below next, and no others. *)
StartState == \A i \in Children : i >= next <=> child[i] = "created"

(* A helper that has stored its result has a result to store. *)
StoredState ==
  \A i \in Children : child[i] \in {"stored", "last", "done"} =>
                        i \in stored /\ outcome[i] = "value"

(* One helper at most is the last; while there is one nobody is left, and  *)
(* the parent has not been resumed.                                        *)
LastState ==
  \A i \in Children : child[i] = "last" =>
    /\ resumes = 0
    /\ \A j \in Children \ {i} : child[j] = "done"

(* The parent leaves its suspension only by being resumed, which happens   *)
(* once and when all children are done.                                    *)
ParentState ==
  /\ resumes \in {0, 1}
  /\ parent # "suspended" => resumes = 1
  /\ resumes = 1 => \A i \in Children : child[i] = "done"

IInv == TypeOK /\ CountState /\ StartState /\ StoredState /\ LastState /\ ParentState
-----------------------------------------------------------------------------
LEMMA LeftFinite == IsFiniteSet(Left) /\ Cardinality(Left) \in Nat
<1>1. IsFiniteSet(Children)
  BY SomeChildren, FS_Interval DEF Children
<1>2. Left \subseteq Children
  BY DEF Left
<1> QED BY <1>1, <1>2, FS_Subset, FS_CardinalityType

(* A step that moves no child to "last" or "done" leaves Left as it is. *)
LEMMA LeftSame ==
  ASSUME NEW i \in Children, NEW s, TypeOK,
         child[i] \notin {"last", "done"}, s \notin {"last", "done"},
         child' = [child EXCEPT ![i] = s]
  PROVE  Left' = Left
BY DEF Left, TypeOK

LEMMA InitInv == Init => IInv
<1> SUFFICES ASSUME Init PROVE IInv
  OBVIOUS
<1>1. IsFiniteSet(Children) /\ Cardinality(Children) = N
  BY SomeChildren, FS_Interval DEF Children
<1>2. Left = Children
  BY DEF Init, Left
<1>3. CountState
  BY <1>1, <1>2 DEF Init, InitialCount, CountState
<1>4. TypeOK
  BY SomeChildren DEF Init, InitialCount, TypeOK, Outcomes
<1>5. StartState /\ StoredState /\ LastState /\ ParentState
  BY SomeChildren DEF Init, Children, StartState, StoredState, LastState, ParentState
<1> QED BY <1>3, <1>4, <1>5 DEF IInv
-----------------------------------------------------------------------------
LEMMA StartTaskInv ==
  ASSUME IInv, StartTask PROVE IInv'
<1>1. next \in Children /\ child[next] = "created"
  BY SomeChildren DEF IInv, TypeOK, StartState, StartTask, Children
<1>2. TypeOK'
  BY <1>1, SomeChildren DEF IInv, TypeOK, StartTask, Children, ends
<1>3. CountState'
  BY <1>1, LeftSame DEF IInv, CountState, StartTask, ends
<1>4. StartState'
  BY <1>1, SomeChildren DEF IInv, TypeOK, StartState, StartTask, Children, ends
<1>5. StoredState' /\ LastState' /\ ParentState'
  BY <1>1 DEF IInv, TypeOK, StoredState, LastState, ParentState, StartTask, ends
<1> QED BY <1>2, <1>3, <1>4, <1>5 DEF IInv

(* The steps of a child up to its helper's notify(). *)
LEMMA ChildInv ==
  ASSUME IInv, NEW i \in Children,
         \/ ChildSuspends(i)
         \/ \E t \in Threads : ChildResumes(i, t)
         \/ \E how \in Outcomes : ChildEnds(i, how)
  PROVE  IInv'
<1> PICK s \in {"suspended", "running", "final"} :
           /\ child[i] \in {"running", "suspended"}
           /\ child' = [child EXCEPT ![i] = s]
  BY DEF ChildSuspends, ChildResumes, ChildEnds
<1>1. UNCHANGED <<home, next, stored, count, ends>>
  BY DEF ChildSuspends, ChildResumes, ChildEnds
<1>2. \A j \in Children : j # i => outcome'[j] = outcome[j]
  BY DEF ChildSuspends, ChildResumes, ChildEnds, IInv, TypeOK
<1>3. /\ outcome' \in [Children -> Outcomes \cup {None}]
      /\ on' \in [Children -> Threads \cup {None}]
      /\ nested' \in 0..N
  <2>1. CASE ChildSuspends(i)
    BY <2>1, SomeChildren DEF ChildSuspends, Leaves, IInv, TypeOK
  <2>2. CASE \E t \in Threads : ChildResumes(i, t)
    BY <2>2 DEF ChildResumes, IInv, TypeOK
  <2>3. CASE \E how \in Outcomes : ChildEnds(i, how)
    BY <2>3 DEF ChildEnds, IInv, TypeOK
  <2> QED BY <2>1, <2>2, <2>3
<1>4. TypeOK'
  BY <1>1, <1>3 DEF IInv, TypeOK, ends
<1>5. CountState'
  BY <1>1, LeftSame DEF IInv, CountState, ends
<1>6. StartState'
  BY <1>1 DEF IInv, TypeOK, StartState, ends
<1>7. StoredState' /\ LastState' /\ ParentState'
  BY <1>1, <1>2 DEF IInv, TypeOK, StoredState, LastState, ParentState, ends
<1> QED BY <1>4, <1>5, <1>6, <1>7 DEF IInv

LEMMA HelperStoresInv ==
  ASSUME IInv, NEW i \in Children, HelperStores(i) PROVE IInv'
<1>1. CASE outcome[i] = "exception"
  <2>1. UNCHANGED <<home, next, kids, count, resumes, parent, place>> /\ root' = "terminated"
    BY <1>1 DEF HelperStores, kids
  <2>2. TypeOK'
    BY <2>1 DEF IInv, TypeOK, kids
  <2>3. UNCHANGED Left
    BY <2>1 DEF Left, kids
  <2> QED BY <2>1, <2>2, <2>3 DEF IInv, CountState, StartState, StoredState, LastState, ParentState, kids
<1>2. CASE outcome[i] = "value"
  <2>1. /\ child[i] = "final" /\ child' = [child EXCEPT ![i] = "stored"]
        /\ stored' = stored \cup {i}
        /\ UNCHANGED <<home, next, nested, on, outcome, count, ends>>
    BY <1>2 DEF HelperStores, ends
  <2>2. TypeOK'
    BY <2>1 DEF IInv, TypeOK, ends
  <2>3. CountState'
    BY <2>1, LeftSame DEF IInv, CountState
  <2>4. StartState' /\ StoredState' /\ LastState' /\ ParentState'
    BY <1>2, <2>1 DEF IInv, TypeOK, StartState, StoredState, LastState, ParentState, ends
  <2> QED BY <2>2, <2>3, <2>4 DEF IInv
<1> QED BY <1>1, <1>2 DEF HelperStores

(* The fetch_sub that finds 1 is made when all the others have been        *)
(* counted.                                                                *)
LEMMA NotifyInv ==
  ASSUME IInv, NEW i \in Children, Notify(i) PROVE IInv'
<1>1. /\ child[i] = "stored" /\ i \in Left /\ count = Cardinality(Left)
      /\ count \in 0..N
  BY DEF Notify, IInv, CountState, Left, TypeOK
<1>2. PICK s \in {"last", "done"} : child' = [child EXCEPT ![i] = s]
  BY DEF Notify
<1>3. Left' = Left \ {i}
  BY <1>1, <1>2 DEF Left, IInv, TypeOK
<1>4. IsFiniteSet(Left \ {i}) /\ Cardinality(Left \ {i}) = count - 1
  BY <1>1, LeftFinite, FS_RemoveElement
<1>5. count' = count - 1 /\ count' \in 0..N /\ CountState'
  <2>1. Cardinality(Left \ {i}) \in Nat
    BY <1>4, FS_CardinalityType
  <2> QED BY <1>1, <1>3, <1>4, <2>1, SomeChildren DEF Notify, CountState
<1>6. /\ UNCHANGED <<home, next, outcome, stored, ends>>
      /\ on' \in [Children -> Threads \cup {None}]
      /\ nested' \in 0..N
  BY SomeChildren DEF Notify, Leaves, IInv, TypeOK
<1>7. TypeOK'
  BY <1>2, <1>5, <1>6 DEF IInv, TypeOK, ends
<1>8. StartState' /\ StoredState'
  BY <1>1, <1>2, <1>6 DEF IInv, TypeOK, StartState, StoredState
<1>9. resumes = 0
  BY <1>1 DEF IInv, ParentState
<1>10. ParentState'
  BY <1>6, <1>9 DEF IInv, ParentState, ends
<1>11. \A j \in Children : child[j] # "last"
  BY <1>1 DEF IInv, LastState
<1>12. CASE s = "last"
  <2>1. count = 1
    BY <1>1, <1>2, <1>12 DEF Notify, IsLast, IInv, TypeOK
  <2>2. Left \ {i} = {}
    BY <1>4, <2>1, FS_EmptySet
  <2>3. \A j \in Children \ {i} : child[j] = "done"
    BY <1>11, <2>2 DEF Left
  <2>4. LastState'
    BY <1>2, <1>6, <1>9, <1>11, <1>12, <2>3 DEF LastState, IInv, TypeOK, ends
  <2> QED BY <1>5, <1>7, <1>8, <1>10, <2>4 DEF IInv
<1>13. CASE s = "done"
  <2>1. LastState'
    BY <1>2, <1>11, <1>13 DEF LastState, IInv, TypeOK
  <2> QED BY <1>5, <1>7, <1>8, <1>10, <2>1 DEF IInv
<1> QED BY <1>12, <1>13

LEMMA ResumeParentInv ==
  ASSUME IInv, NEW i \in Children, ResumeParent(i) PROVE IInv'
<1>1. /\ child[i] = "last" /\ child' = [child EXCEPT ![i] = "done"]
      /\ resumes = 0 /\ resumes' = 1
      /\ \A j \in Children : child'[j] = "done"
  BY DEF ResumeParent, IInv, TypeOK, LastState
<1>2. /\ UNCHANGED <<home, next, outcome, stored, count, root>>
      /\ on' \in [Children -> Threads \cup {None}]
      /\ nested' \in 0..N
      /\ parent' \in {"queued", "running"} /\ place' \in Threads \cup {None}
  BY SomeChildren DEF ResumeParent, Leaves, IInv, TypeOK
<1>3. TypeOK'
  BY <1>1, <1>2 DEF IInv, TypeOK
<1>4. Left' = Left
  BY <1>1 DEF Left, IInv, TypeOK
<1>5. CountState' /\ StartState' /\ StoredState' /\ LastState' /\ ParentState'
  BY <1>1, <1>2, <1>4 DEF IInv, TypeOK, CountState, StartState, StoredState, LastState, ParentState
<1> QED BY <1>3, <1>5 DEF IInv

LEMMA ParentInv ==
  ASSUME IInv,
         SchedulerResumes \/ (\E how \in {"returned", "threw"} : ParentEnds(how)) \/ RootResumes
  PROVE  IInv'
<1>1. /\ UNCHANGED <<home, next, kids, count, resumes, place>>
      /\ parent # "suspended"
      /\ parent' \in {"running", "returned", "threw"}
      /\ root' \in {"awaiting", "ended", "terminated"}
  BY DEF IInv, TypeOK, SchedulerResumes, ParentEnds, RootResumes
<1>2. TypeOK'
  BY <1>1 DEF IInv, TypeOK, kids
<1>3. Left' = Left
  BY <1>1 DEF Left, kids
<1> QED BY <1>1, <1>2, <1>3
      DEF IInv, CountState, StartState, StoredState, LastState, ParentState, kids

LEMMA InvStep == IInv /\ [Next]_vars => IInv'
<1> SUFFICES ASSUME IInv, [Next]_vars PROVE IInv'
  OBVIOUS
<1>1. CASE UNCHANGED vars
  <2>1. UNCHANGED Left
    BY <1>1 DEF vars, kids, Left
  <2> QED BY <1>1, <2>1
        DEF vars, kids, ends, IInv, TypeOK, CountState, StartState, StoredState, LastState, ParentState
<1>2. CASE Next
  BY <1>2, StartTaskInv, ChildInv, HelperStoresInv, NotifyInv, ResumeParentInv, ParentInv DEF Next
<1> QED BY <1>1, <1>2

LEMMA Invariant == Spec => []IInv
BY InitInv, InvStep, PTL DEF Spec
-----------------------------------------------------------------------------
(* The variables of when_all keep their types; in particular the counter   *)
(* of WhenAllCounter does not wrap below 0.                                *)
THEOREM TypeCorrect == Spec => []TypeOK
<1>1. IInv => TypeOK
  BY DEF IInv
<1> QED BY <1>1, Invariant, PTL

(* The parent goes on only with all results, and with no exception in      *)
(* place of one.                                                           *)
THEOREM AllResults == Spec => []ResultsComplete
<1>1. IInv => ResultsComplete
  BY DEF IInv, TypeOK, StoredState, ParentState, ResultsComplete
<1> QED BY <1>1, Invariant, PTL

(* The parent is resumed once, when await_suspend() has started everything *)
(* and every helper has made its last use of the awaiter.                  *)
THEOREM ResumedSafely == Spec => []ResumedOnceAtTheEnd
<1>1. IInv => ResumedOnceAtTheEnd
  <2> SUFFICES ASSUME IInv PROVE ResumedOnceAtTheEnd
    OBVIOUS
  <2>1. CASE resumes = 0
    BY <2>1 DEF ResumedOnceAtTheEnd
  <2>2. CASE resumes = 1
    <3>1. \A i \in Children : child[i] = "done"
      BY <2>2 DEF IInv, ParentState
    <3>2. next > N
      BY <3>1, SomeChildren DEF IInv, TypeOK, StartState, Children
    <3> QED BY <2>2, <3>1, <3>2 DEF ResumedOnceAtTheEnd
  <2> QED BY <2>1, <2>2 DEF IInv, ParentState
<1> QED BY <1>1, Invariant, PTL
=============================================================================
