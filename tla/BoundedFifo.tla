---------------------------- MODULE BoundedFifo -----------------------------
(***************************************************************************)
(* What novaio::SpscQueue promises: a FIFO queue of at most Capacity       *)
(* items, whose push() is refused only when the queue is full and whose    *)
(* pop() comes back empty-handed only when the queue is empty.             *)
(* SpscQueue.tla is shown to implement it.                                 *)
(***************************************************************************)
EXTENDS Naturals, Sequences

CONSTANTS Capacity, Producers, Items, Nothing

VARIABLES queue,     (* the items accepted and not yet handed out          *)
          accepted,  (* what the last push() of a producer returned        *)
          received,  (* what the last pop() handed out, or Nothing         *)
          closed     (* the queue is being destroyed                       *)

vars == <<queue, accepted, received, closed>>

Init == /\ queue = <<>>
        /\ accepted \in [Producers -> {TRUE}]
        /\ received = Nothing
        /\ closed = FALSE

Push(p, x) == /\ ~closed
              /\ Len(queue) < Capacity
              /\ queue' = Append(queue, x)
              /\ accepted' = [accepted EXCEPT ![p] = TRUE]
              /\ UNCHANGED <<received, closed>>

Refuse(p) == /\ ~closed
             /\ Len(queue) = Capacity
             /\ accepted' = [accepted EXCEPT ![p] = FALSE]
             /\ UNCHANGED <<queue, received, closed>>

Pop == /\ ~closed
       /\ queue # <<>>
       /\ received' = Head(queue)
       /\ queue' = Tail(queue)
       /\ UNCHANGED <<accepted, closed>>

FindEmpty == /\ ~closed
             /\ queue = <<>>
             /\ received' = Nothing
             /\ UNCHANGED <<queue, accepted, closed>>

Close == /\ closed' = TRUE
         /\ UNCHANGED <<queue, accepted, received>>

(* Destroying the queue destroys what is left in it, oldest first. *)
Discard == /\ closed
           /\ queue # <<>>
           /\ queue' = Tail(queue)
           /\ UNCHANGED <<accepted, received, closed>>

Next == \/ \E p \in Producers : Refuse(p) \/ \E x \in Items : Push(p, x)
        \/ Pop \/ FindEmpty \/ Close \/ Discard

Spec == Init /\ [][Next]_vars
=============================================================================
