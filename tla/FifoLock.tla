------------------------------ MODULE FifoLock ------------------------------
(***************************************************************************)
(* What novaio::CoMutex promises its users: a lock with at most one        *)
(* holder, that passes directly from the holder to the request that has    *)
(* waited longest, and that becomes free only when nobody waits.           *)
(* CoMutex.tla is shown to implement it.                                   *)
(***************************************************************************)
EXTENDS Sequences, Naturals

CONSTANTS Coros,   (* the coroutines that use the lock                     *)
          NoCoro   (* the holder of a free lock                            *)

VARIABLES holder,  (* the coroutine that owns the lock, or NoCoro          *)
          queue    (* the suspended requests, in the order they were made  *)

vars == <<holder, queue>>

Init == /\ holder = NoCoro
        /\ queue  = <<>>

(* A request that meets a free lock takes it without waiting. *)
Acquire(c) == /\ holder = NoCoro
              /\ holder' = c
              /\ UNCHANGED queue

(* A request that meets a held lock waits behind all the earlier ones. *)
Enqueue(c) == /\ holder # NoCoro
              /\ queue' = Append(queue, c)
              /\ UNCHANGED holder

(* The lock is freed only when nobody waits... *)
Release == /\ holder # NoCoro
           /\ queue = <<>>
           /\ holder' = NoCoro
           /\ UNCHANGED queue

(* ... and is otherwise handed to the oldest request. *)
HandOff == /\ holder # NoCoro
           /\ queue # <<>>
           /\ holder' = Head(queue)
           /\ queue'  = Tail(queue)

Next == \/ \E c \in Coros : Acquire(c) \/ Enqueue(c)
        \/ Release
        \/ HandOff

Spec == Init /\ [][Next]_vars
=============================================================================
