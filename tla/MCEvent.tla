------------------------------ MODULE MCEvent -------------------------------
(* Event for TLC: four waiters and two callers of set(), placed so that    *)
(* every way of resuming a waiter occurs: c1 shares t1's scheduler, c2 and *)
(* c3 are on another one, and c4 and t2 run outside the runtime.           *)
EXTENDS Event, TLC

CONSTANTS c1, c2, c3, c4, t1, t2, s1, s2

Mixed == c1 :> s1 @@ c2 :> s2 @@ c3 :> s2 @@ c4 :> NoSched
         @@ t1 :> s1 @@ t2 :> NoSched
=============================================================================
