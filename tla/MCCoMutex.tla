----------------------------- MODULE MCCoMutex ------------------------------
(* CoMutex for TLC: the coroutines and the scheduler each one runs on.     *)
EXTENDS CoMutex, TLC

CONSTANTS c1, c2, c3, c4, s1, s2

(* Two coroutines share a scheduler, so both ways of resuming occur; c4    *)
(* runs outside every scheduler, as code of the main thread would.         *)
OneOutside == c1 :> s1 @@ c2 :> s1 @@ c3 :> s2 @@ c4 :> NoSched
=============================================================================
