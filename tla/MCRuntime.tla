----------------------------- MODULE MCRuntime ------------------------------
(* Runtime for TLC: two schedulers, coroutines on both of them, and the    *)
(* main thread.                                                            *)
EXTENDS Runtime, TLC

CONSTANTS s1, s2, c1, c2, c3, c4

Homes == [c \in Coros |-> IF c = c3 THEN s2 ELSE s1]
=============================================================================
