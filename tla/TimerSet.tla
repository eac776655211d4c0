------------------------------ MODULE TimerSet ------------------------------
(***************************************************************************)
(* What a timing wheel stands for: a set of timers, each with a deadline,  *)
(* and a tick counter that fires, at each tick, exactly the timers whose   *)
(* deadline is that tick.  TimeWheel.tla is shown to implement it.         *)
(***************************************************************************)
EXTENDS Naturals

CONSTANTS Timers, Never

VARIABLES tick,      (* the next tick to be processed                      *)
          deadline   (* when a timer is to fire, Never when it is not set  *)

vars == <<tick, deadline>>

Init == /\ tick = 0
        /\ deadline = [t \in Timers |-> Never]

Set(t, d) == /\ deadline[t] = Never
             /\ d >= tick
             /\ deadline' = [deadline EXCEPT ![t] = d]
             /\ UNCHANGED tick

Cancel(t) == /\ deadline[t] # Never
             /\ deadline' = [deadline EXCEPT ![t] = Never]
             /\ UNCHANGED tick

Tick == /\ tick' = tick + 1
        /\ deadline' = [t \in Timers |->
                          IF deadline[t] = tick THEN Never ELSE deadline[t]]

Next == \/ \E t \in Timers : Cancel(t)
        \/ \E t \in Timers : deadline'[t] # Never /\ Set(t, deadline'[t])
        \/ Tick

Spec == Init /\ [][Next]_vars
=============================================================================
