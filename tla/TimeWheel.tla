----------------------------- MODULE TimeWheel ------------------------------
(***************************************************************************)
(* novaio::TimeWheel (include/novaio/time_wheel.hpp, src/time_wheel.cpp):  *)
(* the five-level timing wheel of a scheduler, with the parts of           *)
(* Scheduler::run() and process_io_events() that drive it: the catch-up    *)
(* loop over the milliseconds that have passed, and the sleep whose length *)
(* next_timeout() chooses.                                                 *)
(*                                                                         *)
(* Level 1 has TVR_SIZE slots of one tick, levels 2 to 5 have TVN_SIZE     *)
(* slots, each as wide as the whole level below.  A slot's list is the set *)
(* of timers whose place is that slot: no property depends on the order of *)
(* a list.  A wheel belongs to one thread, so its operations are atomic;   *)
(* tick() is one step per tick it processes, and nothing else happens      *)
(* until it has caught up.                                                 *)
(***************************************************************************)
EXTENDS Integers, FiniteSets, FiniteSetsExt

CONSTANTS TVR_SIZE, TVN_SIZE,  (* 256 and 64 in the code                   *)
          FALLBACK,            (* next_timeout() with level 1 empty: 50 ms *)
          Timers,              (* TimerNodes of the sleeping coroutines    *)
          Delays,              (* the arguments of sleep_for(), in ms      *)
          Start,               (* the clock when the scheduler starts      *)
          MaxBusy,             (* how long the tasks of a round may run    *)
          Horizon,             (* bound of the clock                       *)
          Nowhere, Never       (* no slot; no time                         *)

(* The slots of the five levels. *)
Places == {1} \X (0..TVR_SIZE-1) \cup (2..5) \X (0..TVN_SIZE-1)

ASSUME Sizes == /\ TVR_SIZE \in Nat \ {0} /\ TVN_SIZE \in Nat \ {0}
                /\ FALLBACK \in 1..TVR_SIZE-1
                /\ IsFiniteSet(Timers) /\ Delays \subseteq Nat \ {0}
                /\ Start \in Nat /\ MaxBusy \in Nat /\ Horizon \in Nat
                /\ Never \notin Nat /\ Nowhere \notin Places

VARIABLES
  current_tick,  (* current_tick_                                          *)
  place,         (* the level and slot whose list a timer is in            *)
  expires_at,    (* TimerNode::expires_at; a node out of the wheel is dead *)
  active,        (* active_timers_                                         *)
  now,           (* the clock, in ms                                       *)
  last_tick,     (* run()'s local last_tick_time                           *)
  ready,         (* timers have fired, and their coroutines have not run   *)
  phase          (* where run() is: "tick", "tasks" or "poll"              *)

vars == <<current_tick, place, expires_at, active, now, last_tick, ready, phase>>

(* The ticks of a turn of level k; the last level takes any distance. *)
Span(k) == CASE k = 1 -> TVR_SIZE
             [] k = 2 -> TVR_SIZE * TVN_SIZE
             [] k = 3 -> TVR_SIZE * TVN_SIZE * TVN_SIZE
             [] k = 4 -> TVR_SIZE * TVN_SIZE * TVN_SIZE * TVN_SIZE

(* Mutant: the mask of the upper levels is forgotten. *)
SlotOf_NoMask(k, e) == IF k = 1 THEN e % TVR_SIZE ELSE e \div Span(k - 1)

(* The slot of level k for a timer that expires at e. *)
SlotOf(k, e) == IF k = 1 THEN e % TVR_SIZE ELSE (e \div Span(k - 1)) % TVN_SIZE

(* Mutant: <= for <. *)
LevelOf_Le(d) == IF d < 0 THEN 5
                 ELSE CHOOSE k \in 1..5 : /\ k < 5 => d <= Span(k)
                                          /\ \A j \in 1..k-1 : d > Span(j)

(* The level for a timer that is d ticks away.  The difference is unsigned *)
(* in the code: a timer in the past would be very far away.                *)
LevelOf(d) == IF d < 0 THEN 5
              ELSE CHOOSE k \in 1..5 : /\ k < 5 => d < Span(k)
                                       /\ \A j \in 1..k-1 : d >= Span(j)

PlaceOf(e) == LET k == LevelOf(e - current_tick) IN <<k, SlotOf(k, e)>>

Pending == {t \in Timers : place[t] # Nowhere}
InSlot(k, i) == {t \in Timers : place[t] = <<k, i>>}

Init == /\ current_tick = 0
        /\ place = [t \in Timers |-> Nowhere]
        /\ expires_at = [t \in Timers |-> Never]
        /\ active = 0
        /\ now = Start
        /\ last_tick = Start
        /\ ready = FALSE
        /\ phase = "tick"
-----------------------------------------------------------------------------
(* Mutant: only the timers of level 1 are counted. *)
AddTimer_CountNear(t, ms) ==
  /\ phase \in {"tasks", "poll"}
  /\ place[t] = Nowhere
  /\ expires_at' = [expires_at EXCEPT ![t] = now + ms]
  /\ place' = [place EXCEPT ![t] = PlaceOf(now + ms)]
  /\ active' = active + (IF PlaceOf(now + ms)[1] = 1 THEN 1 ELSE 0)
  /\ UNCHANGED <<current_tick, now, last_tick, ready, phase>>

(* co_await sleep_for(ms): SleepAwaiter::await_suspend() and add_timer().  *)
(* The caller is a coroutine of this round, or one that poll() resumes.    *)
AddTimer(t, ms) ==
  /\ phase \in {"tasks", "poll"}
  /\ place[t] = Nowhere
  /\ expires_at' = [expires_at EXCEPT ![t] = now + ms]
  /\ place' = [place EXCEPT ![t] = PlaceOf(now + ms)]
  /\ active' = active + 1
  /\ UNCHANGED <<current_tick, now, last_tick, ready, phase>>

(* remove_timer() of a timer that is in the wheel.  Nothing in the         *)
(* repository calls it.  One that has fired is not removed here: tick()    *)
(* leaves its prev and next as they were, and remove_timer() follows them  *)
(* (time_wheel.cpp:33) whatever head_ptr says, into frames that may be     *)
(* gone or on to other lists.                                              *)
RemoveTimer(t) ==
  /\ phase \in {"tasks", "poll"}
  /\ place[t] # Nowhere
  /\ place' = [place EXCEPT ![t] = Nowhere]
  /\ expires_at' = [expires_at EXCEPT ![t] = Never]
  /\ active' = active - 1
  /\ UNCHANGED <<current_tick, now, last_tick, ready, phase>>
-----------------------------------------------------------------------------
(* The levels whose current slot is cascaded at tick n: level 2 when level *)
(* 1 has gone round, and a level above when the one below has, too.        *)
Cascaded(n) ==
  {k \in 2..5 : /\ n > 0 /\ n % TVR_SIZE = 0
                /\ \A j \in 2..k-1 : SlotOf(j, n) = 0}

(* cascade(): the timers of those slots are put where they belong now.     *)
CascadedTimers == UNION {InSlot(k, SlotOf(k, current_tick)) :
                           k \in Cascaded(current_tick)}

PlaceAfterCascade(t) == IF t \in CascadedTimers THEN PlaceOf(expires_at[t])
                        ELSE place[t]

Expired == {t \in Timers : PlaceAfterCascade(t) = <<1, SlotOf(1, current_tick)>>}

(* One round of the loop in tick(): cascade, then fire the timers of the   *)
(* current slot of level 1.  Cascading counts its timers again in          *)
(* active_timers_, and firing does not subtract from it.                   *)
Tick ==
  /\ phase = "tick"
  /\ last_tick < now
  /\ current_tick < now
  /\ place' = [t \in Timers |->
                 IF t \in Expired THEN Nowhere ELSE PlaceAfterCascade(t)]
  /\ expires_at' = [t \in Timers |->
                      IF t \in Expired THEN Never ELSE expires_at[t]]
  /\ ready' = (ready \/ Expired # {})
  /\ active' = active + Cardinality(CascadedTimers)
  /\ current_tick' = current_tick + 1
  /\ UNCHANGED <<now, last_tick, phase>>

(* run() has caught up, or the clock has not moved since the last round. *)
TickDone ==
  /\ phase = "tick"
  /\ last_tick = now \/ current_tick = now
  /\ last_tick' = now
  /\ phase' = "tasks"
  /\ UNCHANGED <<current_tick, place, expires_at, active, now, ready>>

(* The tasks of the round take time. *)
Busy ==
  /\ phase = "tasks"
  /\ now < last_tick + MaxBusy
  /\ now < Horizon
  /\ now' = now + 1
  /\ UNCHANGED <<current_tick, place, expires_at, active, last_tick, ready, phase>>

(* The coroutines of the round have run, or the wait is over and poll() is *)
(* done: the next round.                                                   *)
NextRound ==
  /\ phase \in {"tasks", "poll"}
  /\ phase' = "tick"
  /\ ready' = FALSE
  /\ UNCHANGED <<current_tick, place, expires_at, active, now, last_tick>>
-----------------------------------------------------------------------------
(* Mutant: with level 1 empty there is no timeout. *)
NextTimeout_NoFallback ==
  LET near == {t \in Timers : place[t] # Nowhere /\ place[t][1] = 1}
      next == Min({expires_at[t] : t \in near})
  IN  IF near = {} THEN Never ELSE IF next > now THEN next - now ELSE 0

(* next_timeout(): Never for (uint64_t)-1. *)
NextTimeout ==
  LET found == {i \in 0..TVR_SIZE-1 :
                  InSlot(1, SlotOf(1, current_tick + i)) # {}}
      first == CHOOSE t \in Timers :
                 place[t] = <<1, SlotOf(1, current_tick + Min(found))>>
  IN  IF active = 0 THEN Never
      ELSE IF found = {} THEN FALLBACK
      ELSE IF expires_at[first] > now THEN expires_at[first] - now ELSE 0

LatestWakeup ==
  CASE NextTimeout = Never -> Horizon
    [] NextTimeout = 0     -> Min({now + 1, Horizon})
    [] OTHER               -> Min({now + NextTimeout, Horizon})

(* process_io_events(), when no coroutine is ready: the scheduler waits    *)
(* for at most that time, and an I/O event may wake it sooner.  A peek     *)
(* does not wait, and is repeated until the clock has moved on.            *)
Sleep ==
  /\ phase = "tasks"
  /\ ~ready
  /\ phase' = "poll"
  /\ now' \in now..LatestWakeup
  /\ UNCHANGED <<current_tick, place, expires_at, active, last_tick, ready>>
-----------------------------------------------------------------------------
Next == \/ \E t \in Timers : RemoveTimer(t) \/ \E ms \in Delays : AddTimer(t, ms)
        \/ Tick \/ TickDone \/ Busy \/ Sleep \/ NextRound

Spec == Init /\ [][Next]_vars
-----------------------------------------------------------------------------
(* The variables keep their types. *)
TypeOK == /\ current_tick \in Nat /\ active \in Nat /\ now \in Nat
          /\ last_tick \in Nat
          /\ place \in [Timers -> Places \cup {Nowhere}]
          /\ expires_at \in [Timers -> Nat \cup {Never}]
          /\ ready \in BOOLEAN
          /\ phase \in {"tick", "tasks", "poll"}

(* The scheduler waits without a limit only when no timer is pending,      *)
(* though active_timers_ is not the number of pending timers.              *)
NoEndlessSleep == NextTimeout = Never => Pending = {}

(* The wheel fires every timer at the tick it expires, neither sooner nor  *)
(* a turn of some level later, through any number of cascades.             *)
Deadlines == [t \in Timers |-> IF t \in Pending THEN expires_at[t] ELSE Never]
Abstract == INSTANCE TimerSet WITH tick <- current_tick, deadline <- Deadlines
ImplementsTimerSet == Abstract!Spec

(* next_timeout() looks at level 1 only, so that a timer of a higher level *)
(* may be overslept, but never by a turn of level 1: a pending timer is    *)
(* overdue by less than that, and the time the tasks of a round take.      *)
OverdueLessThanTurn == \A t \in Pending : now < expires_at[t] + TVR_SIZE + MaxBusy
=============================================================================
