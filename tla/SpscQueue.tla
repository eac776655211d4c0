----------------------------- MODULE SpscQueue ------------------------------
(***************************************************************************)
(* novaio::SpscQueue (include/novaio/concurrent_queues.hpp): the ring      *)
(* buffer behind Scheduler::inbox_.  head_ and tail_ are free-running      *)
(* unsigned counters of which the low bits select a slot; slots are raw    *)
(* memory in which push() constructs an item and pop() destroys it.        *)
(*                                                                         *)
(* Every load or store of a counter is one step, and so is each access to  *)
(* a slot: the release stores and acquire loads of the code order the slot *)
(* accesses with the counters, which makes interleaving these steps exact. *)
(* The counters wrap at Wrap, 2^64 in the build, so a run needs no bound   *)
(* on the number of operations.                                            *)
(*                                                                         *)
(* The class is written for one producer; Producers is a parameter because *)
(* Runtime::dispatch_on() has no such restriction.                         *)
(***************************************************************************)
EXTENDS Integers, Sequences

CONSTANTS Capacity,   (* number of slots                                   *)
          Wrap,       (* number of values of a counter                     *)
          Producers,  (* threads that call push()                          *)
          Items,      (* what is queued                                    *)
          Raw         (* the content of memory that holds no item          *)

(* The constructor rejects a capacity that is not a power of two, so it    *)
(* divides the number of values of a counter.                              *)
ASSUME CapacityDivides == /\ Capacity \in Nat \ {0}
                          /\ Wrap \in Nat
                          /\ \E k \in 1..Wrap : Wrap = Capacity * k
                          /\ Capacity + 1 < Wrap

ASSUME RawIsNoItem == Raw \notin Items

VARIABLES
  head, tail,  (* head_ and tail_                                          *)
  slots,       (* buffer_                                                  *)
  ppc,         (* where a producer is in push()                            *)
  ltail,       (* push()'s local tail                                      *)
  item,        (* push()'s argument                                        *)
  accepted,    (* what a producer's last push() returned                   *)
  cpc,         (* where the consumer is in pop(), or the destructor        *)
  item_out,    (* pop()'s output parameter                                 *)
  received     (* what the last pop() handed out, Raw for "queue empty"    *)

vars == <<head, tail, slots, ppc, ltail, item, accepted, cpc, item_out, received>>

Counters == 0..Wrap-1

(* Mutant: a counter that does not wrap. *)
Inc_NoWrap(n) == n + 1

Inc(n) == (n + 1) % Wrap
Slot(n) == n % Capacity       (* n & mask_ *)

Init == /\ head = 0 /\ tail = 0
        /\ slots = [i \in 0..Capacity-1 |-> Raw]
        /\ ppc = [p \in Producers |-> "idle"]
        /\ ltail = [p \in Producers |-> 0]
        /\ item = [p \in Producers |-> Raw]
        /\ accepted = [p \in Producers |-> TRUE]
        /\ cpc = "idle"
        /\ item_out = Raw
        /\ received = Raw

Goto(p, from, to) == /\ ppc[p] = from
                     /\ ppc' = [ppc EXCEPT ![p] = to]
-----------------------------------------------------------------------------
(* push(x)                                                                 *)

PushLoad(p, x) ==
  /\ cpc \notin {"dtor", "gone"}
  /\ Goto(p, "idle", "check")
  /\ ltail' = [ltail EXCEPT ![p] = tail]
  /\ item' = [item EXCEPT ![p] = x]
  /\ UNCHANGED <<head, tail, slots, accepted, cpc, item_out, received>>

(* Mutants: off by one, on either side. *)
Full_Late(t) == (Inc(t) - head) % Wrap > Capacity + 1
Full_Early(t) == (Inc(t) - head) % Wrap >= Capacity

(* The unsigned difference that tells whether there is room. *)
Full(t) == (Inc(t) - head) % Wrap > Capacity

(* push() loads head_ and goes on, or returns false; its argument, the     *)
(* task, is then destroyed.                                                *)
PushCheck(p) ==
  /\ ppc[p] = "check"
  /\ \/ /\ ~Full(ltail[p])
        /\ ppc' = [ppc EXCEPT ![p] = "construct"]
        /\ UNCHANGED <<item, accepted>>
     \/ /\ Full(ltail[p])
        /\ ppc' = [ppc EXCEPT ![p] = "idle"]
        /\ item' = [item EXCEPT ![p] = Raw]
        /\ accepted' = [accepted EXCEPT ![p] = FALSE]
  /\ UNCHANGED <<head, tail, slots, ltail, cpc, item_out, received>>

(* Mutant: the item goes to the slot of next_tail. *)
PushConstruct_NextSlot(p) ==
  /\ Goto(p, "construct", "publish")
  /\ slots' = [slots EXCEPT ![Slot(Inc(ltail[p]))] = item[p]]
  /\ UNCHANGED <<head, tail, ltail, item, accepted, cpc, item_out, received>>

(* Placement new: whatever the slot held is overwritten. *)
PushConstruct(p) ==
  /\ Goto(p, "construct", "publish")
  /\ slots' = [slots EXCEPT ![Slot(ltail[p])] = item[p]]
  /\ UNCHANGED <<head, tail, ltail, item, accepted, cpc, item_out, received>>

PushPublish(p) ==
  /\ Goto(p, "publish", "idle")
  /\ tail' = Inc(ltail[p])
  /\ item' = [item EXCEPT ![p] = Raw]
  /\ accepted' = [accepted EXCEPT ![p] = TRUE]
  /\ UNCHANGED <<head, slots, ltail, cpc, item_out, received>>
-----------------------------------------------------------------------------
(* pop(), called by the one consumer.                                      *)

PopCompare ==
  /\ cpc = "idle"
  /\ \/ /\ head = tail
        /\ received' = Raw
        /\ UNCHANGED cpc
     \/ /\ head # tail
        /\ cpc' = "take"
        /\ UNCHANGED received
  /\ UNCHANGED <<head, tail, slots, ppc, ltail, item, accepted, item_out>>

(* The item is moved out and its slot destroyed. *)
PopTake ==
  /\ cpc = "take"
  /\ cpc' = "advance"
  /\ item_out' = slots[Slot(head)]
  /\ slots' = [slots EXCEPT ![Slot(head)] = Raw]
  /\ UNCHANGED <<head, tail, ppc, ltail, item, accepted, received>>

PopAdvance ==
  /\ cpc = "advance"
  /\ cpc' = "idle"
  /\ head' = Inc(head)
  /\ received' = item_out
  /\ item_out' = Raw
  /\ UNCHANGED <<tail, slots, ppc, ltail, item, accepted>>
-----------------------------------------------------------------------------
(* ~SpscQueue(), when nobody uses the queue any more.                      *)

DtorStart ==
  /\ cpc = "idle"
  /\ \A p \in Producers : ppc[p] = "idle"
  /\ cpc' = "dtor"
  /\ UNCHANGED <<head, tail, slots, ppc, ltail, item, accepted, item_out, received>>

(* Mutant: the memory is freed, the items in it are not destroyed. *)
DtorStep_FreeOnly ==
  /\ cpc = "dtor"
  /\ cpc' = "gone"
  /\ UNCHANGED <<head, tail, slots, ppc, ltail, item, accepted, item_out, received>>

DtorStep ==
  /\ cpc = "dtor"
  /\ \/ /\ head # tail
        /\ slots' = [slots EXCEPT ![Slot(head)] = Raw]
        /\ head' = Inc(head)
        /\ UNCHANGED cpc
     \/ /\ head = tail
        /\ cpc' = "gone"
        /\ UNCHANGED <<slots, head>>
  /\ UNCHANGED <<tail, ppc, ltail, item, accepted, item_out, received>>
-----------------------------------------------------------------------------
Push(p) == \/ \E x \in Items : PushLoad(p, x)
           \/ PushCheck(p) \/ PushConstruct(p) \/ PushPublish(p)
Pop == PopCompare \/ PopTake \/ PopAdvance
Dtor == DtorStart \/ DtorStep

Next == (\E p \in Producers : Push(p)) \/ Pop \/ Dtor

Spec == Init /\ [][Next]_vars
-----------------------------------------------------------------------------
(* The variables keep their types. *)
TypeOK ==
  /\ head \in Counters /\ tail \in Counters
  /\ slots \in [0..Capacity-1 -> Items \cup {Raw}]
  /\ ppc \in [Producers -> {"idle", "check", "construct", "publish"}]
  /\ ltail \in [Producers -> Counters]
  /\ item \in [Producers -> Items \cup {Raw}]
  /\ accepted \in [Producers -> BOOLEAN]
  /\ cpc \in {"idle", "take", "advance", "dtor", "gone"}
  /\ item_out \in Items \cup {Raw}
  /\ received \in Items \cup {Raw}

(* Placement new never overwrites an item that has not been taken out, and *)
(* a move or a destructor never touches raw memory, however often the      *)
(* counters have gone round.                                               *)
SlotsUsedWell ==
  /\ \A p \in Producers : ppc[p] = "construct" => slots[Slot(ltail[p])] = Raw
  /\ cpc = "take" \/ (cpc = "dtor" /\ head # tail) => slots[Slot(head)] # Raw

(* Destroying the queue leaves no item behind. *)
NothingLeaks == cpc = "gone" => \A i \in 0..Capacity-1 : slots[i] = Raw

(* The number of items the counters say are queued, and those items: the   *)
(* first one has left its slot when pop() is about to advance head_.       *)
Count == (tail - head) % Wrap
Contents == [i \in 1..Count |-> IF i = 1 /\ cpc = "advance" THEN item_out
                                ELSE slots[Slot(head + i - 1)]]

(* push() and pop() act as on a bounded FIFO queue: full and empty are     *)
(* told apart correctly across a wrap of the counters, though each side    *)
(* decides on a counter that the other may move at any time.               *)
Fifo == INSTANCE BoundedFifo WITH queue <- Contents, Nothing <- Raw,
                                  closed <- cpc \in {"dtor", "gone"}
ImplementsBoundedFifo == Fifo!Spec

(* A push() that returns true has put its task at the end of the queue:    *)
(* what dispatch_on() relies on to deliver a task to another scheduler.    *)
AcceptedIsQueued ==
  [][\A p \in Producers : ppc[p] = "publish" /\ ppc'[p] = "idle"
        => Contents' = Append(Contents, item[p])]_vars
=============================================================================
