-------------------------- MODULE HttpServerProofs --------------------------
(***************************************************************************)
(* Proofs about HttpServer and the two modules it is made of: IoRequests   *)
(* with any application, BufferRing with any coroutines, and the server    *)
(* with any numbers of handlers, contexts, descriptors and clients.        *)
(***************************************************************************)
EXTENDS HttpServer, FiniteSetTheorems, TLAPS

(***************************************************************************)
(* IoRequests, with any application                                        *)
(***************************************************************************)

(* x is the context of a request on its way to the kernel, in the kernel,  *)
(* or completed.                                                           *)
InSq(x) == [op |-> "any", fd |-> None, ctx |-> x] \in sq
InFlight(x) == [op |-> "any", fd |-> None, ctx |-> x] \in inflight
InCq(x) == [tag |-> "TAG_IO", ctx |-> x, res |-> "done"] \in cq
Busy(x) == InSq(x) \/ InFlight(x) \/ InCq(x)

(* A request is in one place, and its context is allocated. *)
RequestState ==
  \A x \in Ctxs : /\ ~(InSq(x) /\ InFlight(x))
                  /\ ~(InSq(x) /\ InCq(x))
                  /\ ~(InFlight(x) /\ InCq(x))
                  /\ Busy(x) => heap[x] # None

(* A context that is not cancelled belongs to the coroutine whose handle   *)
(* it has, and only to that one; without a request on its way that         *)
(* coroutine is ready.                                                     *)
OwnerState ==
  \A x \in Ctxs : heap[x] # None =>
    /\ ~heap[x].cancelled => awaiting[heap[x].coro] = x
    /\ ~Busy(x) => ~heap[x].cancelled /\ heap[x].coro \in ready

(* What an awaiter refers to is its own.  A coroutine is ready when its    *)
(* request has been completed and polled.                                  *)
AwaiterState ==
  \A c \in Coros :
    /\ awaiting[c] # None => /\ heap[awaiting[c]] # None
                             /\ heap[awaiting[c]].coro = c
                             /\ ~heap[awaiting[c]].cancelled
    /\ c \in ready => /\ awaiting[c] # None
                      /\ ~Busy(awaiting[c])
                      /\ heap[awaiting[c]].res = "done"

IoInv == IoTypeOK /\ RequestState /\ OwnerState /\ AwaiterState
-----------------------------------------------------------------------------
(* Requests and completions are known by their contexts. *)
LEMMA IoShapes ==
  ASSUME IoTypeOK
  PROVE  /\ \A q \in sq \cup inflight :
              q.ctx \in Ctxs /\ q = [op |-> "any", fd |-> None, ctx |-> q.ctx]
         /\ \A e \in cq :
              e.ctx \in Ctxs /\ e = [tag |-> "TAG_IO", ctx |-> e.ctx, res |-> "done"]
BY DEF IoTypeOK

LEMMA IoInitInv == IoInit => IoInv
<1> SUFFICES ASSUME IoInit PROVE IoInv
  OBVIOUS
<1>1. IoTypeOK
  BY DEF IoInit, IoTypeOK
<1>2. RequestState
  BY DEF IoInit, RequestState, InSq, InFlight, InCq, Busy
<1>3. OwnerState /\ AwaiterState
  BY DEF IoInit, OwnerState, AwaiterState
<1> QED BY <1>1, <1>2, <1>3 DEF IoInv

LEMMA RequestsInv ==
  ASSUME IoInv, NEW c \in Coros, CoroutineRequests(c) PROVE IoInv'
<1> USE Addresses
<1>1. awaiting[c] = None /\ UNCHANGED <<inflight, cq, ready>>
  BY DEF CoroutineRequests
<1>2. PICK x \in Ctxs :
        /\ heap[x] = None
        /\ heap' = [heap EXCEPT ![x] = NewContext(c)]
        /\ sq' = sq \cup {[op |-> "any", fd |-> None, ctx |-> x]}
        /\ awaiting' = [awaiting EXCEPT ![c] = x]
  BY DEF CoroutineRequests, Request
<1>3. /\ NewContext(c) \in Contexts({"done"}) /\ NewContext(c) # None
      /\ NewContext(c).coro = c /\ NewContext(c).cancelled = FALSE
  <2>1. NewContext(c) \in Contexts({"done"})
    BY DEF NewContext, Contexts
  <2>2. NewContext(c).coro = c /\ NewContext(c).cancelled = FALSE
    BY DEF NewContext
  <2> QED BY <2>1, <2>2
<1>4. IoTypeOK'
  BY <1>1, <1>2, <1>3 DEF IoInv, IoTypeOK
<1>5. /\ \A y \in Ctxs : y # x => heap'[y] = heap[y]
      /\ heap'[x] = NewContext(c)
      /\ \A d \in Coros : d # c => awaiting'[d] = awaiting[d]
      /\ awaiting'[c] = x
  BY <1>2 DEF IoInv, IoTypeOK
<1>6. \A y \in Ctxs : InSq(y)' <=> InSq(y) \/ y = x
  BY <1>2 DEF InSq
<1>7. \A y \in Ctxs : (InFlight(y)' <=> InFlight(y)) /\ (InCq(y)' <=> InCq(y))
  BY <1>1 DEF InFlight, InCq
<1>8. \A y \in Ctxs : Busy(y)' <=> Busy(y) \/ y = x
  BY <1>6, <1>7 DEF Busy
<1>9. ~Busy(x)
  BY <1>2 DEF IoInv, RequestState
<1>10. \A d \in Coros : awaiting[d] # x
  BY <1>2 DEF IoInv, AwaiterState
<1>11. RequestState'
  BY <1>3, <1>5, <1>6, <1>7, <1>8, <1>9 DEF IoInv, RequestState, Busy
<1>12. \A d \in Coros : awaiting[d] \in Ctxs \cup {None}
  BY DEF IoInv, IoTypeOK
<1>13. OwnerState'
  <2> SUFFICES ASSUME NEW y \in Ctxs, heap'[y] # None
               PROVE  /\ ~heap'[y].cancelled => awaiting'[heap'[y].coro] = y
                      /\ ~Busy(y)' => ~heap'[y].cancelled /\ heap'[y].coro \in ready'
    BY DEF OwnerState
  <2>1. CASE y = x
    BY <1>3, <1>5, <1>8, <2>1
  <2>2. CASE y # x
    <3>1. heap[y].coro \in Coros
      BY <1>5, <2>2 DEF IoInv, IoTypeOK, Contexts
    <3> QED BY <1>1, <1>2, <1>5, <1>8, <2>2, <3>1 DEF IoInv, OwnerState
  <2> QED BY <2>1, <2>2
<1>14. AwaiterState'
  BY <1>1, <1>3, <1>5, <1>8, <1>10, <1>12 DEF IoInv, AwaiterState
<1> QED BY <1>4, <1>11, <1>13, <1>14 DEF IoInv

LEMMA ResumesInv ==
  ASSUME IoInv, NEW c \in Coros, CoroutineResumes(c) PROVE IoInv'
<1> USE Addresses
<1> DEFINE x == awaiting[c]
<1>1. /\ c \in ready /\ ready' = ready \ {c}
      /\ heap' = [heap EXCEPT ![x] = None]
      /\ awaiting' = [awaiting EXCEPT ![c] = None]
      /\ UNCHANGED <<sq, inflight, cq>>
  BY DEF CoroutineResumes, AfterDelete
<1>2. x \in Ctxs /\ ~Busy(x) /\ heap[x] # None /\ heap[x].coro = c
  BY <1>1 DEF IoInv, IoTypeOK, AwaiterState
<1> HIDE DEF x
<1>3. /\ \A y \in Ctxs : y # x => heap'[y] = heap[y]
      /\ heap'[x] = None
      /\ \A d \in Coros : d # c => awaiting'[d] = awaiting[d]
      /\ awaiting'[c] = None
      /\ \A y \in Ctxs : heap[y] # None => heap[y].coro \in Coros
      /\ \A d \in Coros : awaiting[d] \in Ctxs \cup {None}
  BY <1>1, <1>2 DEF IoInv, IoTypeOK, Contexts
<1>4. \A y : /\ InSq(y)' <=> InSq(y)
             /\ InFlight(y)' <=> InFlight(y)
             /\ InCq(y)' <=> InCq(y)
             /\ Busy(y)' <=> Busy(y)
  BY <1>1 DEF InSq, InFlight, InCq, Busy
<1>5. IoTypeOK'
  BY <1>1, <1>2 DEF IoInv, IoTypeOK
<1>6. RequestState'
  BY <1>2, <1>3, <1>4 DEF IoInv, RequestState
<1>7. OwnerState'
  <2> SUFFICES ASSUME NEW y \in Ctxs, heap'[y] # None
               PROVE  /\ ~heap'[y].cancelled => awaiting'[heap'[y].coro] = y
                      /\ ~Busy(y)' => ~heap'[y].cancelled /\ heap'[y].coro \in ready'
    BY DEF OwnerState
  <2>1. y # x /\ heap'[y] = heap[y]
    BY <1>3
  <2>2. ~heap[y].cancelled => heap[y].coro # c
    BY <2>1, <1>3 DEF x, IoInv, OwnerState
  <2> QED BY <1>1, <1>3, <1>4, <2>1, <2>2 DEF IoInv, OwnerState
<1>8. \A d \in Coros : d # c => awaiting[d] # x
  BY <1>2 DEF IoInv, AwaiterState
<1>9. AwaiterState'
  BY <1>1, <1>3, <1>4, <1>8 DEF IoInv, AwaiterState
<1> QED BY <1>5, <1>6, <1>7, <1>9 DEF IoInv

LEMMA DestroyedInv ==
  ASSUME IoInv, NEW c \in Coros, CoroutineDestroyed(c) PROVE IoInv'
<1> USE Addresses
<1> DEFINE x == awaiting[c]
<1>1. /\ c \notin ready /\ x # None
      /\ heap' = [heap EXCEPT ![x].cancelled = TRUE]
      /\ awaiting' = [awaiting EXCEPT ![c] = None]
      /\ UNCHANGED <<sq, inflight, cq, ready>>
  BY DEF CoroutineDestroyed, DestroyAwaiter
<1>2. x \in Ctxs /\ heap[x] # None /\ heap[x].coro = c /\ ~heap[x].cancelled
  BY <1>1 DEF IoInv, IoTypeOK, AwaiterState
<1>3. heap[x] \in Contexts({"done"})
  BY <1>2 DEF IoInv, IoTypeOK
<1> HIDE DEF x
<1>4. /\ heap'[x] \in Contexts({"done"}) /\ heap'[x].cancelled = TRUE
      /\ \A y \in Ctxs : y # x => heap'[y] = heap[y]
  BY <1>1, <1>2, <1>3 DEF IoInv, IoTypeOK, Contexts
<1>5. /\ \A d \in Coros : d # c => awaiting'[d] = awaiting[d]
      /\ awaiting'[c] = None
      /\ \A y \in Ctxs : heap[y] # None => heap[y].coro \in Coros
      /\ \A d \in Coros : awaiting[d] \in Ctxs \cup {None}
  BY <1>1 DEF IoInv, IoTypeOK, Contexts
<1>6. \A y : /\ InSq(y)' <=> InSq(y)
             /\ InFlight(y)' <=> InFlight(y)
             /\ InCq(y)' <=> InCq(y)
             /\ Busy(y)' <=> Busy(y)
  BY <1>1 DEF InSq, InFlight, InCq, Busy
<1>7. IoTypeOK'
  <2>1. heap' \in [Ctxs -> Contexts({"done"}) \cup {None}]
    BY <1>1, <1>4 DEF IoInv, IoTypeOK
  <2> QED BY <1>1, <2>1 DEF IoInv, IoTypeOK
<1>8. RequestState'
  BY <1>2, <1>4, <1>6 DEF IoInv, RequestState
<1>9. Busy(x)
  BY <1>1, <1>2 DEF IoInv, OwnerState
<1>10. OwnerState'
  <2> SUFFICES ASSUME NEW y \in Ctxs, heap'[y] # None
               PROVE  /\ ~heap'[y].cancelled => awaiting'[heap'[y].coro] = y
                      /\ ~Busy(y)' => ~heap'[y].cancelled /\ heap'[y].coro \in ready'
    BY DEF OwnerState
  <2>1. CASE y = x
    BY <1>4, <1>6, <1>9, <2>1
  <2>2. CASE y # x
    <3>1. ~heap[y].cancelled => heap[y].coro # c
      BY <2>2, <1>4 DEF x, IoInv, OwnerState
    <3> QED BY <1>1, <1>4, <1>5, <1>6, <2>2, <3>1 DEF IoInv, OwnerState
  <2> QED BY <2>1, <2>2
<1>11. \A d \in Coros : d # c => awaiting[d] # x
  BY <1>2 DEF IoInv, AwaiterState
<1>12. AwaiterState'
  BY <1>1, <1>4, <1>5, <1>6, <1>11 DEF IoInv, AwaiterState
<1> QED BY <1>7, <1>8, <1>10, <1>12 DEF IoInv
-----------------------------------------------------------------------------
LEMMA IoSubmitInv == ASSUME IoInv, Submit PROVE IoInv'
<1> USE Addresses
<1>1. /\ inflight' = inflight \cup sq /\ sq' = {}
      /\ UNCHANGED <<heap, cq, awaiting, ready>>
  BY DEF Submit
<1>2. \A y : /\ ~InSq(y)'
             /\ InFlight(y)' <=> InFlight(y) \/ InSq(y)
             /\ InCq(y)' <=> InCq(y)
             /\ Busy(y)' <=> Busy(y)
  BY <1>1 DEF InSq, InFlight, InCq, Busy
<1>3. IoTypeOK'
  BY <1>1 DEF IoInv, IoTypeOK
<1> QED BY <1>1, <1>2, <1>3 DEF IoInv, RequestState, OwnerState, AwaiterState

LEMMA CompletesInv ==
  ASSUME IoInv, NEW x \in Ctxs, KernelCompletes(x) PROVE IoInv'
<1> USE Addresses
<1>1. PICK q \in inflight : q.ctx = x /\ Complete(q, "done")
  BY DEF KernelCompletes
<1>2. q = [op |-> "any", fd |-> None, ctx |-> x]
  BY <1>1, IoShapes DEF IoInv
<1>3. /\ inflight' = inflight \ {q}
      /\ cq' = cq \cup {[tag |-> "TAG_IO", ctx |-> x, res |-> "done"]}
      /\ UNCHANGED <<heap, sq, awaiting, ready>>
  BY <1>1 DEF Complete
<1>4. \A y : /\ InSq(y)' <=> InSq(y)
             /\ InFlight(y)' <=> InFlight(y) /\ y # x
             /\ InCq(y)' <=> InCq(y) \/ y = x
  BY <1>2, <1>3 DEF InSq, InFlight, InCq
<1>5. InFlight(x)
  BY <1>1, <1>2 DEF InFlight
<1>6. \A y : Busy(y)' <=> Busy(y)
  BY <1>4, <1>5 DEF Busy
<1>7. IoTypeOK'
  BY <1>3 DEF IoInv, IoTypeOK
<1> QED BY <1>3, <1>4, <1>5, <1>6, <1>7 DEF IoInv, RequestState, OwnerState, AwaiterState

(* poll() frees the context of a destroyed awaiter, which nobody refers    *)
(* to, or queues the coroutine that still awaits it.                       *)
LEMMA IoPollInv ==
  ASSUME IoInv, NEW x \in Ctxs, PollIo(x) PROVE IoInv'
<1> USE Addresses
<1>1. PICK e \in cq :
        /\ e.tag = "TAG_IO" /\ e.ctx = x
        /\ cq' = cq \ {e}
        /\ \/ /\ heap[x].cancelled
              /\ heap' = [heap EXCEPT ![x] = None]
              /\ UNCHANGED ready
           \/ /\ ~heap[x].cancelled
              /\ heap' = [heap EXCEPT ![x].res = e.res]
              /\ ready' = ready \cup {heap[x].coro}
        /\ UNCHANGED <<sq, inflight, awaiting>>
  BY DEF PollIo
<1>2. e = [tag |-> "TAG_IO", ctx |-> x, res |-> "done"] /\ e.res = "done"
  BY <1>1, IoShapes DEF IoInv
<1>3. InCq(x)
  BY <1>1, <1>2 DEF InCq
<1>4. \A y : /\ InSq(y)' <=> InSq(y)
             /\ InFlight(y)' <=> InFlight(y)
             /\ InCq(y)' <=> InCq(y) /\ y # x
  BY <1>1, <1>2 DEF InSq, InFlight, InCq
<1>5. ~Busy(x)' /\ \A y : y # x => (Busy(y)' <=> Busy(y))
  BY <1>3, <1>4 DEF Busy, IoInv, RequestState
<1>6. heap[x] # None /\ heap[x] \in Contexts({"done"}) /\ heap[x].coro \in Coros
  BY <1>3 DEF Busy, IoInv, RequestState, IoTypeOK, Contexts
<1>7. \A d \in Coros : awaiting[d] \in Ctxs \cup {None}
  BY DEF IoInv, IoTypeOK
<1>8. CASE heap[x].cancelled
  <2>1. /\ heap' = [heap EXCEPT ![x] = None] /\ UNCHANGED ready
        /\ heap'[x] = None /\ \A y \in Ctxs : y # x => heap'[y] = heap[y]
    BY <1>1, <1>8 DEF IoInv, IoTypeOK
  <2>2. IoTypeOK'
    BY <1>1, <2>1 DEF IoInv, IoTypeOK
  <2>3. \A d \in Coros : awaiting[d] # x
    BY <1>8 DEF IoInv, AwaiterState
  <2>4. RequestState'
    BY <1>4, <1>5, <2>1 DEF IoInv, RequestState
  <2>5. OwnerState'
    BY <1>1, <1>5, <2>1 DEF IoInv, OwnerState
  <2>6. AwaiterState'
    BY <1>1, <1>5, <1>7, <2>1, <2>3 DEF IoInv, AwaiterState
  <2> QED BY <2>2, <2>4, <2>5, <2>6 DEF IoInv
<1>9. CASE ~heap[x].cancelled
  <2> DEFINE c == heap[x].coro
  <2>1. /\ heap' = [heap EXCEPT ![x].res = "done"] /\ ready' = ready \cup {c}
    BY <1>1, <1>2, <1>9
  <2>2. /\ heap'[x] \in Contexts({"done"}) /\ heap'[x].coro = c
        /\ heap'[x].cancelled = heap[x].cancelled /\ heap'[x].res = "done"
        /\ \A y \in Ctxs : y # x => heap'[y] = heap[y]
    BY <2>1, <1>6 DEF IoInv, IoTypeOK, Contexts
  <2>3. awaiting[c] = x /\ c \in Coros
    BY <1>6, <1>9 DEF IoInv, OwnerState
  <2> HIDE DEF c
  <2>4. IoTypeOK'
    <3>1. heap' \in [Ctxs -> Contexts({"done"}) \cup {None}]
      BY <2>1, <2>2 DEF IoInv, IoTypeOK
    <3> QED BY <1>1, <2>1, <2>3, <3>1 DEF IoInv, IoTypeOK
  <2>5. RequestState'
    BY <1>4, <1>5, <2>2 DEF IoInv, RequestState
  <2>6. OwnerState'
    BY <1>1, <1>5, <1>9, <2>1, <2>2, <2>3 DEF IoInv, OwnerState
  <2>7. \A d \in Coros : awaiting[d] = x => d = c
    BY DEF c, IoInv, AwaiterState
  <2>8. AwaiterState'
    BY <1>1, <1>5, <1>7, <1>9, <2>1, <2>2, <2>3, <2>7 DEF IoInv, AwaiterState
  <2> QED BY <2>4, <2>5, <2>6, <2>8 DEF IoInv
<1> QED BY <1>8, <1>9

LEMMA IoStep == IoInv /\ [IoNext]_ioVars => IoInv'
<1> SUFFICES ASSUME IoInv, [IoNext]_ioVars PROVE IoInv'
  OBVIOUS
<1>1. CASE UNCHANGED ioVars
  BY <1>1 DEF ioVars, IoInv, IoTypeOK, RequestState, OwnerState, AwaiterState,
              InSq, InFlight, InCq, Busy
<1>2. CASE IoNext
  BY <1>2, RequestsInv, ResumesInv, DestroyedInv, IoSubmitInv, CompletesInv, IoPollInv DEF IoNext
<1> QED BY <1>1, <1>2

LEMMA IoInvariant == IoSpec => []IoInv
BY IoInitInv, IoStep, PTL DEF IoSpec
-----------------------------------------------------------------------------
(* The variables of the requests keep their types. *)
THEOREM IoTypeCorrect == IoSpec => []IoTypeOK
<1>1. IoInv => IoTypeOK
  BY DEF IoInv
<1> QED BY <1>1, IoInvariant, PTL

(* An IoContext is freed once and by one party, when neither the kernel    *)
(* nor poll() refers to it.                                                *)
THEOREM EachContextOwned == IoSpec => []ContextsOwned
<1>1. IoInv => ContextsOwned
  <2> SUFFICES ASSUME IoInv PROVE ContextsOwned
    OBVIOUS
  <2> USE Addresses
  <2>1. \A p \in Pending : /\ p.ctx \in Ctxs /\ Busy(p.ctx)
                           /\ \/ /\ p = [op |-> "any", fd |-> None, ctx |-> p.ctx]
                                 /\ InSq(p.ctx) \/ InFlight(p.ctx)
                              \/ /\ p = [tag |-> "TAG_IO", ctx |-> p.ctx, res |-> "done"]
                                 /\ InCq(p.ctx)
    BY IoShapes DEF IoInv, Pending, Busy, InSq, InFlight, InCq
  <2>2. \A p \in Pending : heap[p.ctx] # None
    BY <2>1 DEF IoInv, RequestState
  <2>3. ASSUME NEW p \in Pending, NEW q \in Pending, p.ctx = q.ctx PROVE p = q
    BY <2>1, <2>3 DEF IoInv, RequestState
  <2>4. ASSUME NEW x \in Ctxs, heap[x] # None, \A p \in Pending : p.ctx # x
        PROVE  \E c \in ready : awaiting[c] = x
    <3>1. ~Busy(x)
      BY <2>4 DEF Busy, InSq, InFlight, InCq, Pending
    <3> QED BY <2>4, <3>1 DEF IoInv, OwnerState
  <2> QED BY <2>2, <2>3, <2>4 DEF ContextsOwned
<1> QED BY <1>1, IoInvariant, PTL

(* poll() queues only coroutines that exist and still await, and their     *)
(* result is there when they are resumed.                                  *)
THEOREM ReadyCoroutines == IoSpec => []ReadyHasResult
<1>1. IoInv => ReadyHasResult
  BY Addresses DEF IoInv, IoTypeOK, AwaiterState, ReadyHasResult
<1> QED BY <1>1, IoInvariant, PTL

(***************************************************************************)
(* BufferRing, with any coroutines                                         *)
(***************************************************************************)

(* A number below twice b is at most one b away from its remainder. *)
LEMMA ModBelow ==
  ASSUME NEW b \in Nat \ {0}, NEW a \in 0..2*b-1
  PROVE  a % b = IF a < b THEN a ELSE a - b
<1> DEFINE p == a \div b
           s == a % b
<1>1. p \in Int /\ s \in 0..b-1 /\ a = b * p + s
  OBVIOUS
<1> SUFFICES s = IF a < b THEN a ELSE a - b
  OBVIOUS
<1> HIDE DEF p, s
<1>2. CASE p >= 2
  <2>1. b * p >= 2 * b
    BY <1>1, <1>2
  <2> QED BY <1>1, <2>1
<1>3. CASE p <= 0 - 1
  <2>1. b * p <= 0 - b
    BY <1>1, <1>3
  <2> QED BY <1>1, <2>1
<1>4. CASE p = 0
  BY <1>1, <1>4
<1>5. CASE p = 1
  BY <1>1, <1>5
<1> QED BY <1>1, <1>2, <1>3, <1>4, <1>5

Positions == 0..TailWrap-1

(* The entries between a head and a tail. *)
Between(h, t) == (t + TailWrap - h) % TailWrap

LEMMA BetweenIs ==
  ASSUME NEW h \in Positions, NEW t \in Positions
  PROVE  Between(h, t) = IF t >= h THEN t - h ELSE t + TailWrap - h
<1> DEFINE a == t + TailWrap - h
<1>1. TailWrap \in Nat \ {0} /\ a \in 0..2*TailWrap-1
  BY RingSizes DEF Positions
<1> HIDE DEF a
<1>2. a % TailWrap = IF a < TailWrap THEN a ELSE a - TailWrap
  BY <1>1, ModBelow
<1> QED BY <1>2, RingSizes DEF Between, Positions, a

LEMMA NextPosition ==
  ASSUME NEW t \in Positions
  PROVE  /\ (t + 1) % TailWrap \in Positions
         /\ (t + 1) % TailWrap = IF t + 1 = TailWrap THEN 0 ELSE t + 1
<1> DEFINE a == t + 1
<1>1. TailWrap \in Nat \ {0} /\ a \in 0..2*TailWrap-1
  BY RingSizes DEF Positions
<1> HIDE DEF a
<1>2. a % TailWrap = IF a < TailWrap THEN a ELSE a - TailWrap
  BY <1>1, ModBelow
<1> QED BY <1>2, RingSizes DEF Positions, a

LEMMA EntryIndex ==
  ASSUME NEW k \in Nat PROVE k % BUF_RING_SIZE \in Buffers
BY RingSizes DEF Buffers

LEMMA HoldersFinite == IsFiniteSet(Holders) /\ Cardinality(Holders) \in Nat
<1>1. Holders \subseteq Receives
  BY DEF Holders
<1> QED BY <1>1, NoIds, FS_Subset, FS_CardinalityType

RingInv == RingTypeOK /\ EntriesConserved
-----------------------------------------------------------------------------
LEMMA RingInitInv == RingInit => RingInv
<1> SUFFICES ASSUME RingInit PROVE RingInv
  OBVIOUS
<1>1. BUF_RING_SIZE % TailWrap = BUF_RING_SIZE
  BY RingSizes, ModBelow
<1>2. tail = BUF_RING_SIZE /\ khead = 0 /\ tail \in Positions /\ khead \in Positions
  BY <1>1, RingSizes DEF RingInit, Positions
<1>3. RingTypeOK
  BY <1>2 DEF RingInit, RingTypeOK, Positions
<1>4. Holders = {}
  BY NoIds DEF RingInit, Holders, Buffers
<1>5. Between(khead, tail) = BUF_RING_SIZE
  BY <1>2, BetweenIs, RingSizes
<1>6. EntriesConserved
  BY <1>4, <1>5, FS_EmptySet, RingSizes DEF EntriesConserved, Between
<1> QED BY <1>3, <1>6 DEF RingInv

LEMMA ReceiveInv ==
  ASSUME RingInv, NEW r \in Receives, Receive(r) PROVE RingInv'
<1>1. /\ got[r] = NoBuffer /\ khead # tail
      /\ got' = [got EXCEPT ![r] = bufs[khead % BUF_RING_SIZE]]
      /\ khead' = (khead + 1) % TailWrap
      /\ UNCHANGED <<bufs, tail>>
  BY DEF Receive
<1>2. khead \in Positions /\ tail \in Positions
  BY DEF RingInv, RingTypeOK, Positions
<1>3. bufs[khead % BUF_RING_SIZE] \in Buffers
  BY <1>2, EntryIndex, RingSizes DEF RingInv, RingTypeOK, Positions
<1>4. khead' \in Positions /\ khead' = IF khead + 1 = TailWrap THEN 0 ELSE khead + 1
  BY <1>1, <1>2, NextPosition
<1>5. RingTypeOK'
  BY <1>1, <1>3, <1>4 DEF RingInv, RingTypeOK, Positions
<1>6. Holders' = Holders \cup {r} /\ r \notin Holders
  BY <1>1, <1>3, NoIds DEF Holders, Buffers, RingInv, RingTypeOK
<1>7. Cardinality(Holders') = Cardinality(Holders) + 1
  BY <1>6, HoldersFinite, FS_AddElement
<1>8. Between(khead', tail) = Between(khead, tail) - 1
  <2>1. Between(khead, tail) = IF tail >= khead THEN tail - khead ELSE tail + TailWrap - khead
    BY <1>2, BetweenIs
  <2>2. Between(khead', tail)
          = IF tail >= khead' THEN tail - khead' ELSE tail + TailWrap - khead'
    BY <1>2, <1>4, BetweenIs
  <2> QED BY <1>1, <1>2, <1>4, <2>1, <2>2, RingSizes DEF Positions
<1>9. Between(khead, tail) \in Int
  BY <1>2, BetweenIs, RingSizes DEF Positions
<1>10. EntriesConserved'
  BY <1>1, <1>7, <1>8, <1>9, HoldersFinite, RingSizes DEF RingInv, EntriesConserved, Between
<1> QED BY <1>5, <1>10 DEF RingInv

(* The tail cannot reach the head from behind: there is an entry for each  *)
(* buffer, and one of them is in use.                                      *)
LEMMA ReturnInv ==
  ASSUME RingInv, NEW r \in Receives, ReturnBuffer(r) PROVE RingInv'
<1>1. /\ got[r] \in Buffers
      /\ bufs' = [bufs EXCEPT ![EntryFor(tail)] = got[r]]
      /\ tail' = (tail + 1) % TailWrap
      /\ got' = [got EXCEPT ![r] = NoBuffer]
      /\ UNCHANGED khead
  BY DEF ReturnBuffer, Advanced
<1>2. khead \in Positions /\ tail \in Positions
  BY DEF RingInv, RingTypeOK, Positions
<1>3. tail' \in Positions /\ tail' = IF tail + 1 = TailWrap THEN 0 ELSE tail + 1
  BY <1>1, <1>2, NextPosition
<1>4. RingTypeOK'
  BY <1>1, <1>3 DEF RingInv, RingTypeOK, Positions
<1>5. Holders' = Holders \ {r} /\ r \in Holders
  BY <1>1, NoIds DEF Holders, Buffers, RingInv, RingTypeOK
<1>6. Cardinality(Holders') = Cardinality(Holders) - 1 /\ Cardinality(Holders') \in Nat
  BY <1>5, HoldersFinite, FS_RemoveElement, FS_CardinalityType
<1>7. Between(khead, tail) + Cardinality(Holders) = BUF_RING_SIZE
  BY DEF RingInv, EntriesConserved, Between
<1>8. Between(khead, tail) \in Int
  BY <1>2, BetweenIs, RingSizes DEF Positions
<1>9. Between(khead, tail) < TailWrap - 1
  BY <1>6, <1>7, <1>8, HoldersFinite, RingSizes
<1>10. Between(khead, tail') = Between(khead, tail) + 1
  <2>1. Between(khead, tail) = IF tail >= khead THEN tail - khead ELSE tail + TailWrap - khead
    BY <1>2, BetweenIs
  <2>2. Between(khead, tail')
          = IF tail' >= khead THEN tail' - khead ELSE tail' + TailWrap - khead
    BY <1>2, <1>3, BetweenIs
  <2> QED BY <1>2, <1>3, <1>9, <2>1, <2>2, RingSizes DEF Positions
<1>11. EntriesConserved'
  BY <1>1, <1>6, <1>7, <1>8, <1>10, HoldersFinite, RingSizes DEF EntriesConserved, Between
<1> QED BY <1>4, <1>11 DEF RingInv

LEMMA RingErrorInv ==
  ASSUME RingInv, NEW r \in Receives, ReceiveFails(r) \/ SeesError(r) PROVE RingInv'
<1>1. /\ UNCHANGED <<bufs, tail, khead>>
      /\ got[r] \in {NoBuffer, ENOBUFS}
      /\ \E v \in {NoBuffer, ENOBUFS} : got' = [got EXCEPT ![r] = v]
  BY DEF ReceiveFails, SeesError
<1>2. RingTypeOK'
  BY <1>1 DEF RingInv, RingTypeOK
<1>3. Holders' = Holders
  BY <1>1, NoIds DEF Holders, Buffers, RingInv, RingTypeOK
<1> QED BY <1>1, <1>2, <1>3 DEF RingInv, EntriesConserved

LEMMA RingStep == RingInv /\ [RingNext]_ringVars => RingInv'
<1> SUFFICES ASSUME RingInv, [RingNext]_ringVars PROVE RingInv'
  OBVIOUS
<1>1. CASE UNCHANGED ringVars
  BY <1>1 DEF ringVars, RingInv, RingTypeOK, EntriesConserved, Holders
<1>2. CASE RingNext
  BY <1>2, ReceiveInv, ReturnInv, RingErrorInv DEF RingNext
<1> QED BY <1>1, <1>2

LEMMA RingInvariant == RingSpec => []RingInv
BY RingInitInv, RingStep, PTL DEF RingSpec
-----------------------------------------------------------------------------
(* return_buffer() and the receives never lose or invent an entry of the   *)
(* ring, whatever ids it holds and however often the 16-bit tail wraps.    *)
THEOREM EntriesKept == RingSpec => []EntriesConserved
<1>1. RingInv => EntriesConserved
  BY DEF RingInv
<1> QED BY <1>1, RingInvariant, PTL

(***************************************************************************)
(* The server: the requests of the handlers                                *)
(***************************************************************************)

Waiting(h) == stage[h] \in {"recv", "send", "close"}

Completions == [tag : {"TAG_IO"}, ctx : Ctxs, res : Results]
Accepts == [tag : {"TAG_MULTI"}, ctx : {None}, res : Fds \cup {"error"}]

RequestTypes ==
  /\ heap \in [Ctxs -> Contexts(Results) \cup {None}]
  /\ sq \subseteq Requests /\ inflight \subseteq Requests
  /\ cq \subseteq Completions \cup Accepts
  /\ awaiting \in [Coros -> Ctxs \cup {None}]
  /\ ready \subseteq Coros
  /\ stage \in [Handlers -> {"free", "start", "recv", "send", "close"}]
  /\ fdOf \in [Handlers -> Fds \cup {None}]

(* What the frame of a handler holds at each of its awaits. *)
Frames ==
  \A h \in Handlers :
    /\ stage[h] = "free" => fdOf[h] = None /\ awaiting[h] = None /\ h \notin ready
    /\ stage[h] = "start" => fdOf[h] \in Fds /\ awaiting[h] = None /\ h \in ready
    /\ Waiting(h) => /\ fdOf[h] \in Fds /\ awaiting[h] \in Ctxs
                     /\ heap[awaiting[h]] # None
                     /\ heap[awaiting[h]].coro = h
                     /\ heap[awaiting[h]].cancelled = FALSE

(* Nothing is on its way but what a handler waits for: no context, no      *)
(* request and no completion is left from an await that is over.           *)
AllAwaited ==
  /\ \A x \in Ctxs : heap[x] # None => awaiting[heap[x].coro] = x
  /\ \A q \in sq \cup inflight : \/ q = AcceptMultishot
                                 \/ \E h \in Handlers : Waiting(h) /\ q = Ask(h)
  /\ \A e \in cq : e.tag = "TAG_IO" =>
                     \E h \in Handlers : Waiting(h) /\ e.ctx = awaiting[h]
  /\ \A d, e \in cq : d.tag = "TAG_IO" /\ e.tag = "TAG_IO" /\ d.ctx = e.ctx => d = e

(* A request is prepared, in the kernel, completed or delivered, and no    *)
(* two of these at the same time.                                          *)
InOnePlace ==
  \A h \in Handlers : Waiting(h) =>
    /\ SqHas(h) \/ KernelHas(h) \/ CqHas(h) \/ h \in ready
    /\ SqHas(h) => ~KernelHas(h) /\ ~CqHas(h) /\ h \notin ready
    /\ KernelHas(h) => ~CqHas(h) /\ h \notin ready
    /\ CqHas(h) => h \notin ready

(* The accept is submitted before there is any connection. *)
AcceptFirst ==
  AcceptMultishot \in sq => /\ sq = {AcceptMultishot} /\ inflight = {} /\ cq = {}
                            /\ \A h \in Handlers : stage[h] = "free"

ServerInv == RequestTypes /\ Frames /\ AllAwaited /\ InOnePlace /\ AcceptFirst
-----------------------------------------------------------------------------
(* Waiting handlers have contexts and requests of their own. *)
LEMMA OwnRequests ==
  ASSUME ServerInv
  PROVE  /\ \A h \in Handlers : Waiting(h) <=> awaiting[h] # None
         /\ \A g, h \in Handlers :
              Waiting(g) /\ awaiting[g] = awaiting[h] => g = h
         /\ \A g, h \in Handlers : Waiting(g) /\ Ask(g) = Ask(h) => g = h
         /\ \A h \in Handlers : Waiting(h) => Ask(h) # AcceptMultishot
<1> USE Addresses
<1>1. \A h \in Handlers : Waiting(h) <=> awaiting[h] # None
  <2> SUFFICES ASSUME NEW h \in Handlers PROVE Waiting(h) <=> awaiting[h] # None
    OBVIOUS
  <2>1. stage[h] \in {"free", "start", "recv", "send", "close"}
    BY DEF ServerInv, RequestTypes
  <2> QED BY <2>1 DEF ServerInv, Frames, Waiting
<1>2. \A g, h \in Handlers : Waiting(g) /\ awaiting[g] = awaiting[h] => g = h
  BY <1>1 DEF ServerInv, Frames
<1>3. \A h \in Handlers : Ask(h).ctx = awaiting[h] /\ AcceptMultishot.ctx = None
  BY DEF Ask, AcceptMultishot
<1> QED BY <1>1, <1>2, <1>3

LEMMA CompletionShapes ==
  ASSUME ServerInv
  PROVE  \A e \in cq : /\ e.tag = "TAG_IO" => e.ctx \in Ctxs /\ e.res \in Results
                       /\ e.tag # "TAG_IO" => /\ e.tag = "TAG_MULTI"
                                              /\ e.ctx = None
                                              /\ e.res \in Fds \cup {"error"}
                       /\ e.tag = "TAG_MULTI" => e \in Accepts
BY DEF ServerInv, RequestTypes, Completions, Accepts

LEMMA RequestShapes ==
  ASSUME ServerInv, NEW q \in sq \cup inflight, q.ctx \in Ctxs
  PROVE  \E h \in Handlers : Waiting(h) /\ q = Ask(h)
<1>1. AcceptMultishot.ctx = None
  BY DEF AcceptMultishot
<1> QED BY <1>1, Addresses DEF ServerInv, AllAwaited

LEMMA ServerInit == Init => ServerInv
<1> SUFFICES ASSUME Init PROVE ServerInv
  OBVIOUS
<1>1. RequestTypes
  BY DEF Init, RequestTypes, Requests, Handlers
<1>2. Frames
  BY DEF Init, Frames, Waiting, Handlers
<1>3. AllAwaited
  BY DEF Init, AllAwaited
<1>4. InOnePlace
  BY DEF Init, InOnePlace, Waiting
<1>5. AcceptFirst
  BY DEF Init, AcceptFirst
<1> QED BY <1>1, <1>2, <1>3, <1>4, <1>5 DEF ServerInv

LEMMA ServerStutter ==
  ASSUME ServerInv, UNCHANGED <<ioVars, http>> PROVE ServerInv'
BY DEF ioVars, http, ServerInv, RequestTypes, Frames, AllAwaited, InOnePlace, AcceptFirst,
       Waiting, Ask, SqHas, KernelHas, CqHas

(* The completions of the accept concern no handler yet. *)
LEMMA AcceptInv ==
  ASSUME ServerInv, AcceptMultishot \in inflight,
         NEW res \in Fds \cup {"error"}, PostMulti(res),
         inflight' \in {inflight, inflight \ {AcceptMultishot}},
         UNCHANGED <<heap, sq, awaiting, ready, http>>
  PROVE  ServerInv'
<1> DEFINE m == [tag |-> "TAG_MULTI", ctx |-> None, res |-> res]
<1>1. cq' = cq \cup {m} /\ m.tag # "TAG_IO" /\ m \in Accepts
  BY DEF PostMulti, Accepts
<1> HIDE DEF m
<1>2. UNCHANGED <<stage, fdOf>>
  BY DEF http
<1>3. \A h \in Handlers : /\ Waiting(h)' <=> Waiting(h)
                          /\ Ask(h)' = Ask(h)
                          /\ SqHas(h)' <=> SqHas(h)
                          /\ CqHas(h)' <=> CqHas(h)
  BY <1>1, <1>2 DEF Waiting, Ask, SqHas, CqHas
<1>4. \A h \in Handlers : Waiting(h) => (KernelHas(h)' <=> KernelHas(h))
  BY <1>3, OwnRequests DEF KernelHas
<1>5. RequestTypes'
  BY <1>1, <1>2 DEF ServerInv, RequestTypes
<1>6. Frames'
  BY <1>2, <1>3 DEF ServerInv, Frames
<1>7. AllAwaited'
  BY <1>1, <1>3 DEF ServerInv, AllAwaited
<1>8. InOnePlace'
  BY <1>3, <1>4 DEF ServerInv, InOnePlace
<1>9. AcceptFirst'
  BY DEF ServerInv, AcceptFirst
<1> QED BY <1>5, <1>6, <1>7, <1>8, <1>9 DEF ServerInv

(* The kernel completes the request of a handler. *)
LEMMA CompleteInv ==
  ASSUME ServerInv, NEW h \in Handlers, Waiting(h), NEW res \in Results,
         Complete(Ask(h), res), UNCHANGED http
  PROVE  ServerInv'
<1> USE Addresses
<1> DEFINE m == [tag |-> "TAG_IO", ctx |-> awaiting[h], res |-> res]
<1>1. /\ Ask(h) \in inflight /\ inflight' = inflight \ {Ask(h)}
      /\ cq' = cq \cup {m}
      /\ UNCHANGED <<heap, sq, awaiting, ready, stage, fdOf>>
  BY DEF Complete, Ask, http
<1>2. awaiting[h] \in Ctxs
  BY DEF ServerInv, Frames
<1>3. m \in Completions /\ m.tag = "TAG_IO" /\ m.ctx = awaiting[h]
  BY <1>2 DEF Completions
<1> HIDE DEF m
<1>4. \A g \in Handlers : /\ Waiting(g)' <=> Waiting(g)
                          /\ Ask(g)' = Ask(g)
                          /\ SqHas(g)' <=> SqHas(g)
  BY <1>1 DEF Waiting, Ask, SqHas
<1>5. \A g \in Handlers : Waiting(g) => (KernelHas(g)' <=> KernelHas(g) /\ g # h)
  BY <1>1, <1>4, OwnRequests DEF KernelHas
<1>6. \A g \in Handlers : Waiting(g) => (CqHas(g)' <=> CqHas(g) \/ g = h)
  BY <1>1, <1>3, OwnRequests DEF CqHas
<1>7. KernelHas(h) /\ ~SqHas(h) /\ ~CqHas(h) /\ h \notin ready
  BY <1>1 DEF KernelHas, ServerInv, InOnePlace
<1>8. RequestTypes'
  BY <1>1, <1>3 DEF ServerInv, RequestTypes
<1>9. Frames'
  BY <1>1, <1>4 DEF ServerInv, Frames
<1>10. AllAwaited'
  <2>1. \A e \in cq : e.tag = "TAG_IO" => e.ctx # awaiting[h]
    BY <1>7 DEF CqHas
  <2>2. \A d, e \in cq' : d.tag = "TAG_IO" /\ e.tag = "TAG_IO" /\ d.ctx = e.ctx => d = e
    BY <1>1, <1>3, <2>1 DEF ServerInv, AllAwaited
  <2> QED BY <1>1, <1>3, <1>4, <2>2 DEF ServerInv, AllAwaited
<1>11. InOnePlace'
  BY <1>1, <1>4, <1>5, <1>6, <1>7 DEF ServerInv, InOnePlace
<1>12. AcceptFirst'
  BY <1>1 DEF ServerInv, AcceptFirst
<1> QED BY <1>8, <1>9, <1>10, <1>11, <1>12 DEF ServerInv

LEMMA SubmitInv ==
  ASSUME ServerInv, Submit, UNCHANGED http PROVE ServerInv'
<1>1. /\ inflight' = inflight \cup sq /\ sq' = {}
      /\ UNCHANGED <<heap, cq, awaiting, ready, stage, fdOf>>
  BY DEF Submit, http
<1>2. \A h \in Handlers : /\ Waiting(h)' <=> Waiting(h)
                          /\ Ask(h)' = Ask(h)
                          /\ ~SqHas(h)'
                          /\ KernelHas(h)' <=> KernelHas(h) \/ SqHas(h)
                          /\ CqHas(h)' <=> CqHas(h)
  BY <1>1 DEF Waiting, Ask, SqHas, KernelHas, CqHas
<1>3. RequestTypes' /\ AcceptFirst'
  BY <1>1 DEF ServerInv, RequestTypes, AcceptFirst
<1>4. Frames'
  BY <1>1, <1>2 DEF ServerInv, Frames
<1>5. AllAwaited'
  BY <1>1, <1>2 DEF ServerInv, AllAwaited
<1>6. InOnePlace'
  BY <1>1, <1>2 DEF ServerInv, InOnePlace
<1> QED BY <1>3, <1>4, <1>5, <1>6 DEF ServerInv

(* poll() delivers a completion to the handler that waits for it. *)
LEMMA PolledIs ==
  ASSUME ServerInv, NEW x \in Ctxs, PollIo(x)
  PROVE  \E h \in Handlers, e \in cq :
           /\ Waiting(h) /\ awaiting[h] = x /\ e.tag = "TAG_IO" /\ e.ctx = x
           /\ cq' = cq \ {e}
           /\ heap' = [heap EXCEPT ![x].res = e.res]
           /\ heap'[x] = [heap[x] EXCEPT !.res = e.res]
           /\ heap[x] \in Contexts(Results)
           /\ ready' = ready \cup {h}
           /\ UNCHANGED <<sq, inflight, awaiting>>
<1>1. PICK e \in cq :
        /\ e.tag = "TAG_IO" /\ e.ctx = x
        /\ cq' = cq \ {e}
        /\ \/ heap[x].cancelled
           \/ /\ ~heap[x].cancelled
              /\ heap' = [heap EXCEPT ![x].res = e.res]
              /\ ready' = ready \cup {heap[x].coro}
        /\ UNCHANGED <<sq, inflight, awaiting>>
  BY DEF PollIo
<1>2. PICK h \in Handlers : Waiting(h) /\ awaiting[h] = x
  BY <1>1 DEF ServerInv, AllAwaited
<1>3. heap[x].coro = h /\ heap[x].cancelled = FALSE /\ heap[x] # None
  BY <1>2 DEF ServerInv, Frames
<1>4. heap \in [Ctxs -> Contexts(Results) \cup {None}]
  BY DEF ServerInv, RequestTypes
<1>5. /\ heap' = [heap EXCEPT ![x].res = e.res] /\ ready' = ready \cup {h}
  BY <1>1, <1>3
<1>6. heap[x] \in Contexts(Results) /\ heap'[x] = [heap[x] EXCEPT !.res = e.res]
  BY <1>3, <1>4, <1>5
<1> QED BY <1>1, <1>2, <1>5, <1>6

LEMMA PollInv ==
  ASSUME ServerInv, NEW x \in Ctxs, PollIo(x), UNCHANGED http PROVE ServerInv'
<1> USE Addresses
<1>1. PICK h \in Handlers, e \in cq :
           /\ Waiting(h) /\ awaiting[h] = x /\ e.tag = "TAG_IO" /\ e.ctx = x
           /\ cq' = cq \ {e}
           /\ heap' = [heap EXCEPT ![x].res = e.res]
           /\ heap'[x] = [heap[x] EXCEPT !.res = e.res]
           /\ heap[x] \in Contexts(Results)
           /\ ready' = ready \cup {h}
           /\ UNCHANGED <<sq, inflight, awaiting>>
  BY PolledIs
<1>2. UNCHANGED <<stage, fdOf>>
  BY DEF http
<1>3. /\ heap'[x] \in Contexts(Results) /\ heap'[x].coro = heap[x].coro
      /\ heap'[x].cancelled = heap[x].cancelled
      /\ \A y \in Ctxs : y # x => heap'[y] = heap[y]
  <2>1. e.res \in Results
    BY <1>1, CompletionShapes
  <2>2. heap \in [Ctxs -> Contexts(Results) \cup {None}]
    BY DEF ServerInv, RequestTypes
  <2> QED BY <1>1, <2>1, <2>2 DEF Contexts
<1>4. heap'[x] # None
  BY <1>3, Program
<1>5. \A g \in Handlers : /\ Waiting(g)' <=> Waiting(g)
                          /\ Ask(g)' = Ask(g)
                          /\ SqHas(g)' <=> SqHas(g)
                          /\ KernelHas(g)' <=> KernelHas(g)
  BY <1>1, <1>2 DEF Waiting, Ask, SqHas, KernelHas
<1>6. \A g \in Handlers : Waiting(g) => (CqHas(g)' <=> CqHas(g) /\ g # h)
  <2>1. \A d \in cq : d.tag = "TAG_IO" /\ d.ctx = x => d = e
    BY <1>1 DEF ServerInv, AllAwaited
  <2> QED BY <1>1, <2>1, OwnRequests DEF CqHas
<1>7. CqHas(h) /\ ~SqHas(h) /\ ~KernelHas(h)
  BY <1>1 DEF CqHas, ServerInv, InOnePlace
<1>8. RequestTypes'
  <2>1. heap' \in [Ctxs -> Contexts(Results) \cup {None}]
    BY <1>1, <1>3 DEF ServerInv, RequestTypes
  <2> QED BY <1>1, <1>2, <2>1 DEF ServerInv, RequestTypes, Handlers
<1>9. Frames'
  <2>1. \A g \in Handlers : awaiting[g] \in Ctxs => /\ heap'[awaiting[g]].coro = heap[awaiting[g]].coro
                                                    /\ heap'[awaiting[g]].cancelled = heap[awaiting[g]].cancelled
                                                    /\ heap[awaiting[g]] # None => heap'[awaiting[g]] # None
    BY <1>3, <1>4
  <2>2. stage[h] # "free"
    BY <1>1 DEF Waiting
  <2> QED BY <1>1, <1>2, <1>5, <2>1, <2>2 DEF ServerInv, Frames
<1>10. AllAwaited'
  <2>1. \A y \in Ctxs : heap'[y] # None => awaiting'[heap'[y].coro] = y
    <3>1. heap[x] # None
      BY <1>1, Program
    <3> QED BY <1>1, <1>3, <3>1 DEF ServerInv, AllAwaited
  <2> QED BY <1>1, <1>5, <2>1 DEF ServerInv, AllAwaited
<1>11. InOnePlace'
  BY <1>1, <1>5, <1>6, <1>7 DEF ServerInv, InOnePlace
<1>12. AcceptFirst'
  BY <1>1, <1>2 DEF ServerInv, AcceptFirst
<1> QED BY <1>8, <1>9, <1>10, <1>11, <1>12 DEF ServerInv

(* on_accept_callback() starts a handler in a frame that was free. *)
LEMMA CallbackIs ==
  ASSUME ServerInv, NEW res \in Fds \cup {"error"}, OnAcceptCallback(res)
  PROVE  \E e \in MultiEvents :
           /\ e.res = res /\ cq' = cq \ {e}
           /\ UNCHANGED <<heap, sq, inflight, awaiting, ringVars, net>>
           /\ \/ res = "error" /\ UNCHANGED <<stage, fdOf, ready>>
              \/ /\ res \in Fds
                 /\ \E h \in Handlers :
                      /\ stage[h] = "free"
                      /\ stage' = [stage EXCEPT ![h] = "start"]
                      /\ fdOf' = [fdOf EXCEPT ![h] = res]
                      /\ ready' = ready \cup {h}
<1> DEFINE h == CHOOSE c \in Handlers : stage[c] = "free"
<1>1. PICK e \in MultiEvents :
        /\ e.res = res
        /\ cq' = cq \ {e}
        /\ \/ res = "error" /\ UNCHANGED <<http, ready>>
           \/ /\ res # "error"
              /\ \E c \in Handlers : stage[c] = "free"
              /\ stage' = [stage EXCEPT ![h] = "start"]
              /\ fdOf' = [fdOf EXCEPT ![h] = res]
              /\ ready' = ready \cup {h}
        /\ UNCHANGED <<heap, sq, inflight, awaiting, ringVars, net>>
  BY DEF OnAcceptCallback
<1>2. (\E c \in Handlers : stage[c] = "free") => h \in Handlers /\ stage[h] = "free"
  OBVIOUS
<1> HIDE DEF h
<1>3. CASE res = "error"
  BY <1>1, <1>3 DEF http
<1>4. CASE res # "error"
  BY <1>1, <1>2, <1>4
<1> QED BY <1>3, <1>4

LEMMA OnAcceptInv ==
  ASSUME ServerInv, NEW res \in Fds \cup {"error"}, OnAcceptCallback(res)
  PROVE  ServerInv'
<1> USE Addresses
<1>1. PICK e \in MultiEvents :
           /\ e.res = res /\ cq' = cq \ {e}
           /\ UNCHANGED <<heap, sq, inflight, awaiting, ringVars, net>>
           /\ \/ res = "error" /\ UNCHANGED <<stage, fdOf, ready>>
              \/ /\ res \in Fds
                 /\ \E h \in Handlers :
                      /\ stage[h] = "free"
                      /\ stage' = [stage EXCEPT ![h] = "start"]
                      /\ fdOf' = [fdOf EXCEPT ![h] = res]
                      /\ ready' = ready \cup {h}
  BY CallbackIs
<1>2. e \in cq /\ e.tag # "TAG_IO"
  BY DEF MultiEvents
<1>3. AcceptMultishot \notin sq
  BY <1>2 DEF ServerInv, AcceptFirst
<1>4. /\ \A d \in cq' : d \in cq
      /\ \A d \in cq : d.tag = "TAG_IO" => d \in cq'
  BY <1>1, <1>2
<1>5. AcceptFirst'
  BY <1>1, <1>3 DEF AcceptFirst
<1>6. CASE UNCHANGED <<stage, fdOf, ready>>
  <2>1. \A g \in Handlers : /\ Waiting(g)' <=> Waiting(g)
                            /\ Ask(g)' = Ask(g)
                            /\ SqHas(g)' <=> SqHas(g)
                            /\ KernelHas(g)' <=> KernelHas(g)
                            /\ CqHas(g)' <=> CqHas(g)
    BY <1>1, <1>4, <1>6 DEF Waiting, Ask, SqHas, KernelHas, CqHas
  <2>2. RequestTypes'
    BY <1>1, <1>6 DEF ServerInv, RequestTypes
  <2>3. Frames'
    BY <1>1, <1>6, <2>1 DEF ServerInv, Frames
  <2>4. AllAwaited'
    BY <1>1, <1>4, <2>1 DEF ServerInv, AllAwaited
  <2>5. InOnePlace'
    BY <1>6, <2>1 DEF ServerInv, InOnePlace
  <2> QED BY <1>5, <2>2, <2>3, <2>4, <2>5 DEF ServerInv
<1>7. ASSUME res \in Fds,
             NEW h \in Handlers, stage[h] = "free",
             stage' = [stage EXCEPT ![h] = "start"],
             fdOf' = [fdOf EXCEPT ![h] = res],
             ready' = ready \cup {h}
      PROVE  ServerInv'
  <2>1. /\ stage'[h] = "start" /\ fdOf'[h] = res
        /\ \A g \in Handlers : g # h => stage'[g] = stage[g] /\ fdOf'[g] = fdOf[g]
    BY <1>7 DEF ServerInv, RequestTypes
  <2>2. awaiting[h] = None
    BY <1>7 DEF ServerInv, Frames
  <2>3. ~Waiting(h) /\ ~Waiting(h)'
    BY <1>7, <2>1 DEF Waiting
  <2>4. \A g \in Handlers : Waiting(g)' <=> Waiting(g)
    BY <2>1, <2>3 DEF Waiting
  <2>5. \A g \in Handlers : Waiting(g) => /\ Ask(g)' = Ask(g)
                                          /\ SqHas(g)' <=> SqHas(g)
                                          /\ KernelHas(g)' <=> KernelHas(g)
                                          /\ CqHas(g)' <=> CqHas(g)
    BY <1>1, <1>4, <2>1, <2>3 DEF Ask, SqHas, KernelHas, CqHas
  <2>6. RequestTypes'
    BY <1>1, <1>7 DEF ServerInv, RequestTypes, Handlers
  <2>7. Frames'
    BY <1>1, <1>7, <2>1, <2>2, <2>3, <2>4 DEF ServerInv, Frames
  <2>8. AllAwaited'
    BY <1>1, <1>4, <2>4, <2>5 DEF ServerInv, AllAwaited
  <2>9. InOnePlace'
    BY <1>7, <2>3, <2>4, <2>5 DEF ServerInv, InOnePlace
  <2> QED BY <1>5, <2>6, <2>7, <2>8, <2>9 DEF ServerInv
<1> QED BY <1>1, <1>6, <1>7
-----------------------------------------------------------------------------
(* A handler goes on from one await to the next, and deletes its context:  *)
(* the new one may have the same address, but that of nobody else.         *)
GoesOn(h, op, x) ==
  /\ h \in ready /\ ready' = ready \ {h}
  /\ awaiting' = [awaiting EXCEPT ![h] = x]
  /\ stage' = [stage EXCEPT ![h] = op]
  /\ sq' = sq \cup {[op |-> op, fd |-> fdOf[h], ctx |-> x]}
  /\ UNCHANGED <<inflight, cq, fdOf, net>>
  /\ heap' \in [Ctxs -> Contexts(Results) \cup {None}]
  /\ heap'[x] = NewContext(h)
  /\ \A y \in Ctxs : y # x => heap'[y] = IF y = awaiting[h] THEN None ELSE heap[y]
  /\ \A g \in Handlers : awaiting[g] = x => g = h

LEMMA AwaitsIs ==
  ASSUME ServerInv, NEW h \in Handlers, NEW op, NEW hp, NEW at,
         Resumed(h, at), Awaits(h, op, hp),
         \/ at = "start" /\ hp = heap
         \/ at \in {"recv", "send"} /\ hp = AfterDelete(h)
  PROVE  \E x \in Ctxs : GoesOn(h, op, x)
<1> USE Addresses
<1>1. PICK x \in Ctxs :
        /\ hp[x] = None
        /\ heap' = [hp EXCEPT ![x] = NewContext(h)]
        /\ sq' = sq \cup {[op |-> op, fd |-> fdOf[h], ctx |-> x]}
        /\ awaiting' = [awaiting EXCEPT ![h] = x]
  BY DEF Awaits, Request
<1>2. /\ h \in ready /\ ready' = ready \ {h} /\ stage[h] = at
      /\ stage' = [stage EXCEPT ![h] = op]
      /\ UNCHANGED <<inflight, cq, fdOf, net>>
  BY DEF Awaits, Resumed
<1>3. heap \in [Ctxs -> Contexts(Results) \cup {None}] /\ awaiting[h] \in Ctxs \cup {None}
  BY DEF ServerInv, RequestTypes, Handlers
<1>4. /\ hp \in [Ctxs -> Contexts(Results) \cup {None}]
      /\ \A y \in Ctxs : hp[y] = IF y = awaiting[h] THEN None ELSE heap[y]
  <2>1. CASE at = "start"
    BY <1>2, <1>3, <2>1 DEF ServerInv, Frames
  <2>2. CASE at # "start"
    <3>1. awaiting[h] \in Ctxs
      BY <1>2, <2>2 DEF ServerInv, Frames, Waiting
    <3>2. hp = [heap EXCEPT ![awaiting[h]] = None]
      BY <2>2 DEF AfterDelete
    <3> QED BY <1>3, <3>1, <3>2
  <2> QED BY <2>1, <2>2
<1>5. NewContext(h) \in Contexts(Results)
  BY DEF NewContext, Contexts, Handlers
<1> HIDE DEF NewContext
<1>6. /\ heap' \in [Ctxs -> Contexts(Results) \cup {None}]
      /\ heap'[x] = NewContext(h)
      /\ \A y \in Ctxs : y # x => heap'[y] = hp[y]
  BY <1>1, <1>4, <1>5
<1>7. \A g \in Handlers : awaiting[g] = x => g = h
  <2> SUFFICES ASSUME NEW g \in Handlers, awaiting[g] = x, g # h PROVE FALSE
    OBVIOUS
  <2>1. Waiting(g)
    BY OwnRequests
  <2>2. heap[x] # None
    BY <2>1 DEF ServerInv, Frames
  <2>3. awaiting[h] # x
    BY <2>1, OwnRequests
  <2> QED BY <1>1, <1>4, <2>2, <2>3
<1> QED BY <1>1, <1>2, <1>4, <1>6, <1>7 DEF GoesOn

LEMMA GoesOnInv ==
  ASSUME ServerInv, NEW h \in Handlers, NEW op \in {"recv", "send", "close"},
         NEW x \in Ctxs, stage[h] \in {"start", "recv", "send"}, GoesOn(h, op, x)
  PROVE  /\ ServerInv'
         /\ Waiting(h)' /\ SqHas(h)' /\ ~KernelHas(h)' /\ ~CqHas(h)' /\ h \notin ready'
         /\ \A g \in Handlers : g # h =>
              /\ stage'[g] = stage[g] /\ awaiting'[g] = awaiting[g]
              /\ Waiting(g)' <=> Waiting(g)
              /\ Waiting(g) => /\ heap'[awaiting[g]] = heap[awaiting[g]]
                               /\ SqHas(g)' <=> SqHas(g)
                               /\ KernelHas(g)' <=> KernelHas(g)
<1> USE Addresses
<1> DEFINE q == [op |-> op, fd |-> fdOf[h], ctx |-> x]
<1>1. /\ h \in ready /\ ready' = ready \ {h}
      /\ awaiting' = [awaiting EXCEPT ![h] = x]
      /\ stage' = [stage EXCEPT ![h] = op]
      /\ sq' = sq \cup {q}
      /\ UNCHANGED <<inflight, cq, fdOf, net>>
      /\ heap' \in [Ctxs -> Contexts(Results) \cup {None}]
      /\ heap'[x] = NewContext(h)
      /\ \A y \in Ctxs : y # x => heap'[y] = IF y = awaiting[h] THEN None ELSE heap[y]
      /\ \A g \in Handlers : awaiting[g] = x => g = h
  BY DEF GoesOn
<1>2. q.ctx = x /\ q.op = op /\ q.fd = fdOf[h]
  OBVIOUS
<1>3. fdOf[h] \in Fds
  BY DEF ServerInv, Frames, Waiting
<1>4. q \in Requests
  BY <1>3 DEF Requests
<1>5. /\ stage'[h] = op /\ awaiting'[h] = x
      /\ \A g \in Handlers : g # h => stage'[g] = stage[g] /\ awaiting'[g] = awaiting[g]
  BY <1>1 DEF ServerInv, RequestTypes, Handlers
<1>6. Waiting(h)' /\ Ask(h)' = q
  BY <1>1, <1>5 DEF Waiting, Ask
<1> HIDE DEF q
<1>7. \A g \in Handlers : g # h => (Waiting(g)' <=> Waiting(g)) /\ Ask(g)' = Ask(g)
  BY <1>1, <1>5 DEF Waiting, Ask
<1>8. q \notin inflight /\ (\A e \in cq : e.tag = "TAG_IO" => e.ctx # x)
  <2>1. ASSUME NEW g \in Handlers, Waiting(g), awaiting[g] = x,
               KernelHas(g) \/ CqHas(g)
        PROVE  FALSE
    <3>1. g = h /\ h \in ready
      BY <1>1, <2>1
    <3> QED BY <2>1, <3>1 DEF ServerInv, InOnePlace
  <2>2. ASSUME q \in inflight PROVE FALSE
    <3>1. PICK g \in Handlers : Waiting(g) /\ q = Ask(g)
      BY <1>2, <2>2, RequestShapes
    <3>2. awaiting[g] = x /\ KernelHas(g)
      BY <1>2, <2>2, <3>1 DEF Ask, KernelHas
    <3> QED BY <2>1, <3>1, <3>2
  <2>3. ASSUME NEW e \in cq, e.tag = "TAG_IO", e.ctx = x PROVE FALSE
    <3>1. PICK g \in Handlers : Waiting(g) /\ e.ctx = awaiting[g]
      BY <2>3 DEF ServerInv, AllAwaited
    <3> QED BY <2>1, <2>3, <3>1 DEF CqHas
  <2> QED BY <2>2, <2>3
<1>9. SqHas(h)' /\ ~KernelHas(h)' /\ ~CqHas(h)' /\ h \notin ready'
  BY <1>1, <1>5, <1>6, <1>8 DEF SqHas, KernelHas, CqHas
<1>10. ASSUME NEW g \in Handlers, g # h, Waiting(g)
       PROVE  /\ awaiting[g] \in Ctxs /\ awaiting[g] # x /\ awaiting[g] # awaiting[h]
              /\ heap'[awaiting[g]] = heap[awaiting[g]]
              /\ SqHas(g)' <=> SqHas(g)
              /\ KernelHas(g)' <=> KernelHas(g)
              /\ CqHas(g)' <=> CqHas(g)
  <2>1. awaiting[g] \in Ctxs /\ awaiting[g] # x /\ awaiting[g] # awaiting[h]
    BY <1>1, <1>10, OwnRequests DEF ServerInv, Frames
  <2>2. Ask(g) # q
    BY <1>2, <2>1 DEF Ask
  <2>3. Ask(g)' = Ask(g)
    BY <1>7, <1>10
  <2>4. CqHas(g)' <=> CqHas(g)
    BY <1>1, <1>5, <1>10 DEF CqHas
  <2> QED BY <1>1, <2>1, <2>2, <2>3, <2>4 DEF SqHas, KernelHas
<1>11. RequestTypes'
  <2>1. awaiting' \in [Coros -> Ctxs \cup {None}] /\ ready' \subseteq Coros
    BY <1>1 DEF ServerInv, RequestTypes
  <2>2. stage' \in [Handlers -> {"free", "start", "recv", "send", "close"}]
    BY <1>1 DEF ServerInv, RequestTypes
  <2>3. sq' \subseteq Requests
    BY <1>1, <1>4 DEF ServerInv, RequestTypes
  <2> QED BY <1>1, <2>1, <2>2, <2>3 DEF ServerInv, RequestTypes
<1>12. /\ NewContext(h) # None /\ NewContext(h).coro = h /\ NewContext(h).cancelled = FALSE
  <2>1. NewContext(h) \in Contexts(Results)
    BY DEF NewContext, Contexts, Handlers
  <2>2. NewContext(h).coro = h /\ NewContext(h).cancelled = FALSE
    BY DEF NewContext
  <2> QED BY <2>1, <2>2, Program
<1>13. Frames'
  <2> SUFFICES ASSUME NEW g \in Handlers
               PROVE  (/\ stage[g] = "free" => fdOf[g] = None /\ awaiting[g] = None /\ g \notin ready
                       /\ stage[g] = "start" => fdOf[g] \in Fds /\ awaiting[g] = None /\ g \in ready
                       /\ Waiting(g) => /\ fdOf[g] \in Fds /\ awaiting[g] \in Ctxs
                                        /\ heap[awaiting[g]] # None
                                        /\ heap[awaiting[g]].coro = g
                                        /\ heap[awaiting[g]].cancelled = FALSE)'
    BY DEF Frames
  <2>1. CASE g = h
    BY <1>1, <1>3, <1>5, <1>12, <2>1
  <2>2. CASE g # h
    BY <1>1, <1>5, <1>7, <1>10, <2>2 DEF ServerInv, Frames
  <2> QED BY <2>1, <2>2
<1>14. AllAwaited'
  <2>1. ASSUME NEW y \in Ctxs, heap'[y] # None PROVE awaiting'[heap'[y].coro] = y
    <3>1. CASE y = x
      BY <1>1, <1>5, <1>12, <3>1
    <3>2. CASE y # x
      <4>1. heap'[y] = heap[y] /\ y # awaiting[h]
        BY <1>1, <2>1, <3>2
      <4>2. awaiting[heap[y].coro] = y /\ heap[y].coro \in Handlers
        BY <2>1, <4>1 DEF ServerInv, AllAwaited, RequestTypes, Contexts, Handlers
      <4> QED BY <1>5, <4>1, <4>2
    <3> QED BY <3>1, <3>2
  <2>2. ASSUME NEW r \in sq' \cup inflight', r # AcceptMultishot
        PROVE  \E g \in Handlers : Waiting(g)' /\ r = Ask(g)'
    <3>1. CASE r = q
      BY <1>6, <3>1
    <3>2. CASE r # q
      <4>1. PICK g \in Handlers : Waiting(g) /\ r = Ask(g)
        BY <1>1, <2>2, <3>2 DEF ServerInv, AllAwaited
      <4>2. g # h
        BY <1>1, <2>2, <3>2, <4>1 DEF ServerInv, InOnePlace, SqHas, KernelHas
      <4> QED BY <1>7, <4>1, <4>2
    <3> QED BY <3>1, <3>2
  <2>3. ASSUME NEW e \in cq', e.tag = "TAG_IO"
        PROVE  \E g \in Handlers : Waiting(g)' /\ e.ctx = awaiting'[g]
    <3>1. PICK g \in Handlers : Waiting(g) /\ e.ctx = awaiting[g]
      BY <1>1, <2>3 DEF ServerInv, AllAwaited
    <3>2. g # h
      BY <1>1, <2>3, <3>1 DEF ServerInv, InOnePlace, CqHas
    <3> QED BY <1>5, <1>7, <3>1, <3>2
  <2>4. \A d, e \in cq' : d.tag = "TAG_IO" /\ e.tag = "TAG_IO" /\ d.ctx = e.ctx => d = e
    BY <1>1 DEF ServerInv, AllAwaited
  <2> QED BY <2>1, <2>2, <2>3, <2>4 DEF AllAwaited
<1>15. InOnePlace'
  <2> SUFFICES ASSUME NEW g \in Handlers, Waiting(g)'
               PROVE  (/\ SqHas(g) \/ KernelHas(g) \/ CqHas(g) \/ g \in ready
                       /\ SqHas(g) => ~KernelHas(g) /\ ~CqHas(g) /\ g \notin ready
                       /\ KernelHas(g) => ~CqHas(g) /\ g \notin ready
                       /\ CqHas(g) => g \notin ready)'
    BY DEF InOnePlace
  <2>1. CASE g = h
    BY <1>9, <2>1
  <2>2. CASE g # h
    BY <1>1, <1>7, <1>10, <2>2 DEF ServerInv, InOnePlace
  <2> QED BY <2>1, <2>2
<1>16. AcceptFirst'
  <2>1. AcceptMultishot \notin sq
    BY DEF ServerInv, AcceptFirst
  <2>2. q # AcceptMultishot
    BY <1>2 DEF AcceptMultishot
  <2> QED BY <1>1, <2>1, <2>2 DEF AcceptFirst
<1>17. ServerInv'
  BY <1>11, <1>13, <1>14, <1>15, <1>16 DEF ServerInv
<1> QED BY <1>5, <1>6, <1>7, <1>9, <1>10, <1>17

(* The coroutine ends, with nothing left behind. *)
LEMMA AfterCloseInv ==
  ASSUME ServerInv, NEW h \in Handlers, AfterClose(h)
  PROVE  /\ ServerInv'
         /\ \A g \in Handlers : g # h => 
              /\ stage'[g] = stage[g] /\ awaiting'[g] = awaiting[g] /\ fdOf'[g] = fdOf[g]
              /\ Waiting(g) => heap'[awaiting[g]] = heap[awaiting[g]]
<1> USE Addresses
<1> DEFINE x == awaiting[h]
<1>1. /\ h \in ready /\ stage[h] = "close" /\ ready' = ready \ {h}
      /\ heap' = [heap EXCEPT ![x] = None]
      /\ awaiting' = [awaiting EXCEPT ![h] = None]
      /\ stage' = [stage EXCEPT ![h] = "free"]
      /\ fdOf' = [fdOf EXCEPT ![h] = None]
      /\ UNCHANGED <<sq, inflight, cq, ringVars, net>>
  BY DEF AfterClose, Resumed, AfterDelete
<1>2. Waiting(h) /\ x \in Ctxs /\ ~SqHas(h) /\ ~KernelHas(h) /\ ~CqHas(h)
  BY <1>1 DEF ServerInv, Frames, InOnePlace, Waiting
<1> HIDE DEF x
<1>3. /\ stage'[h] = "free" /\ awaiting'[h] = None /\ fdOf'[h] = None
      /\ \A g \in Handlers : g # h => /\ stage'[g] = stage[g]
                                      /\ awaiting'[g] = awaiting[g]
                                      /\ fdOf'[g] = fdOf[g]
      /\ heap'[x] = None /\ \A y \in Ctxs : y # x => heap'[y] = heap[y]
  BY <1>1, <1>2 DEF ServerInv, RequestTypes, Handlers
<1>4. ~Waiting(h)'
  BY <1>3 DEF Waiting
<1>5. ASSUME NEW g \in Handlers, g # h
      PROVE  /\ Waiting(g)' <=> Waiting(g)
             /\ Ask(g)' = Ask(g)
             /\ SqHas(g)' <=> SqHas(g)
             /\ KernelHas(g)' <=> KernelHas(g)
             /\ CqHas(g)' <=> CqHas(g)
  BY <1>1, <1>3, <1>5 DEF Waiting, Ask, SqHas, KernelHas, CqHas
<1>6. ASSUME NEW g \in Handlers, g # h, Waiting(g)
      PROVE  awaiting[g] # x /\ heap'[awaiting[g]] = heap[awaiting[g]]
  BY <1>2, <1>3, <1>6, OwnRequests DEF x, ServerInv, Frames
<1>7. RequestTypes'
  BY <1>1, <1>2 DEF ServerInv, RequestTypes, Handlers
<1>8. Frames'
  BY <1>1, <1>3, <1>4, <1>5, <1>6 DEF ServerInv, Frames
<1>9. AllAwaited'
  <2>1. ASSUME NEW y \in Ctxs, heap'[y] # None PROVE awaiting'[heap'[y].coro] = y
    <3>1. y # x /\ heap'[y] = heap[y]
      BY <1>3, <2>1
    <3>2. awaiting[heap[y].coro] = y /\ heap[y].coro \in Handlers
      BY <2>1, <3>1 DEF ServerInv, AllAwaited, RequestTypes, Contexts, Handlers
    <3> QED BY <1>3, <3>1, <3>2 DEF x
  <2>2. ASSUME NEW r \in sq \cup inflight, r # AcceptMultishot
        PROVE  \E g \in Handlers : Waiting(g)' /\ r = Ask(g)'
    <3>1. PICK g \in Handlers : Waiting(g) /\ r = Ask(g)
      BY <2>2 DEF ServerInv, AllAwaited
    <3>2. g # h
      BY <1>2, <2>2, <3>1 DEF SqHas, KernelHas
    <3> QED BY <1>5, <3>1, <3>2
  <2>3. ASSUME NEW e \in cq, e.tag = "TAG_IO"
        PROVE  \E g \in Handlers : Waiting(g)' /\ e.ctx = awaiting'[g]
    <3>1. PICK g \in Handlers : Waiting(g) /\ e.ctx = awaiting[g]
      BY <2>3 DEF ServerInv, AllAwaited
    <3>2. g # h
      BY <1>2, <2>3, <3>1 DEF CqHas
    <3> QED BY <1>3, <1>5, <3>1, <3>2
  <2>4. \A d, e \in cq : d.tag = "TAG_IO" /\ e.tag = "TAG_IO" /\ d.ctx = e.ctx => d = e
    BY DEF ServerInv, AllAwaited
  <2> QED BY <1>1, <2>1, <2>2, <2>3, <2>4 DEF AllAwaited
<1>10. InOnePlace'
  BY <1>1, <1>4, <1>5 DEF ServerInv, InOnePlace
<1>11. AcceptFirst'
  BY <1>1 DEF ServerInv, AcceptFirst
<1> QED BY <1>3, <1>6, <1>7, <1>8, <1>9, <1>10, <1>11 DEF ServerInv

(* What the kernel completes is the request of a handler that waits. *)
LEMMA KernelIs ==
  ASSUME ServerInv, NEW x \in Ctxs, Kernel(x)
  PROVE  \E h \in Handlers :
           /\ Waiting(h) /\ heap[Ask(h).ctx].coro = h /\ KernelHas(h)
           /\ Ask(h).op = stage[h] /\ Ask(h).fd = fdOf[h]
           /\ KernelRecvs(Ask(h)) \/ KernelSends(Ask(h)) \/ KernelCloses(Ask(h))
<1>1. PICK q \in inflight : q.ctx = x /\ (KernelRecvs(q) \/ KernelSends(q) \/ KernelCloses(q))
  BY DEF Kernel
<1>2. PICK h \in Handlers : Waiting(h) /\ q = Ask(h)
  BY <1>1, RequestShapes
<1>3. Ask(h).ctx = awaiting[h] /\ Ask(h).op = stage[h] /\ Ask(h).fd = fdOf[h]
  BY DEF Ask
<1>4. heap[Ask(h).ctx].coro = h
  BY <1>2, <1>3 DEF ServerInv, Frames
<1> QED BY <1>1, <1>2, <1>3, <1>4 DEF KernelHas

LEMMA KernelInv ==
  ASSUME ServerInv, NEW x \in Ctxs, Kernel(x) PROVE ServerInv'
<1>1. PICK h \in Handlers :
           /\ Waiting(h)
           /\ KernelRecvs(Ask(h)) \/ KernelSends(Ask(h)) \/ KernelCloses(Ask(h))
  BY KernelIs
<1>2. \E res \in Results : Complete(Ask(h), res) /\ UNCHANGED http
  BY <1>1 DEF KernelRecvs, KernelSends, KernelCloses, Results
<1> QED BY <1>1, <1>2, CompleteInv

(* The steps of a handler that go on to another await. *)
LEMMA HandlerGoesOn ==
  ASSUME ServerInv, NEW h \in Handlers, Start(h) \/ AfterRecv(h) \/ AfterSend(h)
  PROVE  \E x \in Ctxs, op \in {"recv", "send", "close"} :
           /\ GoesOn(h, op, x)
           /\ stage[h] \in {"start", "recv", "send"}
           /\ op = "send" => stage[h] = "recv" /\ heap[awaiting[h]].res = "data"
           /\ \/ stage[h] # "recv" /\ UNCHANGED ringVars
              \/ GiveBack(h)
<1>1. CASE Start(h)
  <2>1. Resumed(h, "start") /\ Awaits(h, "recv", heap) /\ UNCHANGED ringVars
    BY <1>1 DEF Start
  <2>2. stage[h] = "start"
    BY <2>1 DEF Resumed
  <2>3. \E x \in Ctxs : GoesOn(h, "recv", x)
    BY <2>1, AwaitsIs
  <2> QED BY <2>1, <2>2, <2>3
<1>2. CASE AfterRecv(h)
  <2> DEFINE op == IF Result(h) = "data" THEN "send" ELSE "close"
  <2>1. Resumed(h, "recv") /\ GiveBack(h) /\ Awaits(h, op, AfterDelete(h))
    BY <1>2 DEF AfterRecv
  <2>2. stage[h] = "recv"
    BY <2>1 DEF Resumed
  <2>3. op \in {"recv", "send", "close"} /\ (op = "send" => heap[awaiting[h]].res = "data")
    BY DEF Result
  <2> HIDE DEF op
  <2>4. \E x \in Ctxs : GoesOn(h, op, x)
    BY <2>1, AwaitsIs
  <2> QED BY <2>1, <2>2, <2>3, <2>4
<1>3. CASE AfterSend(h)
  <2> DEFINE op == IF Result(h) = "error" THEN "close" ELSE "recv"
  <2>1. Resumed(h, "send") /\ Awaits(h, op, AfterDelete(h)) /\ UNCHANGED ringVars
    BY <1>3 DEF AfterSend
  <2>2. stage[h] = "send"
    BY <2>1 DEF Resumed
  <2>3. op \in {"recv", "send", "close"} /\ op # "send"
    OBVIOUS
  <2> HIDE DEF op
  <2>4. \E x \in Ctxs : GoesOn(h, op, x)
    BY <2>1, AwaitsIs
  <2> QED BY <2>1, <2>2, <2>3, <2>4
<1> QED BY <1>1, <1>2, <1>3

LEMMA ServerStep == ServerInv /\ [Next]_vars => ServerInv'
<1> SUFFICES ASSUME ServerInv, [Next]_vars PROVE ServerInv'
  OBVIOUS
<1>1. CASE UNCHANGED vars
  BY <1>1, ServerStutter DEF vars
<1>2. ASSUME NEW k \in Clients, ClientSends(k) \/ ClientLeaves(k) PROVE ServerInv'
  BY <1>2, ServerStutter DEF ClientSends, ClientLeaves
<1>3. ASSUME NEW k \in Clients, KernelAccepts(k) PROVE ServerInv'
  <2>1. /\ AcceptMultishot \in inflight /\ \E fd \in Fds : file[fd] = None
        /\ PostMulti(FreeFd) /\ UNCHANGED <<heap, sq, inflight, awaiting, ready, http>>
    BY <1>3 DEF KernelAccepts
  <2>2. FreeFd \in Fds
    BY <2>1 DEF FreeFd
  <2> QED BY <2>1, <2>2, AcceptInv
<1>4. CASE KernelAcceptFails
  BY <1>4, AcceptInv DEF KernelAcceptFails
<1>5. ASSUME NEW x \in Ctxs, Kernel(x) \/ SchedulerPolls(x) PROVE ServerInv'
  BY <1>5, KernelInv, PollInv DEF SchedulerPolls
<1>6. CASE SchedulerSubmits
  BY <1>6, SubmitInv DEF SchedulerSubmits
<1>7. ASSUME NEW res \in Fds \cup {"error"}, OnAcceptCallback(res) PROVE ServerInv'
  BY <1>7, OnAcceptInv
<1>8. ASSUME NEW h \in Handlers, HandleClient(h) PROVE ServerInv'
  <2>1. CASE AfterClose(h)
    BY <2>1, AfterCloseInv
  <2>2. CASE Start(h) \/ AfterRecv(h) \/ AfterSend(h)
    <3>1. PICK x \in Ctxs, op \in {"recv", "send", "close"} :
             GoesOn(h, op, x) /\ stage[h] \in {"start", "recv", "send"}
      BY <2>2, HandlerGoesOn
    <3> QED BY <3>1, GoesOnInv
  <2> QED BY <1>8, <2>1, <2>2 DEF HandleClient
<1> QED BY <1>1, <1>2, <1>3, <1>4, <1>5, <1>6, <1>7, <1>8 DEF Next

LEMMA ServerInvariant == Spec => []ServerInv
BY ServerInit, ServerStep, PTL DEF Spec
-----------------------------------------------------------------------------
(* The server does with the buffer ring only what BufferRing allows.       *)
LEMMA RingOfServer == ServerInv /\ [Next]_vars => [RingNext]_ringVars
<1> SUFFICES ASSUME ServerInv, [Next]_vars PROVE [RingNext]_ringVars
  OBVIOUS
<1> USE Program
<1>1. CASE UNCHANGED vars
  BY <1>1 DEF vars
<1>2. ASSUME NEW k \in Clients, ClientSends(k) \/ ClientLeaves(k) \/ KernelAccepts(k)
      PROVE UNCHANGED ringVars
  BY <1>2 DEF ClientSends, ClientLeaves, KernelAccepts
<1>3. CASE KernelAcceptFails \/ SchedulerSubmits
  BY <1>3 DEF KernelAcceptFails, SchedulerSubmits
<1>4. ASSUME NEW x \in Ctxs, SchedulerPolls(x) PROVE UNCHANGED ringVars
  BY <1>4 DEF SchedulerPolls
<1>5. ASSUME NEW x \in Ctxs, Kernel(x) PROVE [RingNext]_ringVars
  <2>1. PICK h \in Handlers :
           /\ heap[Ask(h).ctx].coro = h
           /\ KernelRecvs(Ask(h)) \/ KernelSends(Ask(h)) \/ KernelCloses(Ask(h))
    BY <1>5, KernelIs
  <2>2. Receive(h) \/ ReceiveFails(h) \/ UNCHANGED ringVars
    BY <2>1 DEF KernelRecvs, KernelSends, KernelCloses
  <2> QED BY <2>2 DEF RingNext
<1>6. ASSUME NEW res \in Fds \cup {"error"}, OnAcceptCallback(res) PROVE UNCHANGED ringVars
  BY <1>6 DEF OnAcceptCallback
<1>7. ASSUME NEW h \in Handlers, HandleClient(h) PROVE [RingNext]_ringVars
  <2>1. GiveBack(h) \/ UNCHANGED ringVars
    BY <1>7 DEF HandleClient, Start, AfterRecv, AfterSend, AfterClose
  <2>2. ReturnBuffer(h) \/ SeesError(h) \/ UNCHANGED ringVars
    BY <2>1 DEF GiveBack
  <2> QED BY <2>2 DEF RingNext
<1> QED BY <1>1, <1>2, <1>3, <1>4, <1>5, <1>6, <1>7 DEF Next

LEMMA RingInServer == Spec => []RingInv
<1>1. Init => RingInit
  BY DEF Init
<1>2. ServerInv /\ RingInv /\ [Next]_vars => RingInv'
  BY RingOfServer, RingStep
<1> QED BY <1>1, <1>2, RingInitInv, ServerInvariant, PTL DEF Spec
-----------------------------------------------------------------------------
(***************************************************************************)
(* The server: descriptors, clients and buffers                            *)
(***************************************************************************)

NetTypes ==
  /\ file \in [Fds -> Clients \cup {None}]
  /\ sock \in [Clients -> {"none", "request", "served", "idle", "gone"}]

(* A handler whose descriptor is still open. *)
Open(h) == stage[h] # "free" /\ (stage[h] = "close" => SqHas(h) \/ KernelHas(h))

(* The completions of the accept that bring a descriptor. *)
NewFds == {e \in MultiEvents : e.res # "error"}

(* An open descriptor has one owner, a handler or a completion, and the    *)
(* descriptor of an owner is open; no client is behind two of them.        *)
DescriptorsOpen ==
  /\ \A h \in Handlers : Open(h) => file[fdOf[h]] # None
  /\ \A g, h \in Handlers : Open(g) /\ Open(h) /\ fdOf[g] = fdOf[h] => g = h
  /\ \A e \in NewFds : /\ file[e.res] # None
                       /\ \A h \in Handlers : Open(h) => fdOf[h] # e.res
  /\ \A fd \in Fds : file[fd] # None => \/ \E h \in Handlers : Open(h) /\ fdOf[h] = fd
                                        \/ \E e \in NewFds : e.res = fd
  /\ \A f, g \in Fds : file[f] = file[g] /\ file[f] # None => f = g

(* A handler has read a request that it has not answered. *)
HasRead(h) ==
  \/ /\ stage[h] = "recv"
     /\ \/ \E e \in cq : e.tag = "TAG_IO" /\ e.ctx = awaiting[h] /\ e.res = "data"
        \/ h \in ready /\ heap[awaiting[h]].res = "data"
  \/ stage[h] = "send" /\ (SqHas(h) \/ KernelHas(h))

ClientWaits == \A h \in Handlers : HasRead(h) => sock[file[fdOf[h]]] \in {"served", "gone"}

NetInv == NetTypes /\ DescriptorsOpen /\ ClientWaits
-----------------------------------------------------------------------------
LEMMA OpenHandler ==
  ASSUME ServerInv, NetInv, NEW h \in Handlers, Open(h)
  PROVE  /\ fdOf[h] \in Fds /\ file[fdOf[h]] \in Clients
<1>1. stage[h] \in {"start", "recv", "send", "close"}
  BY DEF Open, ServerInv, RequestTypes
<1>2. fdOf[h] \in Fds
  BY <1>1 DEF ServerInv, Frames, Waiting
<1> QED BY <1>2 DEF NetInv, NetTypes, DescriptorsOpen

LEMMA ReaderOpen ==
  ASSUME NEW h \in Handlers, HasRead(h) PROVE Waiting(h) /\ Open(h)
BY DEF HasRead, Waiting, Open

(* Two handlers with open descriptors serve different clients. *)
LEMMA OwnClients ==
  ASSUME ServerInv, NetInv, NEW g \in Handlers, NEW h \in Handlers, Open(g), Open(h), g # h
  PROVE  fdOf[g] # fdOf[h] /\ file[fdOf[g]] # file[fdOf[h]]
<1>1. fdOf[g] \in Fds /\ fdOf[h] \in Fds /\ file[fdOf[g]] # None
  BY OpenHandler DEF NetInv, DescriptorsOpen
<1>2. fdOf[g] # fdOf[h]
  BY DEF NetInv, DescriptorsOpen
<1> QED BY <1>1, <1>2 DEF NetInv, DescriptorsOpen

(* Steps that neither open nor close a descriptor, and read nothing. *)
LEMMA NetKept ==
  ASSUME NetInv, UNCHANGED net, NewFds' = NewFds,
         \A h \in Handlers : /\ Open(h)' <=> Open(h)
                             /\ Open(h) => fdOf'[h] = fdOf[h]
                             /\ HasRead(h)' => HasRead(h)
  PROVE  NetInv'
<1>1. UNCHANGED <<file, sock>>
  BY DEF net
<1>2. NetTypes'
  BY <1>1 DEF NetInv, NetTypes
<1>3. DescriptorsOpen'
  BY <1>1 DEF NetInv, DescriptorsOpen
<1>4. ClientWaits'
  BY <1>1, ReaderOpen DEF NetInv, ClientWaits
<1> QED BY <1>2, <1>3, <1>4 DEF NetInv

LEMMA NetInit == Init => NetInv
<1> SUFFICES ASSUME Init PROVE NetInv
  OBVIOUS
<1>1. NetTypes
  BY DEF Init, NetTypes
<1>2. NewFds = {} /\ \A h \in Handlers : ~Open(h) /\ ~HasRead(h)
  BY DEF Init, NewFds, MultiEvents, Open, HasRead
<1>3. \A fd \in Fds : file[fd] = None
  BY DEF Init
<1> QED BY <1>1, <1>2, <1>3 DEF NetInv, DescriptorsOpen, ClientWaits

LEMMA ClientNet ==
  ASSUME ServerInv, NetInv, NEW k \in Clients, ClientSends(k) \/ ClientLeaves(k)
  PROVE  NetInv'
<1>1. UNCHANGED <<heap, sq, inflight, cq, awaiting, ready, stage, fdOf, file>>
  BY DEF ClientSends, ClientLeaves, ioVars, http
<1>2. \A h \in Handlers : (Open(h)' <=> Open(h)) /\ (HasRead(h)' <=> HasRead(h))
  BY <1>1 DEF Open, HasRead, SqHas, KernelHas, Ask
<1>3. NewFds' = NewFds
  BY <1>1 DEF NewFds, MultiEvents
<1>4. DescriptorsOpen'
  BY <1>1, <1>2, <1>3 DEF NetInv, DescriptorsOpen
<1>5. NetTypes'
  BY <1>1 DEF NetInv, NetTypes, ClientSends, ClientLeaves
<1>6. ASSUME NEW h \in Handlers, HasRead(h) PROVE sock'[file[fdOf[h]]] \in {"served", "gone"}
  <2>1. fdOf[h] \in Fds /\ file[fdOf[h]] \in Clients
    BY <1>6, ReaderOpen, OpenHandler
  <2>2. sock[file[fdOf[h]]] \in {"served", "gone"}
    BY <1>6 DEF NetInv, ClientWaits
  <2>3. file[fdOf[h]] = k => Accepted(k)
    BY <2>1 DEF Accepted
  <2> QED BY <2>1, <2>2, <2>3 DEF NetInv, NetTypes, ClientSends, ClientLeaves
<1> QED BY <1>1, <1>2, <1>4, <1>5, <1>6 DEF NetInv, ClientWaits

LEMMA AcceptNet ==
  ASSUME ServerInv, NetInv, NEW k \in Clients, KernelAccepts(k) PROVE NetInv'
<1> DEFINE m == [tag |-> "TAG_MULTI", ctx |-> None, res |-> FreeFd]
<1>1. /\ k \in Clients /\ ~Accepted(k)
      /\ \E fd \in Fds : file[fd] = None
      /\ file' = [file EXCEPT ![FreeFd] = k]
      /\ cq' = cq \cup {m}
      /\ UNCHANGED <<heap, sq, inflight, awaiting, ready, stage, fdOf, sock>>
  BY DEF KernelAccepts, PostMulti, Backlog, http
<1>2. FreeFd \in Fds /\ file[FreeFd] = None
  BY <1>1 DEF FreeFd
<1>3. /\ file'[FreeFd] = k /\ k # None
      /\ \A fd \in Fds : fd # FreeFd => file'[fd] = file[fd]
  BY <1>1, <1>2, Program DEF NetInv, NetTypes
<1>4. \A h \in Handlers : (Open(h)' <=> Open(h)) /\ (HasRead(h)' <=> HasRead(h))
  BY <1>1 DEF Open, HasRead, SqHas, KernelHas, Ask
<1>5. NewFds' = NewFds \cup {m} /\ m.res = FreeFd
  BY <1>1, <1>2, Program DEF NewFds, MultiEvents
<1> HIDE DEF m
<1>6. \A h \in Handlers : Open(h) => /\ fdOf[h] # FreeFd
                                     /\ fdOf[h] \in Fds
    BY <1>2, OpenHandler DEF NetInv, DescriptorsOpen
<1>7. \A e \in NewFds : e.res \in Fds /\ e.res # FreeFd
  BY <1>2, CompletionShapes DEF NewFds, MultiEvents, NetInv, DescriptorsOpen, Accepts
<1>8. NetTypes'
  BY <1>1 DEF NetInv, NetTypes
<1>9. DescriptorsOpen'
  <2>1. \A h \in Handlers : Open(h)' => file'[fdOf'[h]] # None
    BY <1>1, <1>3, <1>4, <1>6 DEF NetInv, DescriptorsOpen
  <2>2. \A g, h \in Handlers : Open(g)' /\ Open(h)' /\ fdOf'[g] = fdOf'[h] => g = h
    BY <1>1, <1>4 DEF NetInv, DescriptorsOpen
  <2>3. \A e \in NewFds' : /\ file'[e.res] # None
                           /\ \A h \in Handlers : Open(h)' => fdOf'[h] # e.res
    BY <1>1, <1>3, <1>4, <1>5, <1>6, <1>7 DEF NetInv, DescriptorsOpen
  <2>4. \A fd \in Fds : file'[fd] # None => \/ \E h \in Handlers : Open(h)' /\ fdOf'[h] = fd
                                            \/ \E e \in NewFds' : e.res = fd
    BY <1>1, <1>3, <1>4, <1>5 DEF NetInv, DescriptorsOpen
  <2>5. \A f, g \in Fds : file'[f] = file'[g] /\ file'[f] # None => f = g
    BY <1>1, <1>3 DEF NetInv, DescriptorsOpen, Accepted
  <2> QED BY <2>1, <2>2, <2>3, <2>4, <2>5 DEF DescriptorsOpen
<1>10. ClientWaits'
  BY <1>1, <1>3, <1>4, <1>6, ReaderOpen DEF NetInv, ClientWaits
<1> QED BY <1>8, <1>9, <1>10 DEF NetInv

(* What the completion of its request changes for a handler, and that it   *)
(* changes nothing for the others.                                         *)
LEMMA CompleteNet ==
  ASSUME ServerInv, NEW h \in Handlers, Waiting(h), NEW res,
         Complete(Ask(h), res), UNCHANGED http
  PROVE  /\ \A g \in Handlers \ {h} : (Open(g)' <=> Open(g)) /\ (HasRead(g)' <=> HasRead(g))
         /\ Open(h) /\ (Open(h)' <=> stage[h] # "close")
         /\ HasRead(h)' => stage[h] = "recv" /\ res = "data"
         /\ NewFds' = NewFds
<1> USE Addresses
<1> DEFINE m == [tag |-> "TAG_IO", ctx |-> awaiting[h], res |-> res]
<1>1. /\ Ask(h) \in inflight /\ inflight' = inflight \ {Ask(h)}
      /\ cq' = cq \cup {m}
      /\ UNCHANGED <<heap, sq, awaiting, ready, stage, fdOf>>
  BY DEF Complete, Ask, http
<1>2. m.tag = "TAG_IO" /\ m.ctx = awaiting[h] /\ m.res = res
  OBVIOUS
<1> HIDE DEF m
<1>3. \A g \in Handlers : Ask(g)' = Ask(g) /\ (SqHas(g)' <=> SqHas(g))
  BY <1>1 DEF Ask, SqHas
<1>4. KernelHas(h) /\ ~SqHas(h) /\ ~CqHas(h) /\ h \notin ready
  BY <1>1 DEF KernelHas, ServerInv, InOnePlace
<1>5. ~KernelHas(h)' /\ \A g \in Handlers \ {h} : Waiting(g) => (KernelHas(g)' <=> KernelHas(g))
  BY <1>1, <1>3, OwnRequests DEF KernelHas
<1>6. ASSUME NEW g \in Handlers \ {h}
      PROVE  (Open(g)' <=> Open(g)) /\ (HasRead(g)' <=> HasRead(g))
  <2>1. Waiting(g) => awaiting[g] # awaiting[h]
    BY <1>6, OwnRequests
  <2>2. Open(g)' <=> Open(g)
    BY <1>1, <1>3, <1>5 DEF Open, Waiting
  <2>3. HasRead(g)' <=> HasRead(g)
    BY <1>1, <1>2, <1>3, <1>5, <2>1 DEF HasRead, Waiting
  <2> QED BY <2>2, <2>3
<1>7. Open(h) /\ (Open(h)' <=> stage[h] # "close")
  BY <1>1, <1>3, <1>4, <1>5 DEF Open, Waiting
<1>8. HasRead(h)' => stage[h] = "recv" /\ res = "data"
  BY <1>1, <1>2, <1>3, <1>4, <1>5 DEF HasRead, CqHas
<1>9. NewFds' = NewFds
  BY <1>1, <1>2 DEF NewFds, MultiEvents
<1> QED BY <1>6, <1>7, <1>8, <1>9

LEMMA RecvNet ==
  ASSUME ServerInv, NetInv, NEW h \in Handlers, Waiting(h), Ask(h).fd = fdOf[h],
         Ask(h).op = stage[h], KernelRecvs(Ask(h))
  PROVE  NetInv'
<1> DEFINE k == file[fdOf[h]]
<1>1. stage[h] = "recv" /\ UNCHANGED <<http, stage, fdOf, file>>
  BY DEF KernelRecvs, http
<1>2. PICK res \in {"data", "error", "eof"} :
        /\ Complete(Ask(h), res)
        /\ \/ res = "data" /\ sock' = [sock EXCEPT ![k] = "served"]
           \/ res # "data" /\ UNCHANGED sock
  BY DEF KernelRecvs, Peer
<1>3. /\ \A g \in Handlers \ {h} : (Open(g)' <=> Open(g)) /\ (HasRead(g)' <=> HasRead(g))
      /\ Open(h) /\ Open(h)'
      /\ HasRead(h)' => res = "data"
      /\ NewFds' = NewFds
  BY <1>1, <1>2, CompleteNet
<1>4. k \in Clients
  BY <1>3, OpenHandler
<1>5. NetTypes'
  BY <1>1, <1>2 DEF NetInv, NetTypes
<1>6. DescriptorsOpen'
  BY <1>1, <1>3 DEF NetInv, DescriptorsOpen
<1>7. ASSUME NEW g \in Handlers, HasRead(g)' PROVE sock'[file[fdOf[g]]] \in {"served", "gone"}
  <2>1. CASE g = h
    BY <1>2, <1>3, <1>4, <1>7, <2>1 DEF NetInv, NetTypes
  <2>2. CASE g # h
    <3>1. HasRead(g)
      BY <1>3, <1>7, <2>2
    <3>2. file[fdOf[g]] \in Clients
      BY <3>1, ReaderOpen, OpenHandler
    <3>3. sock[file[fdOf[g]]] \in {"served", "gone"}
      BY <3>1 DEF NetInv, ClientWaits
    <3> QED BY <1>2, <3>2, <3>3 DEF NetInv, NetTypes
  <2> QED BY <2>1, <2>2
<1> QED BY <1>1, <1>5, <1>6, <1>7 DEF NetInv, ClientWaits

LEMMA SendNet ==
  ASSUME ServerInv, NetInv, NEW h \in Handlers, Waiting(h), Ask(h).fd = fdOf[h],
         Ask(h).op = stage[h], KernelSends(Ask(h))
  PROVE  NetInv'
<1> DEFINE k == file[fdOf[h]]
<1>1. stage[h] = "send" /\ UNCHANGED <<http, stage, fdOf, file>>
  BY DEF KernelSends, http
<1>2. PICK res \in {"sent", "error"} :
        /\ Complete(Ask(h), res)
        /\ sock' = [sock EXCEPT ![k] = "idle"] \/ UNCHANGED sock
  BY DEF KernelSends, Peer
<1>3. /\ \A g \in Handlers \ {h} : (Open(g)' <=> Open(g)) /\ (HasRead(g)' <=> HasRead(g))
      /\ Open(h) /\ Open(h)' /\ ~HasRead(h)'
      /\ NewFds' = NewFds
  BY <1>1, <1>2, CompleteNet
<1>4. NetTypes'
  BY <1>1, <1>2 DEF NetInv, NetTypes
<1>5. DescriptorsOpen'
  BY <1>1, <1>3 DEF NetInv, DescriptorsOpen
<1>6. ASSUME NEW g \in Handlers, HasRead(g)' PROVE sock'[file[fdOf[g]]] \in {"served", "gone"}
  <2>1. g # h /\ HasRead(g)
    BY <1>3, <1>6
  <2>2. Open(g) /\ file[fdOf[g]] \in Clients
    BY <2>1, ReaderOpen, OpenHandler
  <2>3. file[fdOf[g]] # k
    BY <1>3, <2>1, <2>2, OwnClients
  <2>4. sock[file[fdOf[g]]] \in {"served", "gone"}
    BY <2>1 DEF NetInv, ClientWaits
  <2> QED BY <1>2, <2>2, <2>3, <2>4 DEF NetInv, NetTypes
<1> QED BY <1>1, <1>4, <1>5, <1>6 DEF NetInv, ClientWaits

LEMMA CloseNet ==
  ASSUME ServerInv, NetInv, NEW h \in Handlers, Waiting(h), Ask(h).fd = fdOf[h],
         Ask(h).op = stage[h], KernelCloses(Ask(h))
  PROVE  NetInv'
<1> DEFINE f == fdOf[h]
           k == file[f]
<1>1. /\ stage[h] = "close" /\ UNCHANGED <<http, stage, fdOf>>
      /\ Complete(Ask(h), "closed")
      /\ sock' = [sock EXCEPT ![k] = "none"]
      /\ file' = [file EXCEPT ![f] = None]
  BY DEF KernelCloses, Peer, http
<1>2. /\ \A g \in Handlers \ {h} : (Open(g)' <=> Open(g)) /\ (HasRead(g)' <=> HasRead(g))
      /\ Open(h) /\ ~Open(h)' /\ ~HasRead(h)'
      /\ NewFds' = NewFds
  BY <1>1, CompleteNet
<1>3. f \in Fds /\ file'[f] = None /\ \A g \in Fds : g # f => file'[g] = file[g]
  BY <1>1, <1>2, OpenHandler DEF NetInv, NetTypes
<1>4. ASSUME NEW g \in Handlers, Open(g)'
      PROVE  /\ g # h /\ Open(g) /\ fdOf[g] \in Fds /\ fdOf[g] # f
             /\ file[fdOf[g]] \in Clients /\ file[fdOf[g]] # k
             /\ file'[fdOf[g]] = file[fdOf[g]]
  <2>1. g # h /\ Open(g)
    BY <1>2, <1>4
  <2>2. fdOf[g] \in Fds /\ file[fdOf[g]] \in Clients
    BY <2>1, OpenHandler
  <2>3. fdOf[g] # f /\ file[fdOf[g]] # k
    BY <1>2, <2>1, OwnClients
  <2> QED BY <1>3, <2>1, <2>2, <2>3
<1>5. \A e \in NewFds : e.res \in Fds /\ e.res # f
  BY <1>2, CompletionShapes DEF NewFds, MultiEvents, NetInv, DescriptorsOpen, Accepts
<1> HIDE DEF f, k
<1>6. NetTypes'
  BY <1>1 DEF NetInv, NetTypes
<1>7. DescriptorsOpen'
  <2>1. \A g \in Handlers : Open(g)' => file'[fdOf'[g]] # None
    BY <1>1, <1>4, Program
  <2>2. \A g, i \in Handlers : Open(g)' /\ Open(i)' /\ fdOf'[g] = fdOf'[i] => g = i
    BY <1>1, <1>4 DEF NetInv, DescriptorsOpen
  <2>3. \A e \in NewFds' : /\ file'[e.res] # None
                           /\ \A g \in Handlers : Open(g)' => fdOf'[g] # e.res
    BY <1>1, <1>2, <1>3, <1>4, <1>5 DEF NetInv, DescriptorsOpen
  <2>4. \A fd \in Fds : file'[fd] # None => \/ \E g \in Handlers : Open(g)' /\ fdOf'[g] = fd
                                            \/ \E e \in NewFds' : e.res = fd
    <3> SUFFICES ASSUME NEW fd \in Fds, file'[fd] # None, \A e \in NewFds' : e.res # fd
                 PROVE  \E g \in Handlers : Open(g)' /\ fdOf'[g] = fd
      OBVIOUS
    <3>1. fd # f /\ file[fd] # None
      BY <1>3
    <3>2. PICK g \in Handlers : Open(g) /\ fdOf[g] = fd
      BY <1>2, <3>1 DEF NetInv, DescriptorsOpen
    <3>3. g # h
      BY <3>1, <3>2 DEF f
    <3> QED BY <1>1, <1>2, <3>2, <3>3
  <2>5. \A d, g \in Fds : file'[d] = file'[g] /\ file'[d] # None => d = g
    BY <1>3 DEF NetInv, DescriptorsOpen
  <2> QED BY <2>1, <2>2, <2>3, <2>4, <2>5 DEF DescriptorsOpen
<1>8. ASSUME NEW g \in Handlers, HasRead(g)' PROVE sock'[file'[fdOf'[g]]] \in {"served", "gone"}
  <2>1. HasRead(g) /\ g # h
    BY <1>2, <1>8
  <2>2. Open(g)'
    BY <1>2, <2>1, ReaderOpen
  <2>3. sock[file[fdOf[g]]] \in {"served", "gone"}
    BY <2>1 DEF NetInv, ClientWaits
  <2> QED BY <1>1, <1>4, <2>2, <2>3 DEF NetInv, NetTypes
<1> QED BY <1>6, <1>7, <1>8 DEF NetInv, ClientWaits
-----------------------------------------------------------------------------
LEMMA AcceptFailsNet ==
  ASSUME ServerInv, NetInv, KernelAcceptFails PROVE NetInv'
<1> DEFINE m == [tag |-> "TAG_MULTI", ctx |-> None, res |-> "error"]
<1>1. /\ inflight' = inflight \ {AcceptMultishot} /\ cq' = cq \cup {m}
      /\ UNCHANGED <<heap, sq, awaiting, ready, stage, fdOf, net>>
  BY DEF KernelAcceptFails, PostMulti, http
<1>2. \A h \in Handlers : Waiting(h) => /\ SqHas(h)' <=> SqHas(h)
                                        /\ KernelHas(h)' <=> KernelHas(h)
  BY <1>1, OwnRequests DEF SqHas, KernelHas, Ask
<1>3. \A h \in Handlers : (Open(h)' <=> Open(h)) /\ (HasRead(h)' <=> HasRead(h))
  BY <1>1, <1>2 DEF Open, HasRead, Waiting
<1>4. NewFds' = NewFds
  BY <1>1 DEF NewFds, MultiEvents
<1> QED BY <1>1, <1>3, <1>4, NetKept

LEMMA SubmitNet ==
  ASSUME ServerInv, NetInv, SchedulerSubmits PROVE NetInv'
<1>1. /\ inflight' = inflight \cup sq /\ sq' = {}
      /\ UNCHANGED <<heap, cq, awaiting, ready, stage, fdOf, net>>
  BY DEF SchedulerSubmits, Submit, http
<1>2. \A h \in Handlers : SqHas(h)' \/ KernelHas(h)' <=> SqHas(h) \/ KernelHas(h)
  BY <1>1 DEF SqHas, KernelHas, Ask
<1>3. \A h \in Handlers : (Open(h)' <=> Open(h)) /\ (HasRead(h)' <=> HasRead(h))
  BY <1>1, <1>2 DEF Open, HasRead
<1>4. NewFds' = NewFds
  BY <1>1 DEF NewFds, MultiEvents
<1> QED BY <1>1, <1>3, <1>4, NetKept

(* poll() moves the result from the completion to the context. *)
LEMMA PollNet ==
  ASSUME ServerInv, NetInv, NEW x \in Ctxs, SchedulerPolls(x) PROVE NetInv'
<1> USE Addresses
<1>0. PollIo(x) /\ UNCHANGED <<stage, fdOf, net>>
  BY DEF SchedulerPolls, http
<1>1. PICK h \in Handlers, e \in cq :
           /\ Waiting(h) /\ awaiting[h] = x /\ e.tag = "TAG_IO" /\ e.ctx = x
           /\ cq' = cq \ {e}
           /\ heap' = [heap EXCEPT ![x].res = e.res]
           /\ heap'[x] = [heap[x] EXCEPT !.res = e.res]
           /\ heap[x] \in Contexts(Results)
           /\ ready' = ready \cup {h}
           /\ UNCHANGED <<sq, inflight, awaiting>>
  BY <1>0, PolledIs
<1>2. heap'[x].res = e.res /\ \A y \in Ctxs : y # x => heap'[y] = heap[y]
  BY <1>1 DEF Contexts, ServerInv, RequestTypes
<1>3. \A g \in Handlers : /\ SqHas(g)' <=> SqHas(g)
                          /\ KernelHas(g)' <=> KernelHas(g)
  BY <1>0, <1>1 DEF SqHas, KernelHas, Ask
<1>4. ASSUME NEW g \in Handlers
      PROVE  (Open(g)' <=> Open(g)) /\ (HasRead(g)' => HasRead(g))
  <2>1. Open(g)' <=> Open(g)
    BY <1>0, <1>3 DEF Open
  <2>2. CASE g = h
    BY <1>0, <1>1, <1>2, <1>3, <2>1, <2>2 DEF HasRead
  <2>3. CASE g # h
    <3>1. Waiting(g) => awaiting[g] \in Ctxs /\ awaiting[g] # x
      BY <1>1, <2>3, OwnRequests DEF ServerInv, Frames
    <3> QED BY <1>0, <1>1, <1>2, <1>3, <2>1, <2>3, <3>1 DEF HasRead, Waiting
  <2> QED BY <2>1, <2>2, <2>3
<1>5. NewFds' = NewFds
  BY <1>1 DEF NewFds, MultiEvents
<1> QED BY <1>0, <1>4, <1>5, NetKept

LEMMA OnAcceptNet ==
  ASSUME ServerInv, NetInv, NEW res \in Fds \cup {"error"}, OnAcceptCallback(res)
  PROVE  NetInv'
<1>1. PICK e \in MultiEvents :
           /\ e.res = res /\ cq' = cq \ {e}
           /\ UNCHANGED <<heap, sq, inflight, awaiting, ringVars, net>>
           /\ \/ res = "error" /\ UNCHANGED <<stage, fdOf, ready>>
              \/ /\ res \in Fds
                 /\ \E h \in Handlers :
                      /\ stage[h] = "free"
                      /\ stage' = [stage EXCEPT ![h] = "start"]
                      /\ fdOf' = [fdOf EXCEPT ![h] = res]
                      /\ ready' = ready \cup {h}
  BY CallbackIs
<1>2. e \in cq /\ e.tag = "TAG_MULTI"
  BY DEF MultiEvents
<1>3. CASE res = "error" /\ UNCHANGED <<stage, fdOf, ready>>
  <2>1. \A h \in Handlers : (Open(h)' <=> Open(h)) /\ (HasRead(h)' => HasRead(h))
    BY <1>1, <1>3 DEF Open, HasRead, SqHas, KernelHas, Ask
  <2>2. NewFds' = NewFds
    BY <1>1, <1>3 DEF NewFds, MultiEvents
  <2> QED BY <1>1, <1>3, <2>1, <2>2, NetKept
<1>4. ASSUME res \in Fds,
             NEW h \in Handlers, stage[h] = "free",
             stage' = [stage EXCEPT ![h] = "start"],
             fdOf' = [fdOf EXCEPT ![h] = res],
             ready' = ready \cup {h}
      PROVE  NetInv'
  <2>1. /\ stage'[h] = "start" /\ fdOf'[h] = res
        /\ \A g \in Handlers : g # h => stage'[g] = stage[g] /\ fdOf'[g] = fdOf[g]
    BY <1>4 DEF ServerInv, RequestTypes
  <2>2. ~Open(h) /\ Open(h)' /\ ~HasRead(h)'
    BY <1>4, <2>1 DEF Open, HasRead
  <2>3. \A g \in Handlers : g # h => (Open(g)' <=> Open(g)) /\ (HasRead(g)' => HasRead(g))
    BY <1>1, <1>4, <2>1 DEF Open, HasRead, SqHas, KernelHas, Ask
  <2>4. e \in NewFds
    BY <1>1, <1>4, Program DEF NewFds
  <2>5. \A d \in NewFds' : d \in NewFds /\ d.res # res
    <3> SUFFICES ASSUME NEW d \in NewFds' PROVE d \in NewFds /\ d.res # res
      OBVIOUS
    <3>1. d \in NewFds /\ d # e /\ d \in cq /\ d.tag = "TAG_MULTI"
      BY <1>1 DEF NewFds, MultiEvents
    <3>2. d \in Accepts /\ e \in Accepts
      BY <1>2, <3>1, CompletionShapes
    <3> QED BY <1>1, <3>1, <3>2 DEF Accepts
  <2>6. \A d \in NewFds : d.res # res => d \in NewFds'
    BY <1>1 DEF NewFds, MultiEvents
  <2>7. UNCHANGED <<file, sock>>
    BY <1>1 DEF net
  <2>8. NetTypes'
    BY <2>7 DEF NetInv, NetTypes
  <2>9. DescriptorsOpen'
    <3>1. \A g \in Handlers : Open(g)' => file'[fdOf'[g]] # None
      BY <1>1, <2>1, <2>2, <2>3, <2>4, <2>7 DEF NetInv, DescriptorsOpen
    <3>2. \A g, i \in Handlers : Open(g)' /\ Open(i)' /\ fdOf'[g] = fdOf'[i] => g = i
      BY <1>1, <2>1, <2>2, <2>3, <2>4 DEF NetInv, DescriptorsOpen
    <3>3. \A d \in NewFds' : /\ file'[d.res] # None
                             /\ \A g \in Handlers : Open(g)' => fdOf'[g] # d.res
      BY <2>1, <2>3, <2>5, <2>7 DEF NetInv, DescriptorsOpen
    <3>4. \A fd \in Fds : file'[fd] # None => \/ \E g \in Handlers : Open(g)' /\ fdOf'[g] = fd
                                              \/ \E d \in NewFds' : d.res = fd
      BY <2>1, <2>2, <2>3, <2>6, <2>7 DEF NetInv, DescriptorsOpen
    <3>5. \A f, g \in Fds : file'[f] = file'[g] /\ file'[f] # None => f = g
      BY <2>7 DEF NetInv, DescriptorsOpen
    <3> QED BY <3>1, <3>2, <3>3, <3>4, <3>5 DEF DescriptorsOpen
  <2>10. ClientWaits'
    BY <2>1, <2>2, <2>3, <2>7 DEF NetInv, ClientWaits
  <2> QED BY <2>8, <2>9, <2>10 DEF NetInv
<1> QED BY <1>1, <1>3, <1>4

(* A handler sends only after it has read. *)
LEMMA GoesOnNet ==
  ASSUME ServerInv, NetInv, NEW h \in Handlers, NEW op \in {"recv", "send", "close"},
         NEW x \in Ctxs, stage[h] \in {"start", "recv", "send"}, GoesOn(h, op, x),
         op = "send" => stage[h] = "recv" /\ heap[awaiting[h]].res = "data"
  PROVE  NetInv'
<1>1. /\ h \in ready /\ ready' = ready \ {h} /\ stage' = [stage EXCEPT ![h] = op]
      /\ UNCHANGED <<inflight, cq, fdOf, net>>
  BY DEF GoesOn
<1>2. /\ SqHas(h)' /\ ~CqHas(h)' /\ h \notin ready'
      /\ \A g \in Handlers : g # h =>
           /\ stage'[g] = stage[g] /\ awaiting'[g] = awaiting[g]
           /\ Waiting(g) => /\ heap'[awaiting[g]] = heap[awaiting[g]]
                            /\ SqHas(g)' <=> SqHas(g)
                            /\ KernelHas(g)' <=> KernelHas(g)
  BY GoesOnInv
<1>3. stage'[h] = op
  BY <1>1 DEF ServerInv, RequestTypes
<1>4. Open(h) /\ Open(h)'
  BY <1>2, <1>3 DEF Open
<1>5. HasRead(h)' => HasRead(h)
  BY <1>1, <1>2, <1>3 DEF HasRead, CqHas
<1>6. \A g \in Handlers : g # h => (Open(g)' <=> Open(g)) /\ (HasRead(g)' => HasRead(g))
  BY <1>1, <1>2 DEF Open, HasRead, Waiting
<1>7. NewFds' = NewFds
  BY <1>1 DEF NewFds, MultiEvents
<1> QED BY <1>1, <1>4, <1>5, <1>6, <1>7, NetKept

LEMMA AfterCloseNet ==
  ASSUME ServerInv, NetInv, NEW h \in Handlers, AfterClose(h) PROVE NetInv'
<1>1. /\ h \in ready /\ stage[h] = "close" /\ ready' = ready \ {h}
      /\ stage' = [stage EXCEPT ![h] = "free"]
      /\ UNCHANGED <<sq, inflight, cq, net>>
  BY DEF AfterClose, Resumed
<1>2. \A g \in Handlers : g # h =>
        /\ stage'[g] = stage[g] /\ awaiting'[g] = awaiting[g] /\ fdOf'[g] = fdOf[g]
        /\ Waiting(g) => heap'[awaiting[g]] = heap[awaiting[g]]
  BY AfterCloseInv
<1>3. stage'[h] = "free"
  BY <1>1 DEF ServerInv, RequestTypes
<1>4. ~Open(h) /\ ~Open(h)' /\ ~HasRead(h)'
  BY <1>1, <1>3 DEF Open, HasRead, Waiting, ServerInv, InOnePlace
<1>5. \A g \in Handlers : g # h => /\ Open(g)' <=> Open(g)
                                   /\ HasRead(g)' => HasRead(g)
  BY <1>1, <1>2 DEF Open, HasRead, Waiting, SqHas, KernelHas, Ask
<1>6. NewFds' = NewFds
  BY <1>1 DEF NewFds, MultiEvents
<1> QED BY <1>1, <1>2, <1>4, <1>5, <1>6, NetKept

LEMMA NetStep == ServerInv /\ NetInv /\ [Next]_vars => NetInv'
<1> SUFFICES ASSUME ServerInv, NetInv, [Next]_vars PROVE NetInv'
  OBVIOUS
<1>1. CASE UNCHANGED vars
  <2>1. UNCHANGED <<heap, sq, inflight, cq, awaiting, ready, stage, fdOf, net>>
    BY <1>1 DEF vars, ioVars, http
  <2>2. \A h \in Handlers : (Open(h)' <=> Open(h)) /\ (HasRead(h)' <=> HasRead(h))
    BY <2>1 DEF Open, HasRead, SqHas, KernelHas, Ask
  <2>3. NewFds' = NewFds
    BY <2>1 DEF NewFds, MultiEvents
  <2> QED BY <2>1, <2>2, <2>3, NetKept
<1>2. ASSUME NEW k \in Clients, ClientSends(k) \/ ClientLeaves(k) \/ KernelAccepts(k)
      PROVE NetInv'
  BY <1>2, ClientNet, AcceptNet
<1>3. CASE KernelAcceptFails \/ SchedulerSubmits
  BY <1>3, AcceptFailsNet, SubmitNet
<1>4. ASSUME NEW x \in Ctxs, Kernel(x) PROVE NetInv'
  BY <1>4, KernelIs, RecvNet, SendNet, CloseNet
<1>5. ASSUME NEW x \in Ctxs, SchedulerPolls(x) PROVE NetInv'
  BY <1>5, PollNet
<1>6. ASSUME NEW res \in Fds \cup {"error"}, OnAcceptCallback(res) PROVE NetInv'
  BY <1>6, OnAcceptNet
<1>7. ASSUME NEW h \in Handlers, HandleClient(h) PROVE NetInv'
  <2>1. CASE AfterClose(h)
    BY <2>1, AfterCloseNet
  <2>2. CASE Start(h) \/ AfterRecv(h) \/ AfterSend(h)
    <3>1. PICK x \in Ctxs, op \in {"recv", "send", "close"} :
             /\ GoesOn(h, op, x) /\ stage[h] \in {"start", "recv", "send"}
             /\ op = "send" => stage[h] = "recv" /\ heap[awaiting[h]].res = "data"
      BY <2>2, HandlerGoesOn
    <3> QED BY <3>1, GoesOnNet
  <2> QED BY <1>7, <2>1, <2>2 DEF HandleClient
<1> QED BY <1>1, <1>2, <1>3, <1>4, <1>5, <1>6, <1>7 DEF Next

LEMMA NetInvariant == Spec => []NetInv
BY NetInit, NetStep, ServerInvariant, PTL DEF Spec
-----------------------------------------------------------------------------
LEMMA BuffersStep ==
  ServerInv /\ RingInv /\ BuffersReturned /\ [Next]_vars => BuffersReturned'
<1> SUFFICES ASSUME ServerInv, RingInv, BuffersReturned, [Next]_vars PROVE BuffersReturned'
  OBVIOUS
<1>0. /\ got \in [Handlers -> Buffers \cup {NoBuffer, ENOBUFS}]
      /\ stage \in [Handlers -> {"free", "start", "recv", "send", "close"}]
  BY Program DEF RingInv, RingTypeOK, ServerInv, RequestTypes
<1>1. CASE UNCHANGED <<got, stage>>
  BY <1>1 DEF BuffersReturned
<1>2. ASSUME NEW k \in Clients, ClientSends(k) \/ ClientLeaves(k) \/ KernelAccepts(k)
      PROVE UNCHANGED <<got, stage>>
  BY <1>2 DEF ClientSends, ClientLeaves, KernelAccepts, ringVars, http
<1>3. CASE KernelAcceptFails \/ SchedulerSubmits \/ \E x \in Ctxs : SchedulerPolls(x)
  <2>1. UNCHANGED <<got, stage>>
    BY <1>3 DEF KernelAcceptFails, SchedulerSubmits, SchedulerPolls, ringVars, http
  <2> QED BY <1>1, <2>1
<1>4. ASSUME NEW x \in Ctxs, Kernel(x) PROVE BuffersReturned'
  <2>1. PICK h \in Handlers :
           /\ heap[Ask(h).ctx].coro = h /\ Ask(h).op = stage[h]
           /\ KernelRecvs(Ask(h)) \/ KernelSends(Ask(h)) \/ KernelCloses(Ask(h))
    BY <1>4, KernelIs
  <2>2. CASE KernelRecvs(Ask(h))
    <3>1. UNCHANGED stage /\ stage[h] = "recv"
      BY <2>1, <2>2 DEF KernelRecvs, http
    <3>2. Receive(h) \/ ReceiveFails(h) \/ UNCHANGED got
      BY <2>1, <2>2 DEF KernelRecvs, ringVars
    <3>3. \A g \in Handlers : g # h => got'[g] = got[g]
      BY <1>0, <3>2 DEF Receive, ReceiveFails
    <3> QED BY <3>1, <3>3 DEF BuffersReturned
  <2>3. CASE KernelSends(Ask(h)) \/ KernelCloses(Ask(h))
    <3>1. UNCHANGED <<got, stage>>
      BY <2>3 DEF KernelSends, KernelCloses, ringVars, http
    <3> QED BY <1>1, <3>1
  <2> QED BY <2>1, <2>2, <2>3
<1>5. ASSUME NEW res \in Fds \cup {"error"}, OnAcceptCallback(res) PROVE BuffersReturned'
  <2>1. /\ UNCHANGED got
        /\ \/ UNCHANGED stage
           \/ \E h \in Handlers : stage[h] = "free" /\ stage' = [stage EXCEPT ![h] = "start"]
    BY <1>5, CallbackIs DEF ringVars
  <2> QED BY <1>0, <2>1 DEF BuffersReturned
<1>6. ASSUME NEW h \in Handlers, HandleClient(h) PROVE BuffersReturned'
  <2>1. CASE AfterClose(h)
    <3>1. stage[h] = "close" /\ stage' = [stage EXCEPT ![h] = "free"] /\ UNCHANGED got
      BY <2>1 DEF AfterClose, Resumed, ringVars
    <3> QED BY <1>0, <3>1 DEF BuffersReturned
  <2>2. CASE Start(h) \/ AfterRecv(h) \/ AfterSend(h)
    <3>1. PICK x \in Ctxs, op \in {"recv", "send", "close"} :
             /\ GoesOn(h, op, x)
             /\ \/ stage[h] # "recv" /\ UNCHANGED ringVars
                \/ GiveBack(h)
      BY <2>2, HandlerGoesOn
    <3>2. stage' = [stage EXCEPT ![h] = op]
      BY <3>1 DEF GoesOn
    <3>3. got'[h] = NoBuffer /\ \A g \in Handlers : g # h => got'[g] = got[g]
      <4>1. CASE stage[h] # "recv" /\ UNCHANGED ringVars
        BY <4>1 DEF BuffersReturned, ringVars
      <4>2. CASE GiveBack(h)
        BY <1>0, <4>2 DEF GiveBack, ReturnBuffer, SeesError, ringVars
      <4> QED BY <3>1, <4>1, <4>2
    <3> QED BY <1>0, <3>2, <3>3 DEF BuffersReturned
  <2> QED BY <1>6, <2>1, <2>2 DEF HandleClient
<1>7. CASE UNCHANGED vars
  BY <1>1, <1>7 DEF vars, ringVars, http
<1> QED BY <1>1, <1>2, <1>3, <1>4, <1>5, <1>6, <1>7 DEF Next
-----------------------------------------------------------------------------
(* The variables of the server, its kernel and its clients keep their      *)
(* types.                                                                  *)
THEOREM ServerTypeCorrect == Spec => []TypeOK
<1>1. ServerInv /\ RingInv /\ NetInv => TypeOK
  BY DEF ServerInv, RequestTypes, RingInv, NetInv, NetTypes, TypeOK, Completions, Accepts
<1> QED BY <1>1, ServerInvariant, RingInServer, NetInvariant, PTL

(* A handler that has been started is in exactly one place that will       *)
(* resume it, through every hand-over between the ready queue, the         *)
(* submission queue, the kernel and poll().                                *)
THEOREM NoHandlerStranded == Spec => []NoneStranded
<1>1. ServerInv => NoneStranded
  <2> SUFFICES ASSUME ServerInv, NEW h \in Handlers, stage[h] # "free"
               PROVE  Cardinality({place \in {"ready", "sq", "kernel", "cq"} : IsAt(h, place)}) = 1
    BY DEF NoneStranded
  <2> DEFINE S == {place \in {"ready", "sq", "kernel", "cq"} : IsAt(h, place)}
  <2>1. /\ "ready" \in S <=> h \in ready
        /\ "sq" \in S <=> SqHas(h)
        /\ "kernel" \in S <=> KernelHas(h)
        /\ "cq" \in S <=> CqHas(h)
        /\ S \subseteq {"ready", "sq", "kernel", "cq"}
    BY DEF IsAt
  <2> HIDE DEF S
  <2>2. ASSUME stage[h] = "start" PROVE \E place : S = {place}
    <3>1. h \in ready /\ awaiting[h] = None
      BY <2>2 DEF ServerInv, Frames
    <3>2. Ask(h).op = "start" /\ \A q \in Requests : q.op # "start"
      BY <2>2 DEF Ask, Requests, AcceptMultishot
    <3>3. ~SqHas(h) /\ ~KernelHas(h)
      BY <3>2 DEF SqHas, KernelHas, ServerInv, RequestTypes
    <3>4. ~CqHas(h)
      BY <3>1, CompletionShapes, Addresses DEF CqHas
    <3>5. S = {"ready"}
      BY <2>1, <3>1, <3>3, <3>4
    <3> QED BY <3>5
  <2>3. ASSUME Waiting(h) PROVE \E place : S = {place}
    <3>1. /\ SqHas(h) \/ KernelHas(h) \/ CqHas(h) \/ h \in ready
          /\ SqHas(h) => ~KernelHas(h) /\ ~CqHas(h) /\ h \notin ready
          /\ KernelHas(h) => ~CqHas(h) /\ h \notin ready
          /\ CqHas(h) => h \notin ready
      BY <2>3 DEF ServerInv, InOnePlace
    <3>2. S = {"ready"} \/ S = {"sq"} \/ S = {"kernel"} \/ S = {"cq"}
      <4>1. CASE SqHas(h)
        <5>1. S = {"sq"}
          BY <2>1, <3>1, <4>1
        <5> QED BY <5>1
      <4>2. CASE KernelHas(h)
        <5>1. S = {"kernel"}
          BY <2>1, <3>1, <4>2
        <5> QED BY <5>1
      <4>3. CASE CqHas(h)
        <5>1. S = {"cq"}
          BY <2>1, <3>1, <4>3
        <5> QED BY <5>1
      <4>4. CASE h \in ready
        <5>1. S = {"ready"}
          BY <2>1, <3>1, <4>4
        <5> QED BY <5>1
      <4> QED BY <3>1, <4>1, <4>2, <4>3, <4>4
    <3> QED BY <3>2
  <2>4. stage[h] = "start" \/ Waiting(h)
    BY DEF ServerInv, RequestTypes, Waiting
  <2>5. \E place : S = {place}
    BY <2>2, <2>3, <2>4
  <2> QED BY <2>5, FS_Singleton DEF S
<1> QED BY <1>1, ServerInvariant, PTL

(* Between two submissions a handler prepares one request, so there are    *)
(* never more of them than handlers: SqNeverFull holds as long as there    *)
(* are no more handlers than entries, which the code does not see to.      *)
THEOREM OneRequestEach ==
  Spec => [](Cardinality(sq \ {AcceptMultishot}) <= Cardinality(Handlers))
<1>1. ServerInv => Cardinality(sq \ {AcceptMultishot}) <= Cardinality(Handlers)
  <2> SUFFICES ASSUME ServerInv
               PROVE  Cardinality(sq \ {AcceptMultishot}) <= Cardinality(Handlers)
    OBVIOUS
  <2> DEFINE f == [h \in Handlers |-> Ask(h)]
             Img == {f[h] : h \in Handlers}
             S == sq \ {AcceptMultishot}
  <2>1. S \subseteq Img
    BY DEF ServerInv, AllAwaited
  <2>2. f \in Surjection(Handlers, Img)
    BY DEF Surjection
  <2>3. IsFiniteSet(Img) /\ Cardinality(Img) <= Cardinality(Handlers)
    BY <2>2, FS_Surjection, Program
  <2> HIDE DEF Img, S
  <2>4. IsFiniteSet(S) /\ Cardinality(S) <= Cardinality(Img)
    BY <2>1, <2>3, FS_Subset
  <2>5. /\ Cardinality(S) \in Nat /\ Cardinality(Img) \in Nat
        /\ Cardinality(Handlers) \in Nat
    BY <2>3, <2>4, FS_CardinalityType, Program
  <2>6. Cardinality(S) <= Cardinality(Handlers)
    BY <2>3, <2>4, <2>5
  <2> QED BY <2>6 DEF S
<1> QED BY <1>1, ServerInvariant, PTL

LEMMA OwnsIsOpen ==
  ASSUME ServerInv, NEW h \in Handlers, NEW fd \in Fds
  PROVE  Owns(h, fd) <=> Open(h) /\ fdOf[h] = fd
<1> USE Addresses
<1>1. Ask(h).ctx = awaiting[h]
  BY DEF Ask
<1>2. stage[h] = "close" =>
        ((\E q \in sq \cup inflight : q.ctx = awaiting[h]) <=> SqHas(h) \/ KernelHas(h))
  <2> SUFFICES ASSUME stage[h] = "close", NEW q \in sq \cup inflight, q.ctx = awaiting[h]
               PROVE  SqHas(h) \/ KernelHas(h)
    BY <1>1 DEF SqHas, KernelHas
  <2>1. awaiting[h] \in Ctxs
    BY DEF ServerInv, Frames, Waiting
  <2>2. PICK g \in Handlers : Waiting(g) /\ q = Ask(g)
    BY <2>1, RequestShapes
  <2>3. g = h
    BY <2>2, OwnRequests DEF Ask
  <2> QED BY <2>2, <2>3 DEF SqHas, KernelHas
<1>3. fdOf[h] = fd => stage[h] # "free"
  BY Program DEF ServerInv, Frames
<1> QED BY <1>2, <1>3 DEF Owns, Open

(* No direct descriptor leaks, and none has two owners, whatever the order *)
(* of accepts, closes and the reuse of frames, contexts and descriptors.   *)
THEOREM EachDescriptorOwned == Spec => []DescriptorsOwned
<1>1. ServerInv /\ NetInv => DescriptorsOwned
  <2> SUFFICES ASSUME ServerInv, NetInv, NEW fd \in Fds
               PROVE  Cardinality({h \in Handlers : Owns(h, fd)}
                                    \cup {e \in cq : e.tag = "TAG_MULTI" /\ e.res = fd})
                        = IF file[fd] = None THEN 0 ELSE 1
    BY DEF DescriptorsOwned
  <2> DEFINE A == {h \in Handlers : Owns(h, fd)}
             B == {e \in cq : e.tag = "TAG_MULTI" /\ e.res = fd}
  <2>1. \A h \in Handlers : h \in A <=> Open(h) /\ fdOf[h] = fd
    BY OwnsIsOpen
  <2>2. \A e : e \in B <=> e \in NewFds /\ e.res = fd
    BY Program DEF NewFds, MultiEvents
  <2>3. \A d, e \in B : d = e
    <3>1. \A e \in B : e \in Accepts /\ e.res = fd
      BY CompletionShapes
    <3> HIDE DEF B
    <3> QED BY <3>1 DEF Accepts
  <2>4. \A g, h \in A : g = h
    BY <2>1 DEF NetInv, DescriptorsOpen
  <2>5. A = {} \/ B = {}
    BY <2>1, <2>2 DEF NetInv, DescriptorsOpen
  <2>6. A \cup B = {} <=> file[fd] = None
    BY <2>1, <2>2 DEF NetInv, DescriptorsOpen
  <2> HIDE DEF A, B
  <2>7. CASE A \cup B = {}
    BY <2>6, <2>7, FS_EmptySet DEF A, B
  <2>8. CASE A \cup B # {}
    <3>1. PICK y : A \cup B = {y}
      BY <2>3, <2>4, <2>5, <2>8
    <3> QED BY <2>6, <2>8, <3>1, FS_Singleton DEF A, B
  <2> QED BY <2>7, <2>8
<1> QED BY <1>1, ServerInvariant, NetInvariant, PTL

(* A response goes to the client whose request was read. *)
THEOREM EachAnswerItsClient == Spec => []AnswersItsClient
<1>1. ServerInv /\ NetInv => AnswersItsClient
  <2> SUFFICES ASSUME ServerInv, NetInv, NEW q \in sq \cup inflight, q.op = "send"
               PROVE  Peer(q) # None /\ sock[Peer(q)] \in {"served", "gone"}
    BY DEF AnswersItsClient
  <2>1. AcceptMultishot.op = "accept"
    BY DEF AcceptMultishot
  <2>2. PICK h \in Handlers : Waiting(h) /\ q = Ask(h)
    BY <2>1 DEF ServerInv, AllAwaited
  <2>3. stage[h] = "send" /\ q.fd = fdOf[h]
    BY <2>2 DEF Ask
  <2>4. HasRead(h) /\ Open(h)
    BY <2>2, <2>3 DEF HasRead, Open, SqHas, KernelHas
  <2> QED BY <2>3, <2>4 DEF Peer, NetInv, ClientWaits, DescriptorsOpen
<1> QED BY <1>1, ServerInvariant, NetInvariant, PTL

(* Every path of handle_client() returns the buffer before it goes on. *)
THEOREM EachBufferReturned == Spec => []BuffersReturned
<1>1. Init => BuffersReturned
  BY Program DEF Init, RingInit, BuffersReturned
<1> QED BY <1>1, BuffersStep, ServerInvariant, RingInServer, PTL DEF Spec

(* The server's own program keeps the entries of the buffer ring. *)
THEOREM ServerKeepsEntries == Spec => []EntriesConserved
<1>1. RingInv => EntriesConserved
  BY DEF RingInv
<1> QED BY <1>1, RingInServer, PTL
=============================================================================
