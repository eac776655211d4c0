----------------------------- MODULE IoRequests -----------------------------
(***************************************************************************)
(* A request to the io_uring of one scheduler, from the call that prepares *)
(* it to the end of its IoContext (include/novaio/io_context.hpp; poll()   *)
(* and the request functions of src/io_engine.cpp).                        *)
(*                                                                         *)
(* The context is on the heap, with its address in the request.  Three     *)
(* parties free it or not: await_resume() of the coroutine that is         *)
(* resumed, poll() when the awaiter has been destroyed, or nobody.  A      *)
(* freed address may be given out again at once.                           *)
(*                                                                         *)
(* IoSpec is an application of any coroutines; HttpServer.tla has a        *)
(* program in its place.  A frame is not destroyed between poll() and the  *)
(* resumption that poll() has queued: the handle would dangle, and nobody  *)
(* would free the context.                                                 *)
(*                                                                         *)
(* All of this happens on the scheduler's thread, but for the kernel,      *)
(* which completes requests in any order.  The order in which run()        *)
(* resumes coroutines and polls completions is Runtime.tla's subject; here *)
(* any that is ready may be next.                                          *)
(***************************************************************************)
EXTENDS Naturals, FiniteSets

CONSTANTS Coros,   (* addresses of coroutine frames                        *)
          Ctxs,    (* addresses of IoContexts                              *)
          None

VARIABLES
  heap,      (* the IoContext at an address; None when it is free          *)
  sq,        (* requests prepared and not submitted                        *)
  inflight,  (* requests the kernel has                                    *)
  cq,        (* completions not yet polled                                 *)
  awaiting,  (* SafeIoAwaiter::ctx_ of the awaiter in a coroutine's frame  *)
  ready      (* runnext_ and the local queue                               *)

ioVars == <<heap, sq, inflight, cq, awaiting, ready>>

(* The IoContexts whose result is one of rs, or still to come. *)
Contexts(rs) == [coro : Coros, cancelled : BOOLEAN, res : rs \cup {None}]

ASSUME Addresses == /\ None \notin Coros \cup Ctxs \cup {"done"}
                    /\ None \notin Contexts({"done"})

IoInit == /\ heap = [x \in Ctxs |-> None]
          /\ sq = {} /\ inflight = {} /\ cq = {} /\ ready = {}
          /\ awaiting = [c \in Coros |-> None]

(* Mutant: the handle is not stored. *)
NewContext_NoHandle(c) == [coro |-> None, cancelled |-> FALSE, res |-> None]

(* IoContext{}, with the coroutine that await_suspend() stores in it. *)
NewContext(c) == [coro |-> c, cancelled |-> FALSE, res |-> None]

(* accept_direct(), recv_direct(), send_direct() or close_direct(), and    *)
(* then await_suspend(), in a heap h.                                      *)
Request(c, op, fd, h) ==
  \E x \in Ctxs : /\ h[x] = None
                  /\ heap' = [h EXCEPT ![x] = NewContext(c)]
                  /\ sq' = sq \cup {[op |-> op, fd |-> fd, ctx |-> x]}
                  /\ awaiting' = [awaiting EXCEPT ![c] = x]

(* await_resume() takes the result, and the heap after its delete. *)
Result(c) == heap[awaiting[c]].res
AfterDelete(c) == [heap EXCEPT ![awaiting[c]] = None]

(* ~SafeIoAwaiter() in the frame of a coroutine that is destroyed.  Mutant *)
(* of it: the context is freed with its awaiter.                           *)
DestroyAwaiter_Free(c) ==
  /\ awaiting[c] # None
  /\ heap' = [heap EXCEPT ![awaiting[c]] = None]
  /\ awaiting' = [awaiting EXCEPT ![c] = None]

DestroyAwaiter(c) ==
  /\ awaiting[c] # None
  /\ heap' = [heap EXCEPT ![awaiting[c]].cancelled = TRUE]
  /\ awaiting' = [awaiting EXCEPT ![c] = None]

(* io_uring_submit() in run(): only when no coroutine is ready. *)
Submit ==
  /\ ready = {} /\ sq # {}
  /\ inflight' = inflight \cup sq
  /\ sq' = {}
  /\ UNCHANGED <<heap, cq, awaiting, ready>>

(* The kernel completes a request. *)
Complete(q, res) ==
  /\ q \in inflight
  /\ inflight' = inflight \ {q}
  /\ cq' = cq \cup {[tag |-> "TAG_IO", ctx |-> q.ctx, res |-> res]}
  /\ UNCHANGED <<heap, sq, awaiting, ready>>

(* Mutants: cancelled_ is not tested; nothing is done when it is set. *)
PollIo_NoTest(x) ==
  \E e \in cq : /\ e.tag = "TAG_IO" /\ e.ctx = x
                /\ cq' = cq \ {e}
                /\ heap' = [heap EXCEPT ![x].res = e.res]
                /\ ready' = ready \cup {heap[x].coro}
                /\ UNCHANGED <<sq, inflight, awaiting>>
PollIo_Leak(x) ==
  \E e \in cq : /\ e.tag = "TAG_IO" /\ e.ctx = x
                /\ cq' = cq \ {e}
                /\ heap' = [heap EXCEPT ![x].res = e.res]
                /\ ready' = IF heap[x].cancelled THEN ready ELSE ready \cup {heap[x].coro}
                /\ UNCHANGED <<sq, inflight, awaiting>>

(* poll() of a TAG_IO completion: delete ctx, or schedule the coroutine. *)
PollIo(x) ==
  \E e \in cq :
    /\ e.tag = "TAG_IO" /\ e.ctx = x
    /\ cq' = cq \ {e}
    /\ \/ /\ heap[x].cancelled
          /\ heap' = [heap EXCEPT ![x] = None]
          /\ UNCHANGED ready
       \/ /\ ~heap[x].cancelled
          /\ heap' = [heap EXCEPT ![x].res = e.res]
          /\ ready' = ready \cup {heap[x].coro}
    /\ UNCHANGED <<sq, inflight, awaiting>>
-----------------------------------------------------------------------------
(* Any application.                                                        *)

(* A coroutine that runs makes a request, whatever it is. *)
CoroutineRequests(c) ==
  /\ awaiting[c] = None
  /\ Request(c, "any", None, heap)
  /\ UNCHANGED <<inflight, cq, ready>>

(* run() resumes it, and it takes the result. *)
CoroutineResumes(c) ==
  /\ c \in ready
  /\ ready' = ready \ {c}
  /\ heap' = AfterDelete(c)
  /\ awaiting' = [awaiting EXCEPT ![c] = None]
  /\ UNCHANGED <<sq, inflight, cq>>

CoroutineDestroyed(c) ==
  /\ c \notin ready
  /\ DestroyAwaiter(c)
  /\ UNCHANGED <<sq, inflight, cq, ready>>

KernelCompletes(x) == \E q \in inflight : q.ctx = x /\ Complete(q, "done")

IoNext == \/ \E c \in Coros : \/ CoroutineRequests(c) \/ CoroutineResumes(c)
                              \/ CoroutineDestroyed(c)
          \/ \E x \in Ctxs : KernelCompletes(x) \/ PollIo(x)
          \/ Submit

IoSpec == IoInit /\ [][IoNext]_ioVars

(* The scheduler's thread keeps running: it polls every completion and     *)
(* resumes every coroutine that is ready.  The kernel ends every request.  *)
IoFairness ==
  /\ WF_ioVars(Submit)
  /\ \A x \in Ctxs : WF_ioVars(KernelCompletes(x)) /\ WF_ioVars(PollIo(x))
  /\ \A c \in Coros : WF_ioVars(CoroutineResumes(c))

IoFairSpec == IoSpec /\ IoFairness
-----------------------------------------------------------------------------
(* The variables keep their types. *)
IoTypeOK ==
  /\ heap \in [Ctxs -> Contexts({"done"}) \cup {None}]
  /\ sq \subseteq [op : {"any"}, fd : {None}, ctx : Ctxs]
  /\ inflight \subseteq [op : {"any"}, fd : {None}, ctx : Ctxs]
  /\ cq \subseteq [tag : {"TAG_IO"}, ctx : Ctxs, res : {"done"}]
  /\ awaiting \in [Coros -> Ctxs \cup {None}]
  /\ ready \subseteq Coros

(* What the kernel or poll() will still follow the address of. *)
Pending == {q \in sq \cup inflight : q.ctx # None} \cup {e \in cq : e.ctx # None}

(* Every context is freed once and by one party: whatever the kernel or    *)
(* poll() still refers to is allocated, no two of them share a context,    *)
(* and a context nothing refers to belongs to a coroutine that is ready to *)
(* be resumed and to free it.                                              *)
ContextsOwned ==
  /\ \A p \in Pending : heap[p.ctx] # None
  /\ \A p, q \in Pending : p.ctx = q.ctx => p = q
  /\ \A x \in Ctxs : heap[x] # None /\ (\A p \in Pending : p.ctx # x)
       => \E c \in ready : awaiting[c] = x

(* A coroutine that is queued to be resumed has its result: it is queued   *)
(* once, after its completion, and its frame is still there.               *)
ReadyHasResult ==
  \A c \in ready : /\ awaiting[c] # None
                  /\ heap[awaiting[c]] # None
                  /\ heap[awaiting[c]].coro = c
                  /\ heap[awaiting[c]].res # None

(* Every request ends with its context freed, by the coroutine that goes   *)
(* on or, when there is none any more, by poll().                          *)
EveryContextFreed == \A x \in Ctxs : heap[x] # None ~> heap[x] = None
=============================================================================
