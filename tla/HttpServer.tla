----------------------------- MODULE HttpServer -----------------------------
(***************************************************************************)
(* One scheduler of examples/http_server.cpp: the multishot accept, its    *)
(* callback, and a coroutine handle_client() per connection, on the        *)
(* requests of IoRequests.tla and the provided buffers of BufferRing.tla.  *)
(* A coroutine is the address of its frame, used again when it has ended.  *)
(*                                                                         *)
(* The kernel's side: a table of direct descriptors, and clients that      *)
(* connect, send a request, wait for the response, and may leave at any    *)
(* time.  A client that leaves resets the connection: receives end and     *)
(* sends fail.                                                             *)
(***************************************************************************)
EXTENDS IoRequests, BufferRing

CONSTANTS Fds,      (* direct descriptors: MAX_DIRECT_FDS of them          *)
          Clients,
          SqSize    (* entries of the submission queue: 4096, 1024 or 256; *)
                    (* no caller but send_msg_ring() tests for a free one  *)

Handlers == Coros
Results == {"data", "eof", "sent", "closed", "error"}

ASSUME Program == /\ Receives = Handlers /\ IsFiniteSet(Handlers)
                  /\ None \notin Fds \cup Clients /\ "error" \notin Fds
                  /\ None \notin Contexts(Results)
                  /\ SqSize \in Nat \ {0}

VARIABLES
  stage,  (* the await a handler is at; "free" while there is no such frame *)
  fdOf,   (* its parameter direct_fd                                       *)
  file,   (* the client behind a direct descriptor                         *)
  sock    (* a client's connection: "none", "request" (data to be read),   *)
          (* "served" (read, not answered), "idle" or "gone"               *)

http == <<stage, fdOf>>
net == <<file, sock>>
vars == <<ioVars, ringVars, http, net>>

(* accept_multishot(): its completions are tagged TAG_MULTI, and it has no *)
(* context.                                                                *)
AcceptMultishot == [op |-> "accept", fd |-> None, ctx |-> None]

(* start_multishot_server() has run. *)
Init == /\ heap = [x \in Ctxs |-> None]
        /\ sq = {AcceptMultishot}
        /\ inflight = {} /\ cq = {} /\ ready = {}
        /\ awaiting = [c \in Coros |-> None]
        /\ RingInit
        /\ stage = [h \in Handlers |-> "free"]
        /\ fdOf = [h \in Handlers |-> None]
        /\ file = [fd \in Fds |-> None]
        /\ sock = [k \in Clients |-> "none"]
-----------------------------------------------------------------------------
(* Clients                                                                 *)

Accepted(k) == \E fd \in Fds : file[fd] = k
Backlog == {k \in Clients : sock[k] # "none" /\ ~Accepted(k)}

(* A new connection, which TCP_DEFER_ACCEPT shows with its first request,  *)
(* or the next request on one that is kept alive.                          *)
ClientSends(k) ==
  /\ sock[k] \in {"none", "idle"}
  /\ sock' = [sock EXCEPT ![k] = "request"]
  /\ UNCHANGED <<ioVars, ringVars, http, file>>

ClientLeaves(k) ==
  /\ sock[k] \notin {"none", "gone"}
  /\ sock' = [sock EXCEPT ![k] = IF Accepted(k) THEN "gone" ELSE "none"]
  /\ UNCHANGED <<ioVars, ringVars, http, file>>
-----------------------------------------------------------------------------
(* The kernel                                                              *)

MultiEvents == {e \in cq : e.tag = "TAG_MULTI"}
PostMulti(res) == cq' = cq \cup {[tag |-> "TAG_MULTI", ctx |-> None, res |-> res]}

(* The number of handlers is bounded by their frames. *)
FrameLeft == Cardinality(MultiEvents) < Cardinality({h \in Handlers : stage[h] = "free"})

FreeFd == CHOOSE fd \in Fds : file[fd] = None

(* IORING_FILE_INDEX_ALLOC: the kernel chooses a free descriptor. *)
KernelAccepts(k) ==
  /\ AcceptMultishot \in inflight
  /\ k \in Backlog /\ FrameLeft
  /\ \E fd \in Fds : file[fd] = None
  /\ file' = [file EXCEPT ![FreeFd] = k]
  /\ PostMulti(FreeFd)
  /\ UNCHANGED <<heap, sq, inflight, awaiting, ready, ringVars, http, sock>>

(* With no descriptor left the accept ends, without IORING_CQE_F_MORE. *)
KernelAcceptFails ==
  /\ AcceptMultishot \in inflight
  /\ Backlog # {} /\ \A fd \in Fds : file[fd] # None
  /\ inflight' = inflight \ {AcceptMultishot}
  /\ PostMulti("error")
  /\ UNCHANGED <<heap, sq, awaiting, ready, ringVars, http, net>>

(* The client at the other end of a request. *)
Peer(q) == file[q.fd]

(* A receive that ends with 0 may have a buffer all the same: the kernel   *)
(* chose one before it found the end of the connection.                    *)

KernelRecvs(q) ==
  /\ q.op = "recv"
  /\ \/ /\ sock[Peer(q)] = "request"
        /\ Receive(heap[q.ctx].coro)
        /\ Complete(q, "data")
        /\ sock' = [sock EXCEPT ![Peer(q)] = "served"]
     \/ /\ sock[Peer(q)] = "request"
        /\ ReceiveFails(heap[q.ctx].coro)
        /\ Complete(q, "error")
        /\ UNCHANGED sock
     \/ /\ sock[Peer(q)] = "gone"
        /\ Receive(heap[q.ctx].coro) \/ UNCHANGED ringVars
        /\ Complete(q, "eof")
        /\ UNCHANGED sock
  /\ UNCHANGED <<http, file>>

KernelSends(q) ==
  /\ q.op = "send"
  /\ \/ /\ sock[Peer(q)] # "gone"
        /\ Complete(q, "sent")
        /\ sock' = [sock EXCEPT ![Peer(q)] = "idle"]
     \/ /\ sock[Peer(q)] = "gone"
        /\ Complete(q, "error")
        /\ UNCHANGED sock
  /\ UNCHANGED <<ringVars, http, file>>

KernelCloses(q) ==
  /\ q.op = "close"
  /\ Complete(q, "closed")
  /\ sock' = [sock EXCEPT ![Peer(q)] = "none"]
  /\ file' = [file EXCEPT ![q.fd] = None]
  /\ UNCHANGED <<ringVars, http>>

Kernel(x) == \E q \in inflight : /\ q.ctx = x
                                 /\ KernelRecvs(q) \/ KernelSends(q) \/ KernelCloses(q)
-----------------------------------------------------------------------------
(* The scheduler: submission and completions                               *)

SchedulerSubmits == Submit /\ UNCHANGED <<ringVars, http, net>>
SchedulerPolls(x) == PollIo(x) /\ UNCHANGED <<ringVars, http, net>>

(* Mutant: the handler is created and not scheduled. *)
OnAcceptCallback_NoSchedule(res) ==
  \E e \in MultiEvents, h \in Handlers :
    /\ e.res = res /\ res # "error" /\ stage[h] = "free"
    /\ cq' = cq \ {e}
    /\ stage' = [stage EXCEPT ![h] = "start"]
    /\ fdOf' = [fdOf EXCEPT ![h] = res]
    /\ UNCHANGED <<heap, sq, inflight, awaiting, ready, ringVars, net>>

(* poll() of a TAG_MULTI completion: on_accept_callback() schedules a      *)
(* handler, or reports the error; it does not arm the accept again.        *)
OnAcceptCallback(res) ==
  \E e \in MultiEvents :
    /\ e.res = res
    /\ cq' = cq \ {e}
    /\ \/ /\ res = "error"
          /\ UNCHANGED <<http, ready>>
       \/ LET h == CHOOSE c \in Handlers : stage[c] = "free"
          IN  /\ res # "error"
              /\ \E c \in Handlers : stage[c] = "free"
              /\ stage' = [stage EXCEPT ![h] = "start"]
              /\ fdOf' = [fdOf EXCEPT ![h] = res]
              /\ ready' = ready \cup {h}
    /\ UNCHANGED <<heap, sq, inflight, awaiting, ringVars, net>>
-----------------------------------------------------------------------------
(* handle_client()                                                         *)

(* A handler is resumed at one await and goes on to the request of the     *)
(* next, having freed the context of the last.                             *)
Resumed(h, at) == /\ h \in ready /\ stage[h] = at
                  /\ ready' = ready \ {h}

Awaits(h, op, hp) == /\ Request(h, op, fdOf[h], hp)
                     /\ stage' = [stage EXCEPT ![h] = op]
                     /\ UNCHANGED <<inflight, cq, fdOf, net>>

Start(h) ==
  /\ Resumed(h, "start")
  /\ Awaits(h, "recv", heap)
  /\ UNCHANGED ringVars

(* The buffer, if there is one, is returned before the result is tested. *)
GiveBack(h) == \/ ReturnBuffer(h)
               \/ SeesError(h)
               \/ got[h] = NoBuffer /\ UNCHANGED ringVars

(* Mutant: the result is not tested. *)
AfterRecv_NoTest(h) ==
  /\ Resumed(h, "recv")
  /\ GiveBack(h)
  /\ Awaits(h, "send", AfterDelete(h))

(* Mutant: the result is tested first, and the loop left with the buffer.  *)
AfterRecv_TestFirst(h) ==
  /\ Resumed(h, "recv")
  /\ \/ /\ Result(h) = "data"
        /\ GiveBack(h)
        /\ Awaits(h, "send", AfterDelete(h))
     \/ /\ Result(h) # "data"
        /\ \/ SeesError(h)
           \/ got[h] # ENOBUFS /\ UNCHANGED ringVars
        /\ Awaits(h, "close", AfterDelete(h))

AfterRecv(h) ==
  /\ Resumed(h, "recv")
  /\ GiveBack(h)
  /\ Awaits(h, IF Result(h) = "data" THEN "send" ELSE "close", AfterDelete(h))

(* Mutant: a send that fails ends the coroutine without the close. *)
AfterSend_Return(h) ==
  /\ Resumed(h, "send")
  /\ \/ /\ Result(h) # "error"
        /\ Awaits(h, "recv", AfterDelete(h))
     \/ /\ Result(h) = "error"
        /\ heap' = AfterDelete(h)
        /\ awaiting' = [awaiting EXCEPT ![h] = None]
        /\ stage' = [stage EXCEPT ![h] = "free"]
        /\ fdOf' = [fdOf EXCEPT ![h] = None]
        /\ UNCHANGED <<sq, inflight, cq, net>>
  /\ UNCHANGED ringVars

AfterSend(h) ==
  /\ Resumed(h, "send")
  /\ Awaits(h, IF Result(h) = "error" THEN "close" ELSE "recv", AfterDelete(h))
  /\ UNCHANGED ringVars

(* The coroutine ends, and its frame with it. *)
AfterClose(h) ==
  /\ Resumed(h, "close")
  /\ heap' = AfterDelete(h)
  /\ awaiting' = [awaiting EXCEPT ![h] = None]
  /\ stage' = [stage EXCEPT ![h] = "free"]
  /\ fdOf' = [fdOf EXCEPT ![h] = None]
  /\ UNCHANGED <<sq, inflight, cq, ringVars, net>>

HandleClient(h) == Start(h) \/ AfterRecv(h) \/ AfterSend(h) \/ AfterClose(h)
-----------------------------------------------------------------------------
Next == \/ \E k \in Clients : ClientSends(k) \/ ClientLeaves(k)
        \/ \E k \in Clients : KernelAccepts(k)
        \/ KernelAcceptFails
        \/ \E x \in Ctxs : Kernel(x) \/ SchedulerPolls(x)
        \/ SchedulerSubmits
        \/ \E res \in Fds \cup {"error"} : OnAcceptCallback(res)
        \/ \E h \in Handlers : HandleClient(h)

Spec == Init /\ [][Next]_vars

(* The scheduler's thread keeps running, every completion is polled and    *)
(* every ready coroutine resumed; the kernel completes what it can.        *)
Fairness == /\ WF_vars(SchedulerSubmits)
            /\ \A res \in Fds \cup {"error"} : WF_vars(OnAcceptCallback(res))
            /\ \A x \in Ctxs : WF_vars(Kernel(x)) /\ WF_vars(SchedulerPolls(x))
            /\ \A h \in Handlers : WF_vars(HandleClient(h))

FairSpec == Spec /\ Fairness
-----------------------------------------------------------------------------
Requests == [op : {"recv", "send", "close"}, fd : Fds, ctx : Ctxs]
              \cup {AcceptMultishot}

(* The variables keep their types. *)
TypeOK ==
  /\ heap \in [Ctxs -> Contexts(Results) \cup {None}]
  /\ sq \subseteq Requests /\ inflight \subseteq Requests
  /\ cq \subseteq [tag : {"TAG_IO"}, ctx : Ctxs, res : Results]
                    \cup [tag : {"TAG_MULTI"}, ctx : {None}, res : Fds \cup {"error"}]
  /\ awaiting \in [Coros -> Ctxs \cup {None}]
  /\ ready \subseteq Coros
  /\ RingTypeOK
  /\ stage \in [Handlers -> {"free", "start", "recv", "send", "close"}]
  /\ fdOf \in [Handlers -> Fds \cup {None}]
  /\ file \in [Fds -> Clients \cup {None}]
  /\ sock \in [Clients -> {"none", "request", "served", "idle", "gone"}]

(* A handler whose close has not been done by the kernel. *)
Owns(h, fd) == /\ fdOf[h] = fd
               /\ ~(stage[h] = "close" /\ \A q \in sq \cup inflight : q.ctx # awaiting[h])

(* No descriptor leaks and none is used by two: an open one belongs to one *)
(* handler, or to the completion that will start it, and a handler that    *)
(* has not closed its descriptor finds it open.                            *)
DescriptorsOwned ==
  \A fd \in Fds :
    Cardinality({h \in Handlers : Owns(h, fd)} \cup {e \in cq : e.tag = "TAG_MULTI" /\ e.res = fd})
      = IF file[fd] = None THEN 0 ELSE 1

(* A response goes to the client whose request the handler has read, even  *)
(* when the descriptor has been reused.                                    *)
AnswersItsClient ==
  \A q \in sq \cup inflight :
    q.op = "send" => Peer(q) # None /\ sock[Peer(q)] \in {"served", "gone"}

(* A handler keeps a buffer only from the completion of its receive to its *)
(* next step, on every path out of the loop: also when the receive that    *)
(* brought it found the connection closed.                                 *)
BuffersReturned == \A h \in Handlers : got[h] # NoBuffer => stage[h] = "recv"

(* What a handler that has been started waits for: its turn, the          *)
(* submission, the kernel or poll().                                       *)
Ask(h) == [op |-> stage[h], fd |-> fdOf[h], ctx |-> awaiting[h]]
SqHas(h) == Ask(h) \in sq
KernelHas(h) == Ask(h) \in inflight
CqHas(h) == \E e \in cq : e.tag = "TAG_IO" /\ e.ctx = awaiting[h]

IsAt(h, place) == \/ place = "ready" /\ h \in ready
                  \/ place = "sq" /\ SqHas(h)
                  \/ place = "kernel" /\ KernelHas(h)
                  \/ place = "cq" /\ CqHas(h)

(* Nobody but its queue or its request knows a detached handler, so it is  *)
(* always in exactly one place that will resume it: none is forgotten when *)
(* it is handed from accept to the queue, to the request, through poll()   *)
(* and back, and none is resumed twice, though contexts, frames and        *)
(* descriptors are used again.                                             *)
NoneStranded ==
  \A h \in Handlers : stage[h] # "free" =>
    Cardinality({place \in {"ready", "sq", "kernel", "cq"} : IsAt(h, place)}) = 1

(* recv_direct(), send_direct(), close_direct() and the accepts write to   *)
(* the entry that io_uring_get_sqe() returns and never test that there is  *)
(* one, as send_msg_ring() does (src/io_engine.cpp:139); nothing limits    *)
(* the handlers to the entries, and requests are submitted only when none  *)
(* of them is ready.  The specification goes on with the request added:    *)
(* past this point the program writes to a null pointer.                   *)
SqNeverFull == Cardinality(sq) <= SqSize

(* A request of a client that was accepted is answered, or its connection  *)
(* is closed; and that of a client that has left is closed.                *)
AnsweredOrClosed ==
  \A k \in Clients : Accepted(k) /\ sock[k] \in {"request", "gone"}
                       ~> sock[k] \in {"idle", "none"}
=============================================================================
