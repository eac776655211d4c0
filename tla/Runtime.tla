------------------------------ MODULE Runtime -------------------------------
(***************************************************************************)
(* novaio::Runtime and novaio::Scheduler (src/runtime.cpp,                 *)
(* src/scheduler.cpp, with IoEngine::poll() and send_msg_ring()): the      *)
(* schedulers' loops, the two ways of waking a coroutine of another        *)
(* scheduler, and stop().                                                  *)
(*                                                                         *)
(* A scheduler that has nothing to run waits in io_uring_wait_cqe(), for   *)
(* as long as it takes: it has no timers here (TimeWheel.tla has them) and *)
(* no I/O of its own.  It is woken by a completion that another ring sends *)
(* with a msg_ring request: TAG_INBOX after a task was pushed to its inbox *)
(* (dispatch_on()), or TAG_CORO with a coroutine to schedule (what         *)
(* CoMutex::unlock() sends).  A thread outside the runtime submits such a  *)
(* request at once; a scheduler only prepares it, and submits it when it   *)
(* has nothing to run, or when its submission queue is full.               *)
(*                                                                         *)
(* A task in an inbox is the coroutine it schedules, as in every use the   *)
(* repository makes of dispatch_on().  The inbox is a bounded queue whose  *)
(* push and pop are atomic (SpscQueue.tla shows when that is so).  The     *)
(* submission and completion queues are sets: their order decides only     *)
(* which coroutine is scheduled first, and one TAG_INBOX stands for any    *)
(* number of them, since the first empties the inbox.                      *)
(***************************************************************************)
EXTENDS Naturals, Sequences, SequencesExt, FiniteSets

CONSTANTS Scheds,          (* schedulers, one thread each                  *)
          Externals,       (* threads outside the runtime                  *)
          Main,            (* the one of them that calls stop()            *)
          Coros,           (* coroutines                                   *)
          HomeOf,          (* the scheduler a coroutine belongs to         *)
          Booted,          (* schedulers whose io_uring is already set up  *)
          InboxCapacity,   (* 65536 in the code                            *)
          LocalCapacity,   (* of local_queue_: 65536                       *)
          BATCH_PIPELINE_DEPTH,
          NoOp,            (* the task that stop() sends                   *)
          None, TAG_INBOX

ASSUME Setup == /\ Main \in Externals /\ Scheds \cap Externals = {}
                /\ HomeOf \in [Coros -> Scheds] /\ Booted \subseteq Scheds
                /\ InboxCapacity \in Nat \ {0} /\ LocalCapacity \in Nat \ {0}
                /\ BATCH_PIPELINE_DEPTH \in Nat \ {0}
                /\ NoOp \notin Coros /\ None \notin Coros /\ TAG_INBOX \notin Coros
                /\ NoOp # None

Threads == Scheds \cup Externals

VARIABLES
  running,      (* is_running_                                             *)
  pc,           (* where a scheduler is in run()                           *)
  initialized,  (* the schedulers whose IoEngine::initialized_ is set      *)
  inbox,        (* inbox_                                                  *)
  runnext,      (* runnext_                                                *)
  local,        (* local_queue_, from head_ to tail_                       *)
  batch,        (* the coroutines of this round still to be resumed        *)
  sq,           (* msg_ring requests prepared and not submitted            *)
  cq,           (* completions not yet polled                              *)
  call,         (* the call of dispatch_on() that a thread is in, or None  *)
  asleep,       (* coroutines that nobody has woken                        *)
  refused,      (* coroutines whose task found the inbox full              *)
  tostop        (* schedulers that stop() has yet to send its task to      *)

loop == <<pc, initialized, batch>>
queues == <<inbox, runnext, local>>
rings == <<sq, cq>>
vars == <<running, loop, queues, rings, call, asleep, refused, tostop>>

Init == /\ running = TRUE
        /\ pc = [s \in Scheds |-> IF s \in Booted THEN "check" ELSE "boot"]
        /\ initialized = Booted
        /\ inbox = [s \in Scheds |-> <<>>]
        /\ runnext = [s \in Scheds |-> None]
        /\ local = [s \in Scheds |-> <<>>]
        /\ batch = [s \in Scheds |-> <<>>]
        /\ sq = [s \in Scheds |-> {}]
        /\ cq = [s \in Scheds |-> {}]
        /\ call = [t \in Threads |-> None]
        /\ asleep = Coros /\ refused = {}
        /\ tostop = {}

Goto(s, from, to) == /\ pc[s] = from
                     /\ pc' = [pc EXCEPT ![s] = to]
-----------------------------------------------------------------------------
(* Scheduling on one's own scheduler.                                      *)

(* LocalQueue::push(), which does not look whether there is room: entries  *)
(* whose index is the same modulo the capacity are one slot.               *)
LocalPush(q, c) ==
  [i \in 1..Len(q) + 1 |-> IF (Len(q) + 1 - i) % LocalCapacity = 0 THEN c ELSE q[i]]

(* Scheduler::schedule() *)
Schedule(s, c) ==
  \/ /\ runnext[s] = None
     /\ runnext' = [runnext EXCEPT ![s] = c]
     /\ UNCHANGED local
  \/ /\ runnext[s] # None
     /\ local' = [local EXCEPT ![s] = LocalPush(@, c)]
     /\ UNCHANGED runnext
-----------------------------------------------------------------------------
(* Scheduler::run()                                                        *)

(* IoEngine::init() ends by setting initialized_. *)
Boot(s) ==
  /\ Goto(s, "boot", "check")
  /\ initialized' = initialized \cup {s}
  /\ UNCHANGED <<running, batch, queues, rings, call, asleep, refused, tostop>>

CheckRunning(s) ==
  /\ Goto(s, "check", IF running THEN "inbox" ELSE "exited")
  /\ UNCHANGED <<running, initialized, batch, queues, rings, call, asleep, refused, tostop>>

(* Mutant: every task is taken to have a coroutine. *)
ProcessInbox_NoTest(s) ==
  /\ pc[s] \in {"inbox", "drain"}
  /\ inbox[s] # <<>>
  /\ inbox' = [inbox EXCEPT ![s] = Tail(@)]
  /\ Schedule(s, Head(inbox[s]))
  /\ UNCHANGED <<running, loop, rings, call, asleep, refused, tostop>>

(* process_inbox(), called from run() or for a TAG_INBOX completion: a     *)
(* task is taken and run, until the inbox is empty.                        *)
ProcessInbox(s) ==
  /\ pc[s] \in {"inbox", "drain"}
  /\ inbox[s] # <<>>
  /\ inbox' = [inbox EXCEPT ![s] = Tail(@)]
  /\ IF Head(inbox[s]) = NoOp THEN UNCHANGED <<runnext, local>>
     ELSE Schedule(s, Head(inbox[s]))
  /\ UNCHANGED <<running, loop, rings, call, asleep, refused, tostop>>

(* Mutant: an if in place of the while. *)
InboxEmpty_OneTask(s) ==
  /\ Goto(s, "inbox", "dequeue") \/ Goto(s, "drain", "poll")
  /\ UNCHANGED <<running, initialized, batch, queues, rings, call, asleep, refused, tostop>>

InboxEmpty(s) ==
  /\ inbox[s] = <<>>
  /\ Goto(s, "inbox", "dequeue") \/ Goto(s, "drain", "poll")
  /\ UNCHANGED <<running, initialized, batch, queues, rings, call, asleep, refused, tostop>>

(* Mutant: runnext_ is read, and not cleared. *)
DequeueBatch_KeepNext(s) ==
  LET got == (IF runnext[s] = None THEN <<>> ELSE <<runnext[s]>>) \o local[s]
  IN /\ Goto(s, "dequeue", IF got = <<>> THEN "submit" ELSE "run")
     /\ batch' = [batch EXCEPT ![s] = got]
     /\ local' = [local EXCEPT ![s] = <<>>]
     /\ UNCHANGED <<running, initialized, inbox, runnext, rings, call, asleep, refused, tostop>>

(* try_dequeue_batch() *)
DequeueBatch(s) ==
  LET first == IF runnext[s] = None THEN <<>> ELSE <<runnext[s]>>
      room  == BATCH_PIPELINE_DEPTH - Len(first)
      n     == IF Len(local[s]) < room THEN Len(local[s]) ELSE room
      got   == first \o SubSeq(local[s], 1, n)
  IN /\ Goto(s, "dequeue", IF got = <<>> THEN "submit" ELSE "run")
     /\ batch' = [batch EXCEPT ![s] = got]
     /\ runnext' = [runnext EXCEPT ![s] = None]
     /\ local' = [local EXCEPT ![s] = SubSeq(@, n + 1, Len(@))]
     /\ UNCHANGED <<running, initialized, inbox, rings, call, asleep, refused, tostop>>

(* A coroutine of the batch has run until it waits for something.  In the  *)
(* meantime it may have woken others, in the ways below.  After the last   *)
(* one comes poll().                                                       *)
CoroutineSuspends(s) ==
  /\ call[s] = None
  /\ Goto(s, "run", IF Len(batch[s]) = 1 THEN "poll" ELSE "run")
  /\ asleep' = asleep \cup {Head(batch[s])}
  /\ batch' = [batch EXCEPT ![s] = Tail(@)]
  /\ UNCHANGED <<running, initialized, queues, rings, call, refused, tostop>>

(* The completions that the requests of scheduler s produce: each request  *)
(* puts its message in the ring it names.                                  *)
Delivered(s) ==
  [u \in Scheds |-> cq[u] \cup {m[2] : m \in {x \in sq[s] : x[1] = u}}]

(* Mutants: the requests are submitted again and again; never. *)
Submit_Keep(s) ==
  /\ Goto(s, "submit", "wait")
  /\ cq' = Delivered(s)
  /\ UNCHANGED <<running, initialized, batch, queues, sq, call, asleep, refused, tostop>>
Submit_WaitOnly(s) ==
  /\ Goto(s, "submit", "wait")
  /\ UNCHANGED <<running, initialized, batch, queues, rings, call, asleep, refused, tostop>>

(* Nothing to run: io_uring_submit(), and then the wait. *)
Submit(s) ==
  /\ Goto(s, "submit", "wait")
  /\ cq' = Delivered(s)
  /\ sq' = [sq EXCEPT ![s] = {}]
  /\ UNCHANGED <<running, initialized, batch, queues, call, asleep, refused, tostop>>

(* process_io_events(): io_uring_wait_cqe() returns. *)
WakeUp(s) ==
  /\ cq[s] # {}
  /\ Goto(s, "wait", "poll")
  /\ UNCHANGED <<running, initialized, batch, queues, rings, call, asleep, refused, tostop>>

(* IoEngine::poll(): a completion is handled... *)
PollOne(s) ==
  /\ pc[s] = "poll"
  /\ \E m \in cq[s] :
       /\ cq' = [cq EXCEPT ![s] = @ \ {m}]
       /\ \/ /\ m = TAG_INBOX
             /\ pc' = [pc EXCEPT ![s] = "drain"]
             /\ UNCHANGED <<runnext, local>>
          \/ /\ m # TAG_INBOX
             /\ Schedule(s, m)
             /\ UNCHANGED pc
  /\ UNCHANGED <<running, initialized, batch, inbox, sq, call, asleep, refused, tostop>>

(* ... until there is none. *)
PollDone(s) ==
  /\ cq[s] = {}
  /\ Goto(s, "poll", "check")
  /\ UNCHANGED <<running, initialized, batch, queues, rings, call, asleep, refused, tostop>>
-----------------------------------------------------------------------------
(* Waking a coroutine of one's own or of another scheduler.                *)

(* A thread that can make a call: a coroutine is running on the scheduler, *)
(* or the thread is outside the runtime and has not begun to stop it.      *)
Acting(t) == /\ call[t] = None
             /\ t \in Scheds => pc[t] = "run"
             /\ t = Main => running

(* schedule(), called by a coroutine for another of its scheduler. *)
WakeLocal(s, c) ==
  /\ Acting(s)
  /\ c \in asleep /\ HomeOf[c] = s
  /\ Schedule(s, c)
  /\ asleep' = asleep \ {c}
  /\ UNCHANGED <<running, loop, inbox, rings, call, refused, tostop>>

(* notify_target_ring(): a scheduler prepares the request in its own ring, *)
(* which may be full (its I/O requests are in it, too) and is submitted    *)
(* then; another thread uses a ring of its own and submits.                *)
NotifyTargetRing(t, s, msg) ==
  \/ /\ t \in Scheds
     /\ sq' = [sq EXCEPT ![t] = @ \cup {<<s, msg>>}]
     /\ UNCHANGED cq
  \/ /\ t \in Scheds
     /\ cq' = Delivered(t)
     /\ sq' = [sq EXCEPT ![t] = {<<s, msg>>}]
  \/ /\ t \in Externals
     /\ cq' = [cq EXCEPT ![s] = @ \cup {msg}]
     /\ UNCHANGED sq

(* What CoMutex::unlock() does for a waiter of another scheduler: it has   *)
(* run there, so that scheduler's ring exists.                             *)
WakeByRing(t, c) ==
  /\ Acting(t)
  /\ c \in asleep /\ HomeOf[c] # t /\ HomeOf[c] \in initialized
  /\ NotifyTargetRing(t, HomeOf[c], c)
  /\ asleep' = asleep \ {c}
  /\ UNCHANGED <<running, loop, queues, call, refused, tostop>>

(* push_inbox().  A task that finds no room is destroyed.  It held the     *)
(* only handle of the coroutine it was to schedule, and dispatch_on() does *)
(* not look at the result: nobody will wake that coroutine any more.       *)
PushInbox(t, s, task, next) ==
  /\ asleep' = asleep \ {task}
  /\ \/ /\ Len(inbox[s]) < InboxCapacity
        /\ inbox' = [inbox EXCEPT ![s] = Append(@, task)]
        /\ call' = [call EXCEPT ![t] = next]
        /\ UNCHANGED refused
     \/ /\ Len(inbox[s]) >= InboxCapacity
        /\ call' = [call EXCEPT ![t] = None]
        /\ refused' = refused \cup ({task} \ {NoOp})
        /\ UNCHANGED inbox

(* dispatch_on(s, task): the push, after which the thread looks whether    *)
(* the ring of s can be told.  Nothing orders that look at initialized_, a *)
(* plain field, after the push has become visible to s: it may come first. *)
DispatchOn(t, s, task) ==
  \/ PushInbox(t, s, task, [at |-> "fd", dest |-> s])
  \/ /\ s \notin initialized
     /\ call' = [call EXCEPT ![t] = [at |-> "late push", dest |-> s, task |-> task]]
     /\ asleep' = asleep \ {task}
     /\ UNCHANGED <<inbox, refused>>

Dispatch(t, c) ==
  /\ Acting(t)
  /\ c \in asleep
  /\ DispatchOn(t, HomeOf[c], c)
  /\ UNCHANGED <<running, loop, runnext, local, rings, tostop>>

DispatchLatePush(t) ==
  /\ call[t] # None /\ call[t].at = "late push"
  /\ PushInbox(t, call[t].dest, call[t].task, None)
  /\ UNCHANGED <<running, loop, runnext, local, rings, tostop>>

(* ring_fd() is negative when initialized_ is not set: there is then no    *)
(* message.                                                                *)
DispatchNotify(t) ==
  /\ call[t] # None /\ call[t].at = "fd"
  /\ call' = [call EXCEPT ![t] = None]
  /\ IF call[t].dest \in initialized THEN NotifyTargetRing(t, call[t].dest, TAG_INBOX)
     ELSE UNCHANGED rings
  /\ UNCHANGED <<running, loop, queues, asleep, refused, tostop>>
-----------------------------------------------------------------------------
(* Mutant: the schedulers are not woken. *)
StopFlag_NoWakeup ==
  /\ Acting(Main)
  /\ running' = FALSE
  /\ tostop' = {}
  /\ UNCHANGED <<loop, queues, rings, call, asleep, refused>>

(* Runtime::stop(): the flag, a task for every scheduler, and the joins,   *)
(* which wait until every scheduler has exited.                            *)
StopFlag ==
  /\ Acting(Main)
  /\ running' = FALSE
  /\ tostop' = Scheds
  /\ UNCHANGED <<loop, queues, rings, call, asleep, refused>>

StopDispatch(s) ==
  /\ s \in tostop
  /\ call[Main] = None
  /\ tostop' = tostop \ {s}
  /\ DispatchOn(Main, s, NoOp)
  /\ UNCHANGED <<running, loop, runnext, local, rings>>
-----------------------------------------------------------------------------
Run(s) == \/ Boot(s) \/ CheckRunning(s) \/ ProcessInbox(s) \/ InboxEmpty(s)
          \/ DequeueBatch(s) \/ CoroutineSuspends(s)
          \/ Submit(s) \/ WakeUp(s) \/ PollOne(s) \/ PollDone(s)

InDispatch(t) == DispatchLatePush(t) \/ DispatchNotify(t)

Next == \/ \E s \in Scheds : \/ Run(s)
                             \/ StopDispatch(s)
                             \/ \E c \in Coros : WakeLocal(s, c)
        \/ \E t \in Threads : \/ InDispatch(t)
                              \/ \E c \in Coros : WakeByRing(t, c) \/ Dispatch(t, c)
        \/ StopFlag

Spec == Init /\ [][Next]_vars

(* Threads run: a scheduler goes round its loop, a call that has begun is  *)
(* finished, and a coroutine does not run for ever.  The kernel delivers   *)
(* what is submitted (Delivered is part of the submission).                *)
Fairness == /\ \A s \in Scheds : WF_vars(Run(s))
            /\ \A s \in Scheds : SF_vars(CoroutineSuspends(s))
            /\ \A t \in Threads : WF_vars(InDispatch(t))
            /\ WF_vars(\E s \in Scheds : StopDispatch(s))

FairSpec == Spec /\ Fairness
-----------------------------------------------------------------------------
PCs == {"boot", "check", "inbox", "dequeue", "run", "submit", "wait", "poll",
        "drain", "exited"}

Calls == [at : {"fd"}, dest : Scheds]
         \cup [at : {"late push"}, dest : Scheds, task : Coros \cup {NoOp}]

ASSUME NoneIsNoCall == None \notin Calls

(* The variables keep their types. *)
TypeOK ==
  /\ running \in BOOLEAN
  /\ pc \in [Scheds -> PCs]
  /\ initialized \subseteq Scheds
  /\ inbox \in [Scheds -> Seq(Coros \cup {NoOp})]
  /\ runnext \in [Scheds -> Coros \cup {None}]
  /\ local \in [Scheds -> Seq(Coros)]
  /\ batch \in [Scheds -> Seq(Coros)]
  /\ sq \in [Scheds -> SUBSET (Scheds \X (Coros \cup {TAG_INBOX}))]
  /\ cq \in [Scheds -> SUBSET (Coros \cup {TAG_INBOX})]
  /\ call \in [Threads -> Calls \cup {None}]
  /\ asleep \subseteq Coros /\ refused \subseteq Coros
  /\ tostop \subseteq Scheds

(* A message that will wake scheduler s is in its completion queue, is     *)
(* prepared in another scheduler's ring, or is about to be sent.           *)
WakeupUnderWay(s) ==
  \/ cq[s] # {}
  \/ \E t \in Scheds : \E m \in sq[t] : m[1] = s
  \/ \E t \in Threads : call[t] = [at |-> "fd", dest |-> s]

(* A scheduler does not go to sleep, or stay asleep, on a task in its      *)
(* inbox that nobody is going to tell it of, though the inbox is examined  *)
(* some steps before the wait, and pushes may come in between.             *)
NoLostWakeup ==
  \A s \in Scheds : pc[s] \in {"dequeue", "submit", "wait"} /\ inbox[s] # <<>>
                      => WakeupUnderWay(s)

(* The places a coroutine is in: asleep, the argument of a dispatch_on()   *)
(* whose push is late, in a ring, at an index of a queue, or lost.         *)
Queued(s) == inbox[s] \o local[s] \o batch[s] \o
             (IF runnext[s] = None THEN <<>> ELSE <<runnext[s]>>)
LatePushes(c) == [at : {"late push"}, dest : Scheds, task : {c}]
Places(c) ==
  {<<"asleep", c, c>> : x \in asleep \cap {c}}
  \cup {<<"refused", c, c>> : x \in refused \cap {c}}
  \cup {<<"call", t, c>> : t \in {t \in Threads : call[t] \in LatePushes(c)}}
  \cup {<<"sq", p[1], p[2]>> : p \in {p \in Scheds \X Scheds : <<p[2], c>> \in sq[p[1]]}}
  \cup {<<"cq", s, c>> : s \in {s \in Scheds : c \in cq[s]}}
  \cup UNION {{<<"queue", s, i>> : i \in {i \in DOMAIN Queued(s) : Queued(s)[i] = c}} :
                s \in Scheds}

(* No coroutine is forgotten by the queues and rings but by an inbox that  *)
(* was full, and none is in two of them, to be resumed again after it has  *)
(* gone on (with local queues that are never over-filled).                 *)
OnePlace == \A c \in Coros : Cardinality(Places(c)) = 1

(* A scheduler submits requests only when it has nothing to run: the wake- *)
(* ups it sends depend on its becoming idle again and again.               *)
IdleOften == \A s \in Scheds : []<>(pc[s] \in {"submit", "wait", "exited"})

(* Then every coroutine that is woken, by whatever way and wherever it     *)
(* belongs, runs, unless the runtime is stopped.                           *)
EveryWakeupRuns ==
  IdleOften => \A c \in Coros : c \notin asleep ~> (c \in asleep \/ ~running)

(* stop() returns: every scheduler notices, the ones that sleep included.  *)
StopEnds == ~running ~> \A s \in Scheds : pc[s] = "exited"
=============================================================================
