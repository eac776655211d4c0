----------------------------- MODULE BufferRing -----------------------------
(***************************************************************************)
(* The provided buffer ring of novaio::IoEngine (src/io_engine.cpp):       *)
(* setup_provided_buffer_ring() publishes BUF_RING_SIZE buffers, the       *)
(* kernel takes one for each receive that completes, the coroutine learns  *)
(* its id from the completion, uses it, and gives it back with             *)
(* return_buffer().                                                        *)
(*                                                                         *)
(* The entries of the ring hold buffer ids; the addresses follow from the  *)
(* ids (get_buffer()).  The kernel reads the entries below the tail, whose *)
(* width is 16 bits.                                                       *)
(***************************************************************************)
EXTENDS Naturals, FiniteSets

CONSTANTS BUF_RING_SIZE,  (* a power of two                                *)
          TailWrap,       (* values of the tail: 2^16 in the kernel's ABI  *)
          Receives,       (* coroutines that receive                       *)
          NoBuffer, ENOBUFS

ASSUME RingSizes == /\ BUF_RING_SIZE \in Nat \ {0}
                    /\ TailWrap \in Nat \ {0}
                    /\ TailWrap % BUF_RING_SIZE = 0
                    /\ TailWrap > BUF_RING_SIZE

ASSUME NoIds == /\ IsFiniteSet(Receives)
                /\ NoBuffer \notin 0..BUF_RING_SIZE-1
                /\ ENOBUFS \notin 0..BUF_RING_SIZE-1

VARIABLES
  bufs,   (* the id in each entry of the ring                              *)
  tail,   (* br_->tail                                                     *)
  khead,  (* the kernel's head                                             *)
  got     (* what the last receive of a coroutine brought: NoBuffer while  *)
          (* it has none, the id of the buffer it uses, or ENOBUFS         *)

ringVars == <<bufs, tail, khead, got>>

Buffers == 0..BUF_RING_SIZE-1
Holders == {r \in Receives : got[r] \in Buffers}

(* liburing: io_uring_buf_ring_add() fills the entry at the tail plus an   *)
(* offset, and leaves the tail alone; io_uring_buf_ring_advance() moves    *)
(* the tail.                                                               *)
EntryFor(offset) == (tail + offset) % BUF_RING_SIZE

Advanced(n) == (tail + n) % TailWrap

(* Mutant: the ids start at 1. *)
RingInit_FromOne == /\ bufs = [i \in Buffers |-> i + 1]
                    /\ tail = BUF_RING_SIZE % TailWrap
                    /\ khead = 0
                    /\ got = [r \in Receives |-> NoBuffer]

(* setup_provided_buffer_ring(): buffer i goes to entry 0 + i, and the     *)
(* tail then moves past all of them.                                       *)
RingInit == /\ bufs = [i \in Buffers |-> i]
            /\ tail = BUF_RING_SIZE % TailWrap
            /\ khead = 0
            /\ got = [r \in Receives |-> NoBuffer]
-----------------------------------------------------------------------------
(* The kernel's side: it completes a receive with the buffer at its head.  *)
(* The flags of the completion carry the id.                               *)
Receive(r) ==
  /\ got[r] = NoBuffer
  /\ khead # tail
  /\ got' = [got EXCEPT ![r] = bufs[khead % BUF_RING_SIZE]]
  /\ khead' = (khead + 1) % TailWrap
  /\ UNCHANGED <<bufs, tail>>

(* With no entry left, the receive completes with an error. *)
ReceiveFails(r) ==
  /\ got[r] = NoBuffer
  /\ khead = tail
  /\ got' = [got EXCEPT ![r] = ENOBUFS]
  /\ UNCHANGED <<bufs, tail, khead>>

(* The coroutine sees the error, which brought no buffer. *)
SeesError(r) ==
  /\ got[r] = ENOBUFS
  /\ got' = [got EXCEPT ![r] = NoBuffer]
  /\ UNCHANGED <<bufs, tail, khead>>

(* Mutant: the entry is filled and not published. *)
ReturnBuffer_NoAdvance(r) ==
  /\ got[r] \in Buffers
  /\ bufs' = [bufs EXCEPT ![EntryFor(tail)] = got[r]]
  /\ got' = [got EXCEPT ![r] = NoBuffer]
  /\ UNCHANGED <<tail, khead>>

(* return_buffer(): the offset passed is the tail itself, so the entry     *)
(* that is filled is at twice the tail, and the one that the advance       *)
(* publishes keeps what it had.                                            *)
ReturnBuffer(r) ==
  /\ got[r] \in Buffers
  /\ bufs' = [bufs EXCEPT ![EntryFor(tail)] = got[r]]
  /\ tail' = Advanced(1)
  /\ got' = [got EXCEPT ![r] = NoBuffer]
  /\ UNCHANGED khead

RingNext == \E r \in Receives : Receive(r) \/ ReceiveFails(r) \/ SeesError(r) \/ ReturnBuffer(r)

RingSpec == RingInit /\ [][RingNext]_ringVars
-----------------------------------------------------------------------------
(* The variables keep their types. *)
RingTypeOK == /\ bufs \in [Buffers -> Buffers]
              /\ tail \in 0..TailWrap-1 /\ khead \in 0..TailWrap-1
              /\ got \in [Receives -> Buffers \cup {NoBuffer, ENOBUFS}]

(* Entries the kernel may still take, and receives that have taken one and *)
(* not given it back, add up to the size of the ring through any number of *)
(* wraps of the 16-bit tail: return_buffer() publishes an entry each time, *)
(* and the kernel never takes one twice.  A receive thus fails only while  *)
(* BUF_RING_SIZE receives hold a buffer.  Which buffers those are is       *)
(* another matter: see HeldOnce and EmptyOnlyWhenAllUsed.                  *)
EntriesConserved ==
  ((tail + TailWrap - khead) % TailWrap) + Cardinality(Holders) = BUF_RING_SIZE

(* The echo test compares what it received with what it sent after the     *)
(* send has completed (examples/comprehensive_test.cpp:208): until it      *)
(* returns its buffer, no other receive is given the same one.             *)
HeldOnce == \A r, s \in Holders : r # s => got[r] # got[s]

(* The benchmark takes ENOBUFS for buffers that are used up, and waits     *)
(* (examples/production_benchmark_test.cpp:74): the kernel runs out of     *)
(* entries only while every buffer is in use.                              *)
EmptyOnlyWhenAllUsed == khead = tail => {got[r] : r \in Holders} = Buffers
=============================================================================
