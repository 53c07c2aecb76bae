----------------------------- MODULE RingQueues -----------------------------
(***************************************************************************)
(* The two lock-free queues side by side: a behaviour is one of an MPMC    *)
(* queue or of an MPSC queue, and both implement BoundedFifo.              *)
(***************************************************************************)
EXTENDS RingBufferSlots

VARIABLE kind   \* "mpmc" or "mpsc", fixed in a behaviour

Mpmc == INSTANCE LockFreeMpmcQueue
Mpsc == INSTANCE LockFreeMpscQueue

QueuesInit == Init /\ kind \in {"mpmc", "mpsc"}

Next ==
    \/ kind = "mpmc" /\ Mpmc!MpmcNext /\ UNCHANGED kind
    \/ kind = "mpsc" /\ Mpsc!MpscNext /\ UNCHANGED kind

Spec == QueuesInit /\ [][Next]_<<vars, kind>>

Fifo == INSTANCE BoundedFifo
            WITH items <- IF kind = "mpmc" THEN Mpmc!Items ELSE Mpsc!Items,
                 given <- IF kind = "mpmc" THEN Mpmc!Given ELSE Mpsc!Given

\* Both queues are bounded FIFOs: nothing is lost, duplicated, reordered or
\* overwritten whatever the interleaving (push and pop of both queues).
IsBoundedFifo == Fifo!FSpec

-----------------------------------------------------------------------------
(* The byte ring, which no thread shares: pure operators, no state.        *)

Bytes == INSTANCE RingBuffer

\* The byte ring loses, duplicates and reorders nothing where it wraps
\* (RingBuffer::push, RingBuffer::pop).  TLC evaluates it once, in the initial states,
\* at every state of a ring of at most four bytes.
ByteRingIsFifo == Init => Bytes!IsByteFifo(4)
=============================================================================
