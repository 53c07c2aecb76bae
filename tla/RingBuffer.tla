----------------------------- MODULE RingBuffer -----------------------------
(***************************************************************************)
(* The byte ring of core/common/container: a buffer, a head, a tail and a  *)
(* count.  Push and Pop copy at most two chunks, up to the end of the      *)
(* buffer and from its start.  They are pure operators: a ring is a record *)
(* and the result is a record with the new ring.                           *)
(***************************************************************************)
EXTENDS Naturals, Sequences, FiniteSetsExt

Size(r) == Len(r.buffer)
FreeSpace(r) == Size(r) - r.count

\* memcpy(&buffer_[at], data + from, n); buffer_ counts from 0.
Copied(buffer, at, data, from, n) ==
    [i \in DOMAIN buffer |-> IF i - 1 \in at .. (at + n - 1) THEN data[i - at + from] ELSE buffer[i]]

\* Seeded fault: the chunk that wrapped is copied from the start of the data.
PushRewindsData(r, data) ==
    LET n     == Len(data)
        first == Min({n, Size(r) - r.head})
    IN
    IF n = 0 THEN [ring |-> r, result |-> "InvalidArg"]
    ELSE IF n > FreeSpace(r) THEN [ring |-> r, result |-> "Fail"]
    ELSE
         [ring |-> [r EXCEPT !.buffer = Copied(Copied(@, r.head, data, 0, first), 0, data, 0, n - first),
                             !.head = (@ + n) % Size(r),
                             !.count = @ + n],
          result |-> "Ok"]

Push(r, data) ==
    LET n     == Len(data)
        first == Min({n, Size(r) - r.head})
    IN
    IF n = 0 THEN [ring |-> r, result |-> "InvalidArg"]
    ELSE IF n > FreeSpace(r) THEN [ring |-> r, result |-> "Fail"]
    ELSE
         [ring |-> [r EXCEPT !.buffer = Copied(Copied(@, r.head, data, 0, first), 0, data, first, n - first),
                             !.head = (@ + n) % Size(r),
                             !.count = @ + n],
          result |-> "Ok"]

Pop(r, n) ==
    LET first == Min({n, Size(r) - r.tail}) IN
    IF n = 0 THEN [ring |-> r, out |-> <<>>, result |-> "InvalidArg"]
    ELSE IF n > r.count THEN [ring |-> r, out |-> <<>>, result |-> "Fail"]
    ELSE
         [ring |-> [r EXCEPT !.tail = (@ + n) % Size(r), !.count = @ - n],
          out  |-> SubSeq(r.buffer, r.tail + 1, r.tail + first) \o SubSeq(r.buffer, 1, n - first),
          result |-> "Ok"]

Reset(r) == [r EXCEPT !.head = 0, !.tail = 0, !.count = 0]

-----------------------------------------------------------------------------
(* Reference: a ring holds a sequence of bytes, oldest first.              *)

Contents(r) == [i \in 1 .. r.count |-> r.buffer[((r.tail + i - 1) % Size(r)) + 1]]

Rings(cap) ==
    {[buffer |-> [i \in 1 .. cap |-> 10 * i], tail |-> t, count |-> k, head |-> (t + k) % cap] :
        t \in 0 .. (cap - 1), k \in 0 .. cap}

Data(n) == [i \in 1 .. n |-> i]

\* At every position of head and tail and every fill of a ring of up to MaxCapacity
\* bytes, Push appends all of the data or refuses it whole, Pop takes the oldest
\* bytes in order or none, and a Reset leaves an empty ring whose next Push and Pop
\* return what went in (RingBuffer::push, pop, reset).
IsByteFifo(MaxCapacity) ==
    \A cap \in 1 .. MaxCapacity : \A r \in Rings(cap), n \in 0 .. (MaxCapacity + 1) :
        LET pushed == Push(r, Data(n))
            popped == Pop(r, n)
            fresh  == Push(Reset(r), Data(n))
        IN
        /\ Contents(pushed.ring) = IF n <= FreeSpace(r) THEN Contents(r) \o Data(n) ELSE Contents(r)
        /\ pushed.result = "Ok" <=> n \in 1 .. FreeSpace(r)
        /\ popped.out \o Contents(popped.ring) = Contents(r)
        /\ popped.result = "Ok" <=> n \in 1 .. r.count
        /\ Len(popped.out) = IF n <= r.count THEN n ELSE 0
        /\ n \in 1 .. cap => Pop(fresh.ring, n).out = Data(n)
=============================================================================
