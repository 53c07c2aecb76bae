------------------------- MODULE LockFreeMpmcQueue -------------------------
(***************************************************************************)
(* LockFreeMpmcQueue: the queue of a worker, popped by the worker and by   *)
(* thieves.  push is in RingBufferSlots.                                   *)
(***************************************************************************)
EXTENDS RingBufferSlots

PopBegin(c) ==
    /\ pc[c] = "idle"
    /\ pos' = [pos EXCEPT ![c] = head]
    /\ Goto(c, "popSeq")
    /\ UNCHANGED <<head, tail, slotVars, msg, out, calls>>

\* diff = sequence - (pos + 1): take at 0, give up below, reload above.
PopReadSequence(c) ==
    /\ pc[c] = "popSeq"
    /\ LET diff == sequence[Slot(pos[c])] - (pos[c] + 1)
       IN  Goto(c, IF diff = 0 THEN "popCas" ELSE IF diff < 0 THEN "idle" ELSE "popReload")
    /\ UNCHANGED <<head, tail, slotVars, pos, msg, out, calls>>

PopReload(c) ==
    /\ pc[c] = "popReload"
    /\ pos' = [pos EXCEPT ![c] = head]
    /\ Goto(c, "popSeq")
    /\ UNCHANGED <<head, tail, slotVars, msg, out, calls>>

\* Seeded fault: head_ is stored, not swapped, so two consumers take one slot.
PopClaimStore(c) ==
    /\ pc[c] = "popCas"
    /\ head' = pos[c] + 1
    /\ Goto(c, "move")
    /\ UNCHANGED <<tail, slotVars, pos, msg, out, calls>>

PopClaim(c) ==
    /\ pc[c] = "popCas"
    /\ \/ /\ head = pos[c]
          /\ head' = pos[c] + 1
          /\ Goto(c, "move")
          /\ UNCHANGED pos
       \/ /\ pos' = [pos EXCEPT ![c] = head]
          /\ Goto(c, "popSeq")
          /\ UNCHANGED head
    /\ UNCHANGED <<tail, slotVars, msg, out, calls>>

\* out = std::move(*element); element->~T()
PopMove(c) ==
    /\ pc[c] = "move"
    /\ out' = [out EXCEPT ![c] = element[Slot(pos[c])]]
    /\ element' = [element EXCEPT ![Slot(pos[c])] = NoValue]
    /\ Goto(c, "release")
    /\ UNCHANGED <<head, tail, sequence, pos, msg, calls>>

\* Seeded fault: the slot is given back to the lap before, not the next one.
PopReleaseBackward(c) ==
    /\ pc[c] = "release"
    /\ sequence' = [sequence EXCEPT ![Slot(pos[c])] = pos[c] - Capacity]
    /\ out' = [out EXCEPT ![c] = NoValue]
    /\ Goto(c, "idle")
    /\ UNCHANGED <<head, tail, element, pos, msg, calls>>

PopRelease(c) ==
    /\ pc[c] = "release"
    /\ sequence' = [sequence EXCEPT ![Slot(pos[c])] = pos[c] + Capacity]
    /\ out' = [out EXCEPT ![c] = NoValue]
    /\ Goto(c, "idle")
    /\ UNCHANGED <<head, tail, element, pos, msg, calls>>

PopStep(c) ==
    \/ PopBegin(c) \/ PopReadSequence(c) \/ PopReload(c) \/ PopClaim(c)
    \/ PopMove(c) \/ PopRelease(c)

MpmcNext ==
    \/ \E p \in Producers : PushStep(p)
    \/ \E c \in Consumers : PopStep(c)

-----------------------------------------------------------------------------
(* As a FIFO: a push takes effect at its compare-and-swap of tail_, a pop  *)
(* at its compare-and-swap of head_.                                       *)
Items == [i \in 1 .. tail - head |-> ValueAt(head + i - 1)]
Given == [c \in Consumers |-> IF pc[c] = "move" THEN element[Slot(pos[c])] ELSE out[c]]
=============================================================================
