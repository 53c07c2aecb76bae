------------------------- MODULE LockFreeMpscQueue -------------------------
(***************************************************************************)
(* LockFreeMpscQueue: the mailbox, the dead-letter queue and the event     *)
(* loop's pending operations.  Only Owner pops; push is in module          *)
(* RingBufferSlots.                                                        *)
(***************************************************************************)
EXTENDS RingBufferSlots

PopBegin(c) ==
    /\ pc[c] = "idle"
    /\ pos' = [pos EXCEPT ![c] = head]
    /\ Goto(c, "popSeq")
    /\ UNCHANGED <<head, tail, slotVars, msg, out, calls>>

\* Seeded fault: a reserved slot is taken for a published one.
PopReadSequenceEarly(c) ==
    /\ pc[c] = "popSeq"
    /\ Goto(c, IF tail > pos[c] THEN "move" ELSE "idle")
    /\ UNCHANGED <<head, tail, slotVars, pos, msg, out, calls>>

PopReadSequence(c) ==
    /\ pc[c] = "popSeq"
    /\ Goto(c, IF sequence[Slot(pos[c])] = pos[c] + 1 THEN "move" ELSE "idle")
    /\ UNCHANGED <<head, tail, slotVars, pos, msg, out, calls>>

\* out = std::move(*element); element->~T()
PopMove(c) ==
    /\ pc[c] = "move"
    /\ out' = [out EXCEPT ![c] = element[Slot(pos[c])]]
    /\ element' = [element EXCEPT ![Slot(pos[c])] = NoValue]
    /\ Goto(c, "advance")
    /\ UNCHANGED <<head, tail, sequence, pos, msg, calls>>

PopAdvance(c) ==
    /\ pc[c] = "advance"
    /\ head' = pos[c] + 1
    /\ Goto(c, "release")
    /\ UNCHANGED <<tail, slotVars, pos, msg, out, calls>>

PopRelease(c) ==
    /\ pc[c] = "release"
    /\ sequence' = [sequence EXCEPT ![Slot(pos[c])] = pos[c] + Capacity]
    /\ out' = [out EXCEPT ![c] = NoValue]
    /\ Goto(c, "idle")
    /\ UNCHANGED <<head, tail, element, pos, msg, calls>>

PopStep(c) ==
    PopBegin(c) \/ PopReadSequence(c) \/ PopMove(c) \/ PopAdvance(c) \/ PopRelease(c)

MpscNext ==
    \/ \E p \in Producers : PushStep(p)
    \/ PopStep(Owner)

-----------------------------------------------------------------------------
(* As a FIFO: a push takes effect at its compare-and-swap of tail_, a pop  *)
(* at its store of head_; until then the element that was moved out is     *)
(* still first in line.                                                    *)
QueuedAt(i) == IF pc[Owner] = "advance" /\ pos[Owner] = i THEN out[Owner] ELSE ValueAt(i)

Items == [i \in 1 .. tail - head |-> QueuedAt(head + i - 1)]
Given == [c \in Consumers |-> IF pc[c] = "release" THEN out[c] ELSE NoValue]
=============================================================================
