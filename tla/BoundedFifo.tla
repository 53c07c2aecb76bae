---------------------------- MODULE BoundedFifo ----------------------------
(***************************************************************************)
(* What the lock-free ring queues promise, without slots or sequence       *)
(* numbers: values leave in the order they were accepted, each exactly     *)
(* once, and no more than Capacity of them are inside.  A push or a pop    *)
(* may be refused at any time; when is a matter of the implementations.    *)
(***************************************************************************)
EXTENDS Naturals, Sequences

CONSTANTS Values, Consumers, Capacity, NoValue

VARIABLES items,  \* accepted and not yet taken, oldest first
          given   \* the value a consumer's pop is about to return

fVars == <<items, given>>

FInit == items = <<>> /\ given = [c \in Consumers |-> NoValue]

Accept(v) ==
    /\ Len(items) < Capacity
    /\ items' = Append(items, v)
    /\ UNCHANGED given

Take(c) ==
    /\ items # <<>> /\ given[c] = NoValue
    /\ given' = [given EXCEPT ![c] = Head(items)]
    /\ items' = Tail(items)

Return(c) ==
    /\ given[c] # NoValue
    /\ given' = [given EXCEPT ![c] = NoValue]
    /\ UNCHANGED items

FNext ==
    \/ \E v \in Values : Accept(v)
    \/ \E c \in Consumers : Take(c) \/ Return(c)

FSpec == FInit /\ [][FNext]_fVars
=============================================================================
