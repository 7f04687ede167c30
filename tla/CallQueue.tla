----------------------------- MODULE CallQueue -----------------------------
(***************************************************************************)
(* What the command queue of a pipelined connection promises to its        *)
(* callers, whichever implementation is selected (ring.go or               *)
(* flowbuffer.go): at most Capacity calls are on the connection at a time, *)
(* they are put on the wire one after the other, and the replies, which    *)
(* Redis sends in the order of the commands, complete the calls in exactly *)
(* that order.                                                             *)
(***************************************************************************)
EXTENDS Naturals, Sequences, FiniteSets

CONSTANTS Callers,     \* goroutines that call Do or DoMulti
          Capacity     \* number of slots of the queue

VARIABLES queued,      \* calls accepted by the queue, not yet taken for writing
          order        \* calls taken for writing and not yet answered, oldest first

vars == <<queued, order>>

InOrder == {order[i] : i \in DOMAIN order}

Init == queued = {} /\ order = <<>>

\* The interface's PutOne and PutMulti return once there is room.
Accept(c) ==
    /\ c \notin queued \cup InOrder
    /\ Cardinality(queued \cup InOrder) < Capacity
    /\ queued' = queued \cup {c}
    /\ UNCHANGED order

\* The writer takes any accepted call.
Take(c) ==
    /\ c \in queued
    /\ queued' = queued \ {c}
    /\ order' = Append(order, c)

\* The oldest call on the wire gets its result and its slot is free again.
Complete ==
    /\ order # <<>>
    /\ order' = Tail(order)
    /\ UNCHANGED queued

Next == Complete \/ \E c \in Callers : Accept(c) \/ Take(c)

Spec == Init /\ [][Next]_vars
=============================================================================
