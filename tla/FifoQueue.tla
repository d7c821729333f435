------------------------------- MODULE FifoQueue -------------------------------
(***************************************************************************)
(* What a bounded queue promises its users: elements leave in the order in  *)
(* which they were accepted, at most capacity of them wait at a time, an    *)
(* element is lost only to the DropOldest policy (the oldest one, when the  *)
(* queue is full) or to clear(), and a closed queue accepts nothing.        *)
(***************************************************************************)
EXTENDS Integers, Sequences

CONSTANTS Items, capacity

VARIABLES q, closed, drop_policy

Init == q = <<>> /\ closed = FALSE

Accept(x) ==
    /\ ~closed /\ Len(q) < capacity
    /\ q' = Append(q, x)
    /\ UNCHANGED closed

AcceptAndEvict(x) ==
    /\ drop_policy = "DropOldest"
    /\ ~closed /\ Len(q) = capacity
    /\ q' = Append(Tail(q), x)
    /\ UNCHANGED closed

(* The n oldest elements leave: a pop, a batch, or clear(). *)
Leave(n) ==
    /\ q' = SubSeq(q, n + 1, Len(q))
    /\ UNCHANGED closed

Close == closed' = TRUE /\ UNCHANGED q

Next ==
    \/ \E x \in Items : Accept(x) \/ AcceptAndEvict(x)
    \/ \E n \in 1..Len(q) : Leave(n)
    \/ Close

Spec == Init /\ [][Next /\ UNCHANGED drop_policy]_<<q, closed, drop_policy>>
=============================================================================
