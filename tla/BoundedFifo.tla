---------------------------- MODULE BoundedFifo ----------------------------
(***************************************************************************)
(* What std.sync.chan and std.sync.ring promise: a queue of at most `cap'  *)
(* values that accepts values while it is open, gives them out oldest      *)
(* first, and never reopens once closed.  `out' is what it gave out, in    *)
(* order.  Chan implements Spec, Ring the queue that can also be emptied.  *)
(***************************************************************************)
EXTENDS Naturals, Sequences

CONSTANTS Values
VARIABLES cap, q, out, closed, dead

vars == <<cap, q, out, closed, dead>>

Init == cap \in Nat \ {0} /\ q = <<>> /\ out = <<>> /\ closed = FALSE /\ dead = FALSE

\* The size is settled before the first value goes in.
Size == q = <<>> /\ ~closed /\ ~dead /\ cap' > cap /\ UNCHANGED <<q, out, closed, dead>>

Put(v) ==
    /\ ~dead /\ ~closed /\ Len(q) < cap
    /\ q' = Append(q, v)
    /\ UNCHANGED <<cap, out, closed, dead>>

Take ==
    /\ ~dead /\ q # <<>>
    /\ q' = Tail(q) /\ out' = Append(out, Head(q))
    /\ UNCHANGED <<cap, closed, dead>>

Close == ~dead /\ closed' = TRUE /\ UNCHANGED <<cap, q, out, dead>>

Drop == ~dead /\ dead' = TRUE /\ q' = <<>> /\ UNCHANGED <<cap, out, closed>>

\* Emptied and as new.
Clear == ~dead /\ q' = <<>> /\ out' = <<>> /\ UNCHANGED <<cap, closed, dead>>

Next == Size \/ (\E v \in Values : Put(v)) \/ Take \/ Close \/ Drop

Spec == Init /\ [][Next]_vars
ClearableSpec == Init /\ [][Next \/ Clear]_vars
=============================================================================
