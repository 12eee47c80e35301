---------------------------- MODULE BoundedFifo ----------------------------
(***************************************************************************)
(* A bounded queue: elements leave in the order they entered, each exactly *)
(* once, and there are never more than Capacity of them.                   *)
(***************************************************************************)
EXTENDS Naturals, Sequences

CONSTANTS
  Elem,      \* what the queue holds
  Capacity,  \* how many at most
  InitQ,     \* what it holds at the start
  InitOut    \* what is shown before anything has left

VARIABLES
  q,         \* the elements, oldest first
  out        \* the element that left last

vars == <<q, out>>

Init == q = InitQ /\ out = InitOut

Put(e) == Len(q) < Capacity /\ q' = Append(q, e) /\ out' = out

Get == q # <<>> /\ out' = Head(q) /\ q' = Tail(q)

Next == (\E e \in Elem : Put(e)) \/ Get

Spec == Init /\ [][Next]_vars

\* Whatever is queued leaves.
FairSpec == Spec /\ WF_vars(Get)

=============================================================================
