----------------------------- MODULE RingIndex -----------------------------
(***************************************************************************)
(* Indices of a ring of N slots: the successor, the slot k places on, and  *)
(* how many places one slot is ahead of another.  Shared by the rings of   *)
(* DMA buffer descriptors, of received words and of words to send.         *)
(***************************************************************************)
EXTENDS Integers

CONSTANT N   \* slots in the ring

ASSUME NAssumption == N \in Nat /\ N >= 2

Index == 0 .. N-1
NextSlot(i) == IF i = N-1 THEN 0 ELSE i + 1
Ahead(i, k) == IF i + k >= N THEN i + k - N ELSE i + k
Distance(i, j) == IF j >= i THEN j - i ELSE j - i + N

=============================================================================
