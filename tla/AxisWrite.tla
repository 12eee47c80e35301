----------------------------- MODULE AxisWrite -----------------------------
(***************************************************************************)
(* axis_write: the three beats of buffer between a producer and an AXI     *)
(* stream.  BUSY_O is registered, so the producer sees it an edge late and *)
(* has one beat more under way when it stops.                              *)
(***************************************************************************)
EXTENDS Integers, Sequences

CONSTANT Depth   \* beats the buffer holds, the length of dbuf

ASSUME DepthAssumption == Depth \in Nat /\ Depth >= 3

VARIABLES
  fifo,   \* dbuf and lbuf up to depth; its head is on the stream
  busy    \* BUSY_O

axisVars == <<fifo, busy>>

AxisInit == fifo = <<>> /\ busy = FALSE

\* TVALID
Offered == fifo # <<>>

BusyAfter(used) == IF busy THEN used >= Depth ELSE used > 1

\* One edge: the beat on the stream leaves if the consumer is ready, then the
\* producer's beat enters if there is room.
AxisEdge(wen, beat, tready) ==
  LET left == IF Offered /\ tready THEN Tail(fifo) ELSE fifo
  IN /\ fifo' = IF wen /\ Len(left) < Depth THEN Append(left, beat) ELSE left
     /\ busy' = BusyAfter(Len(fifo'))

=============================================================================
