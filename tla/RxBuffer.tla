------------------------------ MODULE RxBuffer -----------------------------
(***************************************************************************)
(* rx_buffer.cc: the ring of received words between the DMA driver and the *)
(* data server.  One slot stays empty; a word that finds the ring full is  *)
(* counted and dropped.  Words are numbered in the order they arrive, 0 is *)
(* the contents of a slot never written.                                   *)
(***************************************************************************)
EXTENDS RingIndex

CONSTANT MaxWords   \* words that arrive, a bound for model checking

ASSUME MaxWordsAssumption == MaxWords \in Nat

VARIABLES
  head, tail,  \* G_HEAD, G_TAIL
  data,        \* G_DATA
  lost,        \* G_LOST
  max,         \* G_MAX
  arrived,     \* words offered to rx_buffer_in so far
  taken        \* history: words rx_buffer_out has returned

bufferVars == <<head, tail, data, lost, max, arrived, taken>>

Word == 0..MaxWords

BufferTypeOK ==
  /\ head \in Index /\ tail \in Index
  /\ data \in [Index -> Word]
  /\ lost \in Word /\ max \in 0..N-1
  /\ arrived \in Word /\ taken \in Word

BufferInit ==
  /\ head = 0 /\ tail = 0
  /\ data = [i \in Index |-> 0]
  /\ lost = 0 /\ max = 0 /\ arrived = 0 /\ taken = 0

\* rx_buffer_count
Count == Distance(tail, head)

Full == NextSlot(head) = tail

\* A bug to test against: the word is stored at the tail.
RxInAtTail ==
  /\ arrived < MaxWords
  /\ arrived' = arrived + 1
  /\ IF Full
       THEN /\ lost' = lost + 1
            /\ UNCHANGED <<head, data, max>>
       ELSE /\ data' = [data EXCEPT ![tail] = arrived + 1]
            /\ head' = NextSlot(head)
            /\ max' = IF Count + 1 > max THEN Count + 1 ELSE max
            /\ lost' = lost
  /\ UNCHANGED <<tail, taken>>

\* rx_buffer_in of the next word to arrive.
RxIn ==
  /\ arrived < MaxWords
  /\ arrived' = arrived + 1
  /\ IF Full
       THEN /\ lost' = lost + 1
            /\ UNCHANGED <<head, data, max>>
       ELSE /\ data' = [data EXCEPT ![head] = arrived + 1]
            /\ head' = NextSlot(head)
            /\ max' = IF Count + 1 > max THEN Count + 1 ELSE max
            /\ lost' = lost
  /\ UNCHANGED <<tail, taken>>

\* A bug to test against: the tail does not move over the wrap.
RxOutKeepsTail ==
  /\ Count # 0
  /\ tail' = IF tail = N-1 THEN tail ELSE tail + 1
  /\ taken' = taken + 1
  /\ UNCHANGED <<head, data, lost, max, arrived>>

\* rx_buffer_out of data[tail], the ring not being empty.
RxOut ==
  /\ Count # 0
  /\ tail' = NextSlot(tail)
  /\ taken' = taken + 1
  /\ UNCHANGED <<head, data, lost, max, arrived>>

-----------------------------------------------------------------------------
\* The words in the ring, oldest first.
InRing(k) == data[Ahead(tail, k - 1)]

\* Every word that arrived is in the ring, was returned or was counted lost,
\* and the ring holds its words in the order they arrived: rx_buffer_in and
\* rx_buffer_out over the wrap of the ring.
NothingVanishes ==
  /\ arrived = lost + Count + taken
  /\ \A k, m \in 1..Count : k < m => InRing(k) < InRing(m)

=============================================================================
