------------------------------ MODULE TxBuffer -----------------------------
(***************************************************************************)
(* tx_buffer.cc: one ring of words per channel between the command server  *)
(* and the DMA driver.  One slot of each ring stays empty; a word that     *)
(* finds its ring full is counted and dropped.  A word is its number in    *)
(* the order of the calls of tx_buffer_in, 0 is a cleared slot.            *)
(***************************************************************************)
EXTENDS RingIndex, Sequences, FiniteSetsExt

CONSTANTS
  Channels,  \* TX_BUFFER_CHAN
  MaxWords   \* words offered, a bound for model checking

ASSUME ChannelsAssumption == Channels \in 1..62
ASSUME MaxWordsAssumption == MaxWords \in Nat

VARIABLES
  head, tail,  \* G_TX_BUFFER_HEAD, G_TX_BUFFER_TAIL
  data,        \* G_TX_BUFFER_DATA
  lost,        \* G_TX_LOST
  offered,     \* words offered to tx_buffer_in so far
  copies,      \* history: copies of them meant for a channel
  due,         \* history: the words each channel accepted and has not sent
  out          \* history: words tx_buffer_out has returned

bufferVars == <<head, tail, data, lost, offered, copies, due, out>>

Chan == 0 .. Channels - 1
Word == 0 .. MaxWords

BufferTypeOK ==
  /\ head \in [Chan -> Index] /\ tail \in [Chan -> Index]
  /\ data \in [Chan -> [Index -> Word]]
  /\ lost \in Nat /\ offered \in Word /\ copies \in Nat /\ out \in Nat
  /\ due \in [Chan -> Seq(Word)]

BufferInit ==
  /\ head = [c \in Chan |-> 0] /\ tail = [c \in Chan |-> 0]
  /\ data = [c \in Chan |-> [i \in Index |-> 0]]
  /\ lost = 0 /\ offered = 0 /\ copies = 0 /\ out = 0
  /\ due = [c \in Chan |-> <<>>]

\* tx_buffer_count
Count(c) == Distance(tail[c], head[c])

\* How often tx_buffer_in(chan, _) tries to put the word in the ring of c: 63
\* is a broadcast, 62 one that is played twice, and any other number that is
\* no channel is ignored.
Copies(chan, c) ==
  CASE chan \in Chan  -> IF c = chan THEN 1 ELSE 0
    [] chan = 63      -> 1
    [] chan = 62      -> 2
    [] OTHER          -> 0

\* How many of them find a free slot.
Accepted(chan, c) == Min({Copies(chan, c), N - 1 - Count(c)})

\* The sum of f over the channels, as the number of pairs of a channel c and
\* one of 1..f[c].
Total(f) == Cardinality(UNION {{c} \X (1..f[c]) : c \in Chan})

Missed(chan, c) == Copies(chan, c) - Accepted(chan, c)

\* tx_buffer_in of the next word; the replays of a broadcast loop over the
\* channels, each of which takes the copies it has room for.
TxIn(chan) ==
  /\ offered < MaxWords
  /\ offered' = offered + 1
  /\ data' = [c \in Chan |-> [i \in Index |->
                IF Distance(head[c], i) < Accepted(chan, c) THEN offered + 1 ELSE data[c][i]]]
  /\ head' = [c \in Chan |-> Ahead(head[c], Accepted(chan, c))]
  /\ due' = [c \in Chan |-> due[c] \o [k \in 1..Accepted(chan, c) |-> offered + 1]]
  /\ copies' = copies + Total([c \in Chan |-> Copies(chan, c)])
  /\ lost' = lost + Total([c \in Chan |-> Missed(chan, c)])
  /\ UNCHANGED <<tail, out>>

\* A bug to test against: the loop over the channels ends one early.
NonEmptyButLast == {c \in 0 .. Channels - 2 : Count(c) > 0}

NonEmpty == {c \in Chan : Count(c) > 0}

\* A bug to test against: the ring of the lowest channel alone moves on.
TxOutFirstOnly ==
  /\ NonEmpty # {}
  /\ tail' = [c \in Chan |-> IF c = Min(NonEmpty) THEN NextSlot(tail[c]) ELSE tail[c]]
  /\ due' = [c \in Chan |-> IF c \in NonEmpty THEN Tail(due[c]) ELSE due[c]]
  /\ out' = out + Cardinality(NonEmpty)
  /\ UNCHANGED <<head, data, lost, offered, copies>>

\* tx_buffer_out: one word of each ring that has one, as a packet.
TxOut ==
  /\ NonEmpty # {}
  /\ tail' = [c \in Chan |-> IF c \in NonEmpty THEN NextSlot(tail[c]) ELSE tail[c]]
  /\ due' = [c \in Chan |-> IF c \in NonEmpty THEN Tail(due[c]) ELSE due[c]]
  /\ out' = out + Cardinality(NonEmpty)
  /\ UNCHANGED <<head, data, lost, offered, copies>>

-----------------------------------------------------------------------------
(***************************************************************************)
(* Properties.                                                             *)
(***************************************************************************)
\* Every copy meant for a channel waits in its ring, has been returned or was
\* counted lost: tx_buffer_in and tx_buffer_out over wraps and broadcasts.
EveryCopyAccounted ==
  copies = lost + out + Total([c \in Chan |-> Count(c)])

\* Each ring holds the words its channel accepted and has not sent, oldest
\* at the tail, so the packets of tx_buffer_out carry each channel's words in
\* the order of tx_buffer_in, whatever the other channels do.
RingHoldsDue ==
  \A c \in Chan : due[c] = [k \in 1..Count(c) |-> data[c][Ahead(tail[c], k - 1)]]

=============================================================================
