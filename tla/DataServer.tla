----------------------------- MODULE DataServer ----------------------------
(***************************************************************************)
(* pacman_dataserver: the loop of main() moves words from the receive ring *)
(* into one static message buffer and publishes it without a copy; the     *)
(* ZeroMQ I/O thread sends it to each subscriber later and then calls      *)
(* clear_msg, which hands the buffer back through msg_ready.               *)
(*                                                                         *)
(* Sizes are scaled: NBytesRange stands for 2^16, the range of the uint16  *)
(* parameter of write_header_data.                                         *)
(***************************************************************************)
EXTENDS RxBuffer, FiniteSets

CONSTANTS
  MaxBatch,     \* MAX_BATCH
  MinBatch,     \* MIN_BATCH
  WordBytes,    \* WORD_BYTES
  NBytesRange,  \* values of the parameter n_bytes
  Subscriber,   \* subscribers of the PUB socket
  InitMayFail   \* TRUE: zmq_msg_init_data may run out of memory

ASSUME BatchAssumption ==
  MinBatch \in Nat /\ MaxBatch \in Nat /\ 1 <= MinBatch /\ MinBatch <= MaxBatch
ASSUME BytesAssumption ==
  WordBytes \in Nat \ {0} /\ NBytesRange \in Nat \ {0}
ASSUME InitMayFailAssumption == InitMayFail \in BOOLEAN

VARIABLES
  pc,          \* where main() is in its loop
  available,   \* words to publish
  filled,      \* words copied into the message so far
  msg_ready,   \* the message buffer is free
  expired,     \* BATCH_TIMEOUT_MS have passed since batch_start_time
  msg_buffer,  \* the words of the message
  n_bytes,     \* n_bytes in its header
  held,        \* ZeroMQ holds the message
  sent,        \* words of the message held
  owed,        \* subscribers it is still to be sent to
  init_failed, \* history: zmq_msg_init_data has failed
  received     \* the last word each subscriber has received

mainVars == <<pc, available, filled, msg_buffer, n_bytes>>
zmqVars  == <<held, sent, owed, received, init_failed>>
vars == <<bufferVars, mainVars, msg_ready, expired, zmqVars>>

TypeOK ==
  /\ BufferTypeOK
  /\ pc \in {"poll", "check", "fill", "send"}
  /\ available \in 0..MaxBatch /\ filled \in 0..MaxBatch
  /\ msg_ready \in BOOLEAN /\ expired \in BOOLEAN
  /\ msg_buffer \in [1..MaxBatch -> Word]
  /\ n_bytes \in 0 .. NBytesRange - 1
  /\ held \in BOOLEAN /\ sent \in 0..MaxBatch
  /\ owed \subseteq Subscriber
  /\ received \in [Subscriber -> Word] /\ init_failed \in BOOLEAN

Init ==
  /\ BufferInit
  /\ pc = "poll" /\ available = 0 /\ filled = 0
  /\ msg_ready = TRUE /\ expired = FALSE
  /\ msg_buffer = [k \in 1..MaxBatch |-> 0] /\ n_bytes = 0
  /\ held = FALSE /\ sent = 0 /\ owed = {}
  /\ received = [s \in Subscriber |-> 0] /\ init_failed = FALSE

-----------------------------------------------------------------------------
(***************************************************************************)
(* The loop.                                                               *)
(***************************************************************************)
\* pacman_poll_rx puts any number of words into the ring.
PollRx ==
  /\ pc = "poll"
  /\ RxIn
  /\ UNCHANGED <<mainVars, msg_ready, expired, zmqVars>>

EndPoll ==
  /\ pc = "poll"
  /\ pc' = "check"
  /\ UNCHANGED <<bufferVars, available, filled, msg_buffer, n_bytes, msg_ready, expired, zmqVars>>

\* A bug to test against: msg_ready is not looked at.
FlushAnyTime(n) == n >= MinBatch \/ (n > 0 /\ expired)

Flush(n) == msg_ready /\ (n >= MinBatch \/ (n > 0 /\ expired))

Available == IF Count > MaxBatch THEN MaxBatch ELSE Count

Check ==
  /\ pc = "check"
  /\ available' = Available
  /\ filled' = 0
  /\ pc' = IF Flush(Available) THEN "fill" ELSE "poll"
  /\ UNCHANGED <<bufferVars, msg_buffer, n_bytes, msg_ready, expired, zmqVars>>

\* rx_buffer_out of one word; the other branch is its "failed unexpectedly".
CopyWord ==
  /\ pc = "fill" /\ filled < available
  /\ IF Count # 0
       THEN /\ RxOut
            /\ filled' = filled + 1
            /\ msg_buffer' = [msg_buffer EXCEPT ![filled + 1] = data[tail]]
            /\ UNCHANGED <<available, expired>>
       ELSE /\ available' = 0 /\ expired' = FALSE
            /\ UNCHANGED <<bufferVars, filled, msg_buffer>>
  /\ UNCHANGED <<pc, n_bytes, msg_ready, zmqVars>>

\* write_header_data truncates its argument, then the buffer is claimed.
WriteHeader ==
  /\ pc = "fill" /\ filled >= available
  /\ n_bytes' = (available * WordBytes) % NBytesRange
  /\ msg_ready' = FALSE
  /\ pc' = "send"
  /\ UNCHANGED <<bufferVars, available, filled, msg_buffer, expired, zmqVars>>

NextRound ==
  /\ pc' = "poll" /\ available' = 0 /\ expired' = FALSE
  /\ UNCHANGED <<bufferVars, filled, msg_buffer, n_bytes>>

\* zmq_msg_init_data fails: the loop goes on, msg_ready stays as it is.
InitFails ==
  /\ pc = "send" /\ InitMayFail
  /\ NextRound
  /\ init_failed' = TRUE
  /\ UNCHANGED <<msg_ready, held, sent, owed, received>>

\* zmq_msg_send fails: zmq_msg_close frees the message through clear_msg.
SendFails ==
  /\ pc = "send"
  /\ NextRound
  /\ msg_ready' = TRUE
  /\ UNCHANGED zmqVars

\* zmq_msg_send queues the message for the subscribers S that are connected
\* and below the high-water mark; the others never see it.
Send(S) ==
  /\ pc = "send"
  /\ NextRound
  /\ held' = TRUE /\ sent' = available /\ owed' = S
  /\ UNCHANGED <<msg_ready, received, init_failed>>

Main ==
  \/ PollRx \/ EndPoll \/ Check \/ CopyWord \/ WriteHeader
  \/ InitFails \/ SendFails
  \/ \E S \in SUBSET Subscriber : Send(S)

-----------------------------------------------------------------------------
(***************************************************************************)
(* The ZeroMQ I/O thread, and time.                                        *)
(***************************************************************************)
Transmit(s) ==
  /\ held /\ s \in owed
  /\ owed' = owed \ {s}
  /\ received' = [received EXCEPT ![s] = IF sent = 0 THEN received[s] ELSE msg_buffer[sent]]
  /\ UNCHANGED <<bufferVars, mainVars, msg_ready, expired, held, sent, init_failed>>

\* A bug to test against: the free callback does nothing.
ClearMsgForgets ==
  /\ held /\ owed = {}
  /\ held' = FALSE
  /\ UNCHANGED <<bufferVars, mainVars, msg_ready, expired, sent, owed, received, init_failed>>

\* clear_msg, when the last reference is gone.
ClearMsg ==
  /\ held /\ owed = {}
  /\ held' = FALSE /\ msg_ready' = TRUE
  /\ UNCHANGED <<bufferVars, mainVars, expired, sent, owed, received, init_failed>>

Expire ==
  /\ ~expired
  /\ expired' = TRUE
  /\ UNCHANGED <<bufferVars, mainVars, msg_ready, zmqVars>>

Next == Main \/ (\E s \in Subscriber : Transmit(s)) \/ ClearMsg \/ Expire

Spec == Init /\ [][Next]_vars

\* The loop never blocks, the I/O thread sends what it holds, time passes.
Fairness ==
  /\ WF_vars(Main)
  /\ \A s \in Subscriber : WF_vars(Transmit(s))
  /\ WF_vars(ClearMsg)
  /\ WF_vars(Expire)

FairSpec == Spec /\ Fairness

-----------------------------------------------------------------------------
(***************************************************************************)
(* Properties.                                                             *)
(***************************************************************************)
\* ZeroMQ sends from msg_buffer itself: the loop must not write the next
\* batch over it while any subscriber is still to get it (msg_ready and
\* clear_msg).
HeldBufferNotWritten == [][held => UNCHANGED <<msg_buffer, n_bytes>>]_vars

\* Every subscriber gets words in the order they arrived and none twice,
\* whatever was dropped, held back or failed on the way.
EachWordOnceInOrder ==
  [][\A s \in owed : s \notin owed' =>
       /\ \A k \in 1..sent : msg_buffer[k] > received[s]
       /\ \A k, m \in 1..sent : k < m => msg_buffer[k] < msg_buffer[m]]_vars

\* The code's own "rx_buffer_out failed unexpectedly" cannot happen.
NeverUnderflows == pc = "fill" => available - filled <= Count

\* The message buffer has one owner: main() while it fills and sends, ZeroMQ from
\* zmq_msg_send to clear_msg, nobody while msg_ready is set or after a failed
\* zmq_msg_init_data (msg_ready, clear_msg).
OneOwner ==
  /\ held => ~msg_ready
  /\ pc = "fill" => msg_ready /\ filled <= available
  /\ pc = "send" => ~msg_ready /\ ~held /\ filled = available
  /\ ~held => owed = {}

\* Words of the message that count: those ZeroMQ holds, or those copied so far.
InMessage ==
  IF held THEN sent ELSE IF pc \in {"fill", "send"} THEN filled ELSE 0

\* The words of the message come after what those who wait for it have received
\* and before what is in the ring, which comes before what is still to arrive.
WordsInOrder ==
  /\ \A k, m \in 1..InMessage : k < m => msg_buffer[k] < msg_buffer[m]
  /\ \A k \in 1..InMessage : msg_buffer[k] <= arrived
  /\ \A k \in 1..InMessage, j \in 1..Count : msg_buffer[k] < InRing(j)
  /\ \A s \in Subscriber, k \in 1..InMessage :
       (held => s \in owed) => received[s] < msg_buffer[k]
  /\ \A s \in Subscriber : received[s] <= arrived
  /\ \A s \in Subscriber, j \in 1..Count : received[s] < InRing(j)
  /\ \A j \in 1..Count : InRing(j) <= arrived

\* No word is lost without being counted (rx_buffer_in, rx_buffer_out), the
\* loop asks for no more words than there are (available), the buffer has one
\* owner and words keep their order from the ring to each subscriber.
DataServerInv ==
  TypeOK /\ NothingVanishes /\ NeverUnderflows /\ OneOwner /\ WordsInOrder

\* "flush timeout in milliseconds" (main.cc BATCH_TIMEOUT_MS): a word in the
\* ring is taken out for publishing, full batch or not, as long as
\* zmq_msg_init_data has not failed: the buffer always comes back, and the
\* timeout always fires.  After one such failure msg_ready stays clear and
\* nothing is published again.
Waiting(w) == \E k \in 1..Count : InRing(k) = w

FlushedUnlessInitFailed ==
  \A w \in 1..MaxWords : Waiting(w) ~> ~Waiting(w) \/ init_failed

=============================================================================
