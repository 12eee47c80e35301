----------------------------- MODULE CmdServer -----------------------------
(***************************************************************************)
(* pacman_cmdserver: the loop of main() polls the transmit side, waits for *)
(* a request on a REP socket, handles its words one by one into the one    *)
(* reply buffer rep_msg, and sends the reply without a copy.  The ZeroMQ   *)
(* I/O thread reads rep_msg when it writes the reply to the client.        *)
(*                                                                         *)
(* A request is the sequence of the channel fields of its words; 0 is a    *)
(* word that leaves tx_buffer alone, and a string message counts as one.   *)
(***************************************************************************)
EXTENDS TxBuffer

CONSTANTS
  Client,       \* REQ sockets connected to the server
  NoClient,     \* nobody's
  Request,      \* requests they send
  Longest,      \* MAX_WORDS, words of the longest message
  RingSize,     \* buffer descriptors of the transmit ring
  Batch,        \* packets one poll hands over at most
  RecvMayFail   \* TRUE: zmq_msg_recv may fail

ASSUME ClientAssumption == NoClient \notin Client
ASSUME RequestAssumption == Request \subseteq Seq(Nat) /\ <<>> \notin Request
ASSUME LongestAssumption ==
  Longest \in Nat /\ \A r \in Request : Len(r) <= Longest
ASSUME RingSizeAssumption == RingSize \in Nat \ {0} /\ Batch \in Nat \ {0}
ASSUME RecvMayFailAssumption == RecvMayFail \in BOOLEAN

VARIABLES
  pc,          \* where main() is in its loop
  batch_count, \* packets handed over by this poll
  free,        \* buffer descriptors the driver may fill
  asked,       \* each client's request, <<>> when it has none outstanding
  promised,    \* words for tx_buffer in the requests so far
  inbox,       \* clients whose request waits at the REP socket
  current,     \* the client being served
  i,           \* words of its request handled so far
  rep_header,  \* words announced in the header of rep_msg
  rep_words,   \* whose reply each word of rep_msg belongs to
  owed         \* clients whose reply ZeroMQ holds

mainVars == <<pc, batch_count, current, i, rep_header, rep_words>>
clientVars == <<asked, promised, inbox>>
vars == <<bufferVars, mainVars, free, clientVars, owed>>

TypeOK ==
  /\ BufferTypeOK
  /\ pc \in {"poll", "recv", "words", "stopped"}
  /\ batch_count \in 0..Batch /\ free \in 0..RingSize
  /\ asked \in [Client -> Request \cup {<<>>}]
  /\ promised \in Word /\ inbox \subseteq Client
  /\ current \in Client \cup {NoClient} /\ i \in 0..Longest
  /\ rep_header \in 0..Longest
  /\ rep_words \in [1..Longest -> Client \cup {NoClient}]
  /\ owed \subseteq Client

Init ==
  /\ BufferInit
  /\ pc = "poll" /\ batch_count = 0 /\ free = RingSize
  /\ asked = [c \in Client |-> <<>>] /\ promised = 0 /\ inbox = {}
  /\ current = NoClient /\ i = 0
  /\ rep_header = 0 /\ rep_words = [k \in 1..Longest |-> NoClient]
  /\ owed = {}

-----------------------------------------------------------------------------
(***************************************************************************)
(* The server.                                                             *)
(***************************************************************************)
\* The loop condition of pacman_poll_tx.
MayHandOver == batch_count < Batch /\ free > 0

\* One turn of the loop of pacman_poll_tx.
PollTx ==
  /\ pc = "poll" /\ MayHandOver /\ TxOut
  /\ batch_count' = batch_count + 1 /\ free' = free - 1
  /\ UNCHANGED <<pc, current, i, rep_header, rep_words, clientVars, owed>>

EndPoll ==
  /\ pc = "poll" /\ (~MayHandOver \/ NonEmpty = {})
  /\ pc' = "recv" /\ batch_count' = 0
  /\ UNCHANGED <<bufferVars, current, i, rep_header, rep_words, free, clientVars, owed>>

\* zmq_msg_recv returns a request and its reply's header is begun.
Recv(c) ==
  /\ pc = "recv" /\ c \in inbox
  /\ inbox' = inbox \ {c}
  /\ current' = c /\ i' = 0
  /\ rep_header' = Len(asked[c])
  /\ pc' = "words"
  /\ UNCHANGED <<bufferVars, batch_count, rep_words, free, asked, promised, owed>>

RecvFails ==
  /\ pc = "recv" /\ RecvMayFail
  /\ pc' = "stopped"
  /\ UNCHANGED <<bufferVars, batch_count, current, i, rep_header, rep_words,
                 free, clientVars, owed>>

\* handle_data keeps eight bits of the channel and counts channels from one.
chan == asked[current][i + 1] % 256

\* A bug to test against: the reply word of a data word is not written.
HandleWordNoReply ==
  /\ pc = "words" /\ i < Len(asked[current])
  /\ IF chan > 0
       THEN TxIn(chan - 1) /\ rep_words' = rep_words
       ELSE UNCHANGED bufferVars /\ rep_words' = [rep_words EXCEPT ![i + 1] = current]
  /\ i' = i + 1
  /\ UNCHANGED <<pc, batch_count, current, rep_header, free, clientVars, owed>>

\* One word of the request, into the same word of the reply.
HandleWord ==
  /\ pc = "words" /\ i < Len(asked[current])
  /\ IF chan > 0 THEN TxIn(chan - 1) ELSE UNCHANGED bufferVars
  /\ rep_words' = [rep_words EXCEPT ![i + 1] = current]
  /\ i' = i + 1
  /\ UNCHANGED <<pc, batch_count, current, rep_header, free, clientVars, owed>>

SendReply ==
  /\ pc = "words" /\ i = Len(asked[current])
  /\ owed' = owed \cup {current}
  /\ pc' = "poll"
  /\ UNCHANGED <<bufferVars, batch_count, current, i, rep_header, rep_words,
                 free, clientVars>>

Server ==
  \/ PollTx \/ EndPoll \/ HandleWord \/ SendReply \/ RecvFails
  \/ \E c \in Client : Recv(c)

-----------------------------------------------------------------------------
(***************************************************************************)
(* Clients, the ZeroMQ I/O thread and the DMA engine.                      *)
(***************************************************************************)
\* The bound on words limits what the clients ask for.
TxWords(r) == Cardinality({k \in 1..Len(r) : r[k] % 256 > 0})

Ask(c, r) ==
  /\ asked[c] = <<>>
  /\ promised + TxWords(r) <= MaxWords
  /\ promised' = promised + TxWords(r)
  /\ asked' = [asked EXCEPT ![c] = r] /\ inbox' = inbox \cup {c}
  /\ UNCHANGED <<bufferVars, mainVars, free, owed>>

\* The reply goes out as rep_msg is now, and the client may ask again.
Deliver(c) ==
  /\ c \in owed /\ pc # "stopped"
  /\ owed' = owed \ {c}
  /\ asked' = [asked EXCEPT ![c] = <<>>]
  /\ UNCHANGED <<bufferVars, mainVars, free, promised, inbox>>

\* The engine streams a packet and completes its descriptor.
Stream ==
  /\ free < RingSize
  /\ free' = free + 1
  /\ UNCHANGED <<bufferVars, mainVars, clientVars, owed>>

Next ==
  \/ Server \/ Stream
  \/ \E c \in Client : Deliver(c) \/ \E r \in Request : Ask(c, r)

Spec == Init /\ [][Next]_vars

\* The server runs, the engine streams, replies are delivered; some client
\* keeps asking, without which zmq_msg_recv blocks and nothing moves.
FairSpec ==
  /\ Spec
  /\ WF_vars(Server) /\ WF_vars(Stream)
  /\ \A c \in Client : WF_vars(Deliver(c))
  /\ \A c \in Client : WF_vars(\E r \in Request : Ask(c, r))

-----------------------------------------------------------------------------
(***************************************************************************)
(* Properties.                                                             *)
(***************************************************************************)
\* A request waits at the socket, is being handled or has its reply with
\* ZeroMQ, and is in one of these places only: zmq_msg_recv takes it away, and
\* a REQ socket sends no second one before the reply to the first.
OnePlaceEach ==
  /\ inbox \cap owed = {}
  /\ \A c \in inbox \cup owed : asked[c] # <<>>
  /\ pc = "words" => /\ current \in Client /\ current \notin inbox \cup owed
                     /\ asked[current] # <<>>

\* The reply in hand announces as many words as its request has, and those
\* written so far answer it.
ReplyInHand ==
  pc = "words" =>
    /\ rep_header = Len(asked[current]) /\ i <= Len(asked[current])
    /\ \A k \in 1..i : rep_words[k] = current

\* With one client nobody writes rep_msg while ZeroMQ holds it.
OneClientReplyKept ==
  (\A c, d \in Client : c = d) =>
     \A c \in owed : /\ pc # "words" /\ rep_header = Len(asked[c])
                     /\ \A k \in 1..Len(asked[c]) : rep_words[k] = c

\* tx_buffer_in and tx_buffer_out account for every copy and keep each channel's
\* words in order, whatever the requests and wherever the poll stops, and
\* main() has at most one reply in the making.
CmdServerInv ==
  /\ TypeOK /\ EveryCopyAccounted /\ RingHoldsDue
  /\ OnePlaceEach /\ ReplyInHand /\ OneClientReplyKept

\* "Start a reply message with the same number of words as the request",
\* main.cc: the reply a client receives announces as many words as it asked
\* for, and each of them answers its own request.
ReplyMatchesRequest ==
  [][\A c \in owed : c \notin owed' =>
       /\ rep_header = Len(asked[c])
       /\ \A k \in 1..Len(asked[c]) : rep_words[k] = c]_vars

\* As long as requests keep coming and the server runs, every word accepted for a channel is
\* handed to the engine, although one poll may stop at a full ring or a full
\* batch and the next one waits for a request.
WordsLeave == \A c \in Chan : due[c] # <<>> ~> due[c] = <<>> \/ pc = "stopped"

=============================================================================
