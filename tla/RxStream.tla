------------------------------ MODULE RxStream -----------------------------
(***************************************************************************)
(* The receive path of the firmware: rx_chan for each UART, the            *)
(* multiplexers of rx_unit, rx_buffer with its round of turns, and         *)
(* axis_write towards the FIFO of the DMA engine.  One clock drives all of *)
(* them, so a step is one edge; its inputs are the words the UARTs         *)
(* complete and TREADY of the FIFO.                                        *)
(*                                                                         *)
(* A word is its number in the order of its channel.  Header, time stamp   *)
(* and data of a word are three beats, taken from the channel together.    *)
(* For the properties a beat carries also its place: nth is the number of  *)
(* words that rx_buffer has put into the packet before it.                 *)
(***************************************************************************)
EXTENDS AxisWrite, FiniteSets

CONSTANTS
  NumChan,   \* C_RX_NUM_CHAN
  Timeout,   \* CONFIG_I(15 downto 0), 0 for none
  MaxSent,   \* CONFIG_I(31 downto 16), 0 for none
  MinGap,    \* clock edges a UART needs for a word
  MaxWords   \* words each UART receives, a bound for model checking

ASSUME NumChanAssumption  == NumChan \in Nat \ {0}
ASSUME ConfigAssumption   == Timeout \in Nat /\ MaxSent \in Nat
ASSUME MinGapAssumption   == MinGap \in Nat \ {0}
ASSUME MaxWordsAssumption == MaxWords \in Nat

VARIABLES
  since,           \* uart_rx: edges since its last word, up to MinGap
  received,        \* history: words each UART has completed
  word, valid,     \* rx_chan: DATA_O with TIMESTAMP_O, VALID_O
  lost,            \* history: how often rx_chan has shown lost
  muxed,           \* rx_header, rx_timestamp_mux, rx_data_mux: their outputs
  state, turn, frag, valid_channel,    \* rx_buffer: state machine
  timeout_counter, packet_timeout,     \* rx_buffer: packet timeout
  chan_select, buffer_active, buffered, stream_active, ready,   \* inputs
  sent_counter, packet_full, wen, beat,                         \* output
  last_taken, words, taken,  \* history: the beats that have left, see Take
  stalled    \* history: the FIFO has made the stream wait

chanVars  == <<since, received, word, valid, lost>>
inputVars == <<muxed, chan_select, buffer_active, buffered, stream_active, ready>>
fsmVars   == <<state, turn, frag, valid_channel, timeout_counter, packet_timeout>>
outVars   == <<sent_counter, packet_full, wen, beat>>
takeVars  == <<last_taken, words, taken, stalled>>
vars == <<axisVars, chanVars, inputVars, fsmVars, outVars, takeVars>>

Chan == 0 .. NumChan - 1
Word == 0 .. MaxWords
Held == [chan : Chan, num : Word]

LastFrag == 2   \* C_RX_FRAGS_PER_TURN - 1

Beat(part, chan, num, nth) ==
  [part |-> part, chan |-> chan, num |-> num, nth |-> nth]
NoBeat == Beat("none", 0, 0, 0)
WordBeat(f, w)  == Beat(<<"header", "frag_a", "frag_b">>[f + 1], w.chan, w.num,
                        IF f = 0 THEN sent_counter ELSE sent_counter - 1)
TrailerBeat(f)  == Beat(<<"eop", "count", "last">>[f + 1], 0,
                        IF f = 1 THEN sent_counter ELSE 0, sent_counter)

Beats == [part : {"none", "header", "frag_a", "frag_b", "eop", "count", "last"},
          chan : Chan, num : Nat, nth : Nat]

TypeOK ==
  /\ fifo \in Seq(Beats) /\ Len(fifo) <= Depth /\ busy \in BOOLEAN
  /\ since \in [Chan -> 0..MinGap] /\ received \in [Chan -> Word]
  /\ word \in [Chan -> Word] /\ valid \in [Chan -> BOOLEAN]
  /\ lost \in [Chan -> Nat]
  /\ muxed \in Held /\ buffered \in Held
  /\ state \in {"IDLE", "WAIT_STATE", "STREAM", "TRAILER"}
  /\ turn \in 0..NumChan /\ frag \in 0..LastFrag
  /\ valid_channel \in BOOLEAN /\ packet_timeout \in BOOLEAN
  /\ timeout_counter \in 0..Timeout
  /\ chan_select \in Chan /\ buffer_active \in BOOLEAN
  /\ stream_active \in BOOLEAN /\ ready \in [Chan -> BOOLEAN]
  /\ sent_counter \in Nat /\ packet_full \in BOOLEAN
  /\ wen \in BOOLEAN /\ beat \in Beats
  /\ last_taken \in Beats /\ words \in Nat
  /\ taken \in [Chan -> Seq(Nat)] /\ stalled \in BOOLEAN

Init ==
  /\ AxisInit
  /\ since = [c \in Chan |-> MinGap] /\ received = [c \in Chan |-> 0]
  /\ word = [c \in Chan |-> 0] /\ valid = [c \in Chan |-> FALSE]
  /\ lost = [c \in Chan |-> 0]
  /\ muxed = [chan |-> 0, num |-> 0] /\ buffered = [chan |-> 0, num |-> 0]
  /\ state = "IDLE" /\ turn = 0 /\ frag = 0 /\ valid_channel = FALSE
  /\ timeout_counter = 0 /\ packet_timeout = FALSE
  /\ chan_select = 0 /\ buffer_active = FALSE /\ stream_active = FALSE
  /\ ready = [c \in Chan |-> FALSE]
  /\ sent_counter = 0 /\ packet_full = FALSE /\ wen = FALSE /\ beat = NoBeat
  /\ last_taken = NoBeat /\ words = 0 /\ taken = [c \in Chan |-> <<>>]
  /\ stalled = FALSE

-----------------------------------------------------------------------------
(***************************************************************************)
(* The channels, in mode 1.  A word that finds the last one still valid    *)
(* overwrites it and is noted as a loss.                                   *)
(***************************************************************************)
Loses(c) == valid[c] /\ ~ready[c]

ChanEdge(updates) ==
  /\ word' = [c \in Chan |-> IF c \in updates THEN received[c] + 1 ELSE word[c]]
  /\ valid' = [c \in Chan |-> c \in updates \/ (valid[c] /\ ~ready[c])]
  /\ lost' = [c \in Chan |-> IF c \in updates /\ Loses(c) THEN lost[c] + 1 ELSE lost[c]]
  /\ received' = [c \in Chan |-> IF c \in updates THEN received[c] + 1 ELSE received[c]]
  /\ since' = [c \in Chan |-> CASE received'[c] = MaxWords -> MinGap
                                [] received'[c] < MaxWords /\ c \in updates -> 1
                                [] received'[c] < MaxWords /\ c \notin updates ->
                                     IF since[c] < MinGap THEN since[c] + 1 ELSE MinGap]

MuxEdge == muxed' = [chan |-> chan_select, num |-> word[chan_select]]

(***************************************************************************)
(* rx_buffer.                                                              *)
(***************************************************************************)
Moves == ~busy   \* STREAM and TRAILER advance only while axis_write is free

StateEdge ==
  state' = CASE state = "IDLE" -> IF valid_channel THEN "STREAM" ELSE "IDLE"
             [] state = "WAIT_STATE" /\ packet_timeout -> "TRAILER"
             [] state = "WAIT_STATE" /\ ~packet_timeout ->
                  IF valid_channel THEN "STREAM" ELSE "WAIT_STATE"
             [] state = "STREAM" /\ Moves /\ frag = LastFrag /\ packet_full -> "TRAILER"
             [] state = "STREAM" /\ Moves /\ frag = LastFrag /\ ~packet_full ->
                  IF turn = NumChan THEN "WAIT_STATE" ELSE "STREAM"
             [] state = "TRAILER" /\ Moves /\ frag = LastFrag -> "IDLE"
             [] state \in {"STREAM", "TRAILER"} /\ ~(Moves /\ frag = LastFrag) -> state

NextFrag == IF frag < LastFrag THEN frag + 1 ELSE 0

CounterEdge ==
  /\ frag' = CASE state \in {"STREAM", "TRAILER"} -> IF Moves THEN NextFrag ELSE frag
               [] state \in {"IDLE", "WAIT_STATE"} -> 0
  /\ turn' = CASE state # "STREAM" -> 0
               [] state = "STREAM" /\ Moves /\ frag = LastFrag ->
                    IF turn < NumChan THEN turn + 1 ELSE 0
               [] state = "STREAM" /\ ~(Moves /\ frag = LastFrag) -> turn

ValidEdge == valid_channel' = \E c \in Chan : valid[c]

\* A bug to test against: the timeout starts again in WAIT_STATE.
TimeoutEdgeRestarts ==
  IF state # "STREAM"
    THEN timeout_counter' = 0 /\ packet_timeout' = FALSE
    ELSE /\ timeout_counter' =
              IF timeout_counter < Timeout THEN timeout_counter + 1 ELSE Timeout
         /\ packet_timeout' =
              (packet_timeout \/ (Timeout > 0 /\ timeout_counter' >= Timeout))

\* The counter runs on clock edges; it is kept up to Timeout.
TimeoutEdge ==
  IF state = "IDLE"
    THEN timeout_counter' = 0 /\ packet_timeout' = FALSE
    ELSE /\ timeout_counter' =
              IF timeout_counter < Timeout THEN timeout_counter + 1 ELSE Timeout
         /\ packet_timeout' =
              (packet_timeout \/ (Timeout > 0 /\ timeout_counter' >= Timeout))

\* A bug to test against: ready is given when the turn begins.
InputEdgeReadyEarly ==
  LET at(f)  == state = "STREAM" /\ Moves /\ frag = f
      chosen == turn < NumChan /\ valid[turn]
  IN /\ chan_select' = IF at(0) /\ turn < NumChan THEN turn ELSE chan_select
     /\ buffer_active' = IF at(0) THEN chosen ELSE buffer_active
     /\ buffered' = IF at(2) /\ buffer_active THEN muxed ELSE buffered
     /\ stream_active' = IF at(2) THEN buffer_active ELSE stream_active
     /\ ready' = [c \in Chan |-> at(0) /\ chosen /\ c = turn]

\* A bug to test against: the last channel has no turn.
InputEdgeMissesLast ==
  LET at(f) == state = "STREAM" /\ Moves /\ frag = f
  IN /\ chan_select' = IF at(0) /\ turn < NumChan THEN turn ELSE chan_select
     /\ buffer_active' = IF at(0) THEN turn < NumChan - 1 /\ valid[turn] ELSE buffer_active
     /\ buffered' = IF at(2) /\ buffer_active THEN muxed ELSE buffered
     /\ stream_active' = IF at(2) THEN buffer_active ELSE stream_active
     /\ ready' = [c \in Chan |-> at(2) /\ buffer_active /\ c = turn]

InputEdge ==
  LET at(f) == state = "STREAM" /\ Moves /\ frag = f
  IN /\ chan_select' = IF at(0) /\ turn < NumChan THEN turn ELSE chan_select
     /\ buffer_active' = IF at(0) THEN turn < NumChan /\ valid[turn] ELSE buffer_active
     /\ buffered' = IF at(2) /\ buffer_active THEN muxed ELSE buffered
     /\ stream_active' = IF at(2) THEN buffer_active ELSE stream_active
     /\ ready' = [c \in Chan |-> at(2) /\ buffer_active /\ c = turn]

OutputEdge ==
  LET streams == state = "STREAM" /\ Moves /\ stream_active
      trails  == state = "TRAILER" /\ Moves
  IN /\ sent_counter' = CASE state = "IDLE"         -> 0
                          [] streams /\ frag = 0    -> sent_counter + 1
                          [] state # "IDLE" /\ ~(streams /\ frag = 0) -> sent_counter
     /\ packet_full' = CASE state = "IDLE"   -> FALSE
                         [] state = "STREAM" ->
                              packet_full \/ (MaxSent > 0 /\ sent_counter' >= MaxSent)
                         [] state \in {"WAIT_STATE", "TRAILER"} -> packet_full
     /\ wen' = (streams \/ trails)
     /\ beat' = CASE streams -> WordBeat(frag, buffered)
                  [] trails  -> TrailerBeat(frag)
                  [] ~streams /\ ~trails -> NoBeat

-----------------------------------------------------------------------------
(***************************************************************************)
(* The history of the stream: the last beat the FIFO took (none between    *)
(* packets), the words of the packet so far, and each channel's words.     *)
(***************************************************************************)
AfterBeat(b) == IF b.part = "last" THEN NoBeat ELSE b

Take(tready) ==
  LET b == Head(fifo)
  IN /\ stalled' = (stalled \/ (Offered /\ ~tready))
     /\ IF Offered /\ tready
          THEN
            /\ last_taken' = AfterBeat(b)
            /\ words' = CASE b.part = "frag_b" -> words + 1
                          [] b.part = "last"   -> 0
                          [] b.part \notin {"frag_b", "last"} -> words
            /\ taken' = IF b.part = "header"
                          THEN [taken EXCEPT ![b.chan] = Append(@, b.num)]
                          ELSE taken
          ELSE UNCHANGED <<last_taken, words, taken>>

Completes == {c \in Chan : since[c] = MinGap /\ received[c] < MaxWords}

Tick(updates, tready) ==
  /\ ChanEdge(updates)
  /\ MuxEdge
  /\ StateEdge /\ CounterEdge /\ ValidEdge /\ TimeoutEdge
  /\ InputEdge /\ OutputEdge
  /\ AxisEdge(wen, beat, tready)
  /\ Take(tready)

Next == \E updates \in SUBSET Completes, tready \in BOOLEAN : Tick(updates, tready)

Spec == Init /\ [][Next]_vars

\* The clock runs for ever and the FIFO takes a beat at last.
Fairness ==
  /\ WF_vars(Next)
  /\ WF_vars(Offered /\ \E updates \in SUBSET Completes : Tick(updates, TRUE))

FairSpec == Spec /\ Fairness

-----------------------------------------------------------------------------
(***************************************************************************)
(* Properties.  The pipe is what rx_buffer has put and the FIFO has not    *)
(* taken yet.                                                              *)
(***************************************************************************)
Pipe == IF wen THEN Append(fifo, beat) ELSE fifo

HeaderOf(c, b) == b.part = "header" /\ b.chan = c

OneIf(p) == IF p THEN 1 ELSE 0

\* The word in the buffer registers, its header not yet written.
Waiting(c) == stream_active /\ buffered.chan = c /\ ~(state = "STREAM" /\ frag > 0)

\* A word of channel c that the next ready is for.
Pending(c) == valid[c] /\ ~ready[c]

Headers(c, q) == {i \in DOMAIN q : HeaderOf(c, q[i])}

\* Words of channel c between rx_chan and the FIFO.
OnTheWay(c) == OneIf(Pending(c)) + OneIf(Waiting(c)) + Cardinality(Headers(c, Pipe))

\* Each word a UART completes is on its way, has been streamed, or was noted
\* as lost, once: rx_chan's valid and ready, rx_buffer's registers and
\* axis_write together neither drop nor repeat one, however the stream stalls;
\* and a channel's words leave in the order they were received.
EveryWordAccounted ==
  \A c \in Chan :
    /\ received[c] = lost[c] + OnTheWay(c) + Len(taken[c])
    /\ \A i, j \in DOMAIN taken[c] : i < j => taken[c][i] < taken[c][j]

\* A UART at its full rate loses no word unless the FIFO has made the stream
\* wait: "the number of lost packets ... should be zero during normal
\* operation" (rx_buffer's header).
NothingLostUnstalled == ~stalled => \A c \in Chan : lost[c] = 0

\* What may follow what on the stream, after n words of a packet.
Follows(a, b, n) ==
  CASE b.part = "header" -> a.part \in {"none", "frag_b"}
    [] b.part = "frag_a" -> a = [b EXCEPT !.part = "header"]
    [] b.part = "frag_b" -> a = [b EXCEPT !.part = "frag_a"]
    [] b.part = "eop"    -> a.part = "frag_b"
    [] b.part = "count"  -> a.part = "eop" /\ b.num = n
    [] b.part = "last"   -> a.part = "count"
    [] b.part = "none"   -> FALSE

\* A packet is a row of whole words, three beats each, at least one of them
\* and no more than the maximum of the configuration, and a trailer that gives
\* their number and ends it (rx_buffer, state machine and stream output).
PacketsWellFormed ==
  /\ Offered => Follows(last_taken, Head(fifo), words)
  /\ MaxSent > 0 => words <= MaxSent

\* A packet that is begun is ended: the timeout closes it.
EveryPacketEnds == last_taken # NoBeat ~> last_taken = NoBeat

\* The word that was buffered on the turn on which the packet became full.
HeldOver == state = "IDLE" /\ stream_active

\* Every word reaches the FIFO in the end, but for one held over a full
\* packet, which waits for the next word (rx_buffer's state machine).
EveryWordLeavesUnlessHeldOver ==
  []<>(HeldOver \/ \A c \in Chan : OnTheWay(c) = 0)

-----------------------------------------------------------------------------
(***************************************************************************)
(* The inductive invariant.                                                *)
(***************************************************************************)
\* axis_write says busy early enough for the beat already under way.
RoomForBeat ==
  /\ ~busy => Len(fifo) < Depth
  /\ wen => Len(fifo) < Depth
  /\ wen /\ ~busy => Len(fifo) <= 1

\* The words of the packet after beat b.
WordsAfter(b) == IF b.part = "frag_b" THEN b.nth + 1 ELSE b.nth

Linked(a, b) ==
  /\ Follows(a, b, b.nth) /\ b.nth = WordsAfter(a)
  /\ MaxSent > 0 => WordsAfter(b) <= MaxSent

\* The beats q are a stream that goes on from beat a, up to the second.
Chain(a, q) ==
  \A i \in DOMAIN q : Linked(IF i = 1 THEN a ELSE AfterBeat(q[i - 1]), q[i])
LastOf(a, q) == IF q = <<>> THEN a ELSE AfterBeat(q[Len(q)])

LastPut == LastOf(last_taken, Pipe)

StreamLinked ==
  /\ Chain(last_taken, Pipe)
  /\ words = WordsAfter(last_taken) /\ (MaxSent > 0 => words <= MaxSent)

\* The state machine is where the stream is.
BetweenWords ==
  IF sent_counter = 0 THEN LastPut = NoBeat
                      ELSE LastPut.part = "frag_b" /\ LastPut.nth = sent_counter - 1
StatePlace ==
  /\ state = "IDLE" => LastPut = NoBeat
  /\ state \in {"IDLE", "WAIT_STATE"} => frag = 0
  /\ state = "WAIT_STATE" => BetweenWords /\ sent_counter > 0
  /\ state = "STREAM" /\ ~(frag > 0 /\ stream_active) => BetweenWords
  /\ state = "STREAM" /\ frag > 0 /\ stream_active =>
       /\ sent_counter > 0
       /\ LastPut = Beat(IF frag = 1 THEN "header" ELSE "frag_a",
                         buffered.chan, buffered.num, sent_counter - 1)
  /\ state = "TRAILER" =>
       /\ LastPut.part = <<"frag_b", "eop", "count">>[frag + 1]
       /\ WordsAfter(LastPut) = sent_counter

\* A packet is full at its last word, and ended before another.
FullAtMaximum ==
  /\ state \in {"STREAM", "WAIT_STATE"} =>
       (packet_full <=> MaxSent > 0 /\ sent_counter >= MaxSent)
  /\ MaxSent > 0 /\ state # "IDLE" => sent_counter <= MaxSent
  /\ state = "WAIT_STATE" \/ (state = "STREAM" /\ frag = 0) => ~packet_full

\* A round is begun only with a word to send, so no packet is empty.
RoundFindsWord ==
  /\ state = "IDLE" /\ valid_channel => \E c \in Chan : Pending(c)
  /\ state = "STREAM" /\ sent_counter = 0 /\ ~stream_active =>
       \E c \in Chan : /\ Pending(c) /\ c >= turn
                       /\ frag > 0 /\ c = turn => buffer_active

\* ready lasts an edge; the channel of the turn is held from valid to ready.
TurnOfChannel ==
  /\ \A c \in Chan :
       ready[c] => /\ frag = 0
                   /\ \/ state = "STREAM" /\ turn = c + 1
                      \/ state = "TRAILER"
  /\ state = "STREAM" /\ frag > 0 /\ buffer_active =>
       turn \in Chan /\ Pending(turn) /\ chan_select = turn

\* The words of channel c that rx_buffer has put are numbered below n; and the
\* one in the buffer registers too.
PutBelow(c, n) ==
  /\ \A i \in DOMAIN taken[c] : taken[c][i] < n
  /\ \A i \in Headers(c, Pipe) : Pipe[i].num < n
Below(c, n) == PutBelow(c, n) /\ (Waiting(c) => buffered.num < n)

NumbersInOrder(c) ==
  /\ word[c] = received[c]
  /\ Below(c, received[c] + 1)
  /\ Pending(c) => Below(c, received[c])
  /\ state = "STREAM" /\ frag = 2 /\ buffer_active /\ turn = c =>
       muxed.chan = c /\ muxed.num <= received[c] /\ Below(c, muxed.num)
  /\ Waiting(c) => PutBelow(c, buffered.num)
  /\ \A i \in Headers(c, Pipe) :
       /\ \A j \in DOMAIN taken[c] : taken[c][j] < Pipe[i].num
       /\ \A j \in Headers(c, Pipe) : i < j => Pipe[i].num < Pipe[j].num

\* How many edges a word of channel c waits at most for its ready, while nothing
\* stalls: if its turn is ahead, the turns up to it, or a packet that becomes
\* full before it, a trailer and a new round; if its turn is over, the rest of
\* the round, WAIT_STATE and all that.
Place == 3 * turn + frag

TurnAhead(c) == turn < c \/ (turn = c /\ (frag = 0 \/ buffer_active))

\* No packet becomes full before the turn of channel c.
NotCut(c) ==
  \/ MaxSent = 0 \/ turn = c
  \/ sent_counter + (c - turn) - OneIf(frag > 0) < MaxSent

InTrailer(c) == 3 * c + 8
InWait(c)    == 6 * c + 9

Due(c) ==
  CASE state = "IDLE"       -> 3 * c + 4 + OneIf(~valid_channel)
    [] state = "TRAILER"    -> InTrailer(c) - frag
    [] state = "WAIT_STATE" -> InWait(c) + OneIf(~valid_channel)
    [] state = "STREAM" /\ TurnAhead(c) ->
         IF NotCut(c) THEN 3 * c + 3 - Place ELSE 3 * c - Place + InTrailer(c)
    [] state = "STREAM" /\ ~TurnAhead(c) -> 3 * NumChan + 3 - Place + InWait(c) + 1

\* Two rounds fit between two words of a channel, and a packet takes a round.
RoundsFit ==
  /\ MinGap >= 6 * NumChan + 10
  /\ MaxSent = 0 \/ MaxSent >= NumChan

\* Until the FIFO makes the stream wait, each word gets its ready in time.
ReadyInTime ==
  ~stalled =>
    /\ ~busy /\ Len(fifo) <= 1
    /\ \A c \in Chan :
         /\ lost[c] = 0
         /\ Pending(c) /\ received[c] < MaxWords => since[c] + Due(c) <= MinGap

\* Together they show the properties, whatever stalls and timeouts do.
RxStreamInv ==
  /\ TypeOK /\ RoomForBeat
  /\ StreamLinked /\ StatePlace /\ FullAtMaximum /\ RoundFindsWord
  /\ TurnOfChannel /\ \A c \in Chan : NumbersInOrder(c)
  /\ EveryWordAccounted /\ PacketsWellFormed
  /\ RoundsFit => ReadyInTime

=============================================================================
