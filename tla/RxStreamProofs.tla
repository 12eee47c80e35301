--------------------------- MODULE RxStreamProofs ---------------------------
(***************************************************************************)
(* RxStreamInv is an inductive invariant of RxStream for any number of     *)
(* channels, any timeout and maximum, and any depth of axis_write from     *)
(* three: one lemma for each of its parts and an edge of the clock.        *)
(***************************************************************************)
EXTENDS RxStream, FiniteSetTheorems, TLAPS

-----------------------------------------------------------------------------
(***************************************************************************)
(* The sequences.                                                          *)
(***************************************************************************)
\* What is left of a sequence without its head.
LEMMA TailFacts ==
  ASSUME NEW S, NEW q \in Seq(S), q # <<>>
  PROVE  /\ Len(q) > 0 /\ Head(q) = q[1] /\ q[1] \in S
         /\ Tail(q) \in Seq(S) /\ Len(Tail(q)) = Len(q) - 1
         /\ DOMAIN Tail(q) = 1 .. Len(q) - 1
         /\ \A i \in 1 .. Len(q) - 1 : Tail(q)[i] = q[i + 1]
OBVIOUS

\* A sequence with one element more.
LEMMA AppendFacts ==
  ASSUME NEW S, NEW q \in Seq(S), NEW b \in S
  PROVE  /\ Append(q, b) \in Seq(S) /\ Len(Append(q, b)) = Len(q) + 1
         /\ Append(q, b) # <<>> /\ Len(q) \in Nat
         /\ DOMAIN Append(q, b) = 1 .. Len(q) + 1 /\ DOMAIN q = 1 .. Len(q)
         /\ \A i \in 1 .. Len(q) : Append(q, b)[i] = q[i]
         /\ Append(q, b)[Len(q) + 1] = b
OBVIOUS

\* A beat put is the one header more of its channel, or none.
LEMMA HeadersAppend ==
  ASSUME NEW c, NEW q \in Seq(Beats), NEW b \in Beats
  PROVE  /\ IsFiniteSet(Headers(c, q)) /\ Cardinality(Headers(c, q)) \in Nat
         /\ Cardinality(Headers(c, Append(q, b)))
              = Cardinality(Headers(c, q)) + OneIf(HeaderOf(c, b))
<1>1. IsFiniteSet(Headers(c, q)) /\ Cardinality(Headers(c, q)) \in Nat
  <2>1. Headers(c, q) \in SUBSET (1 .. Len(q)) /\ Len(q) \in Nat
    BY AppendFacts DEF Headers
  <2>2. IsFiniteSet(1 .. Len(q))
    BY <2>1, FS_Interval
  <2>3. IsFiniteSet(Headers(c, q))
    BY <2>1, <2>2, FS_Subset
  <2>4. QED
    BY <2>3, FS_CardinalityType
<1>2. Len(q) + 1 \notin Headers(c, q)
  BY AppendFacts DEF Headers
<1>3. CASE HeaderOf(c, b)
  <2>1. Headers(c, Append(q, b)) = Headers(c, q) \cup {Len(q) + 1}
    BY <1>3, AppendFacts DEF Headers
  <2>2. QED
    BY <1>1, <1>2, <1>3, <2>1, FS_AddElement DEF OneIf
<1>4. CASE ~HeaderOf(c, b)
  <2>1. Headers(c, Append(q, b)) = Headers(c, q)
    BY <1>4, AppendFacts DEF Headers
  <2>2. QED
    BY <1>1, <1>4, <2>1 DEF OneIf
<1>5. QED
  BY <1>1, <1>3, <1>4

\* A beat taken is the one header less of its channel, or none.
LEMMA HeadersTail ==
  ASSUME NEW c, NEW q \in Seq(Beats), q # <<>>
  PROVE  Cardinality(Headers(c, q))
           = Cardinality(Headers(c, Tail(q))) + OneIf(HeaderOf(c, q[1]))
<1> DEFINE rest == Headers(c, q) \ {1}
           up   == [i \in Headers(c, Tail(q)) |-> i + 1]
<1>1. /\ IsFiniteSet(Headers(c, Tail(q))) /\ IsFiniteSet(Headers(c, q))
      /\ Cardinality(Headers(c, q)) \in Nat
  BY TailFacts, HeadersAppend
<1>2. ExistsBijection(Headers(c, Tail(q)), rest)
  <2>1. /\ DOMAIN q = 1 .. Len(q) /\ Len(q) \in Nat /\ DOMAIN Tail(q) = 1 .. Len(q) - 1
        /\ \A i \in 1 .. Len(q) - 1 : Tail(q)[i] = q[i + 1]
    BY TailFacts, AppendFacts
  <2>2. up \in [Headers(c, Tail(q)) -> rest]
    BY <2>1 DEF Headers
  <2>3. \A i, j \in Headers(c, Tail(q)) : up[i] = up[j] => i = j
    BY <2>1 DEF Headers
  <2>4. \A j \in rest : \E i \in Headers(c, Tail(q)) : up[i] = j
    <3> SUFFICES ASSUME NEW j \in rest PROVE \E i \in Headers(c, Tail(q)) : up[i] = j
      OBVIOUS
    <3>1. j - 1 \in Headers(c, Tail(q)) /\ up[j - 1] = j
      BY <2>1 DEF Headers
    <3>2. QED
      BY <3>1
  <2>5. up \in Bijection(Headers(c, Tail(q)), rest)
    BY <2>2, <2>3, <2>4 DEF Bijection, Injection, Surjection, IsInjective
  <2>6. QED
    BY <2>5 DEF ExistsBijection
<1>3. Cardinality(rest) = Cardinality(Headers(c, Tail(q)))
  BY <1>1, <1>2, FS_Bijection
<1>4. 1 \in Headers(c, q) <=> HeaderOf(c, q[1])
  BY TailFacts, AppendFacts DEF Headers
<1>5. Cardinality(rest) = IF 1 \in Headers(c, q) THEN Cardinality(Headers(c, q)) - 1
                                                 ELSE Cardinality(Headers(c, q))
  BY <1>1, FS_RemoveElement
<1>6. QED
  BY <1>1, <1>3, <1>4, <1>5 DEF OneIf

\* A chain goes on from the beat that has left it.
LEMMA ChainTail ==
  ASSUME NEW a, NEW q \in Seq(Beats), q # <<>>, Chain(a, q)
  PROVE  /\ Linked(a, q[1])
         /\ Chain(AfterBeat(q[1]), Tail(q))
         /\ LastOf(AfterBeat(q[1]), Tail(q)) = LastOf(a, q)
<1>1. /\ Len(q) \in Nat \ {0} /\ DOMAIN q = 1 .. Len(q)
      /\ Len(Tail(q)) = Len(q) - 1 /\ DOMAIN Tail(q) = 1 .. Len(q) - 1
      /\ \A i \in 1 .. Len(q) - 1 : Tail(q)[i] = q[i + 1]
      /\ Tail(q) \in Seq(Beats)
  BY TailFacts, AppendFacts
<1>2. Linked(a, q[1])
  <2>1. 1 \in DOMAIN q
    BY <1>1
  <2>2. QED
    BY <2>1, Zenon DEF Chain
<1>3. ASSUME NEW i \in DOMAIN Tail(q)
      PROVE  Linked(IF i = 1 THEN AfterBeat(q[1]) ELSE AfterBeat(Tail(q)[i - 1]), Tail(q)[i])
  <2>1. i + 1 \in DOMAIN q /\ i + 1 # 1 /\ Tail(q)[i] = q[i + 1]
    BY <1>1
  <2>2. Linked(AfterBeat(q[i]), q[i + 1])
    <3>1. Linked(IF i + 1 = 1 THEN a ELSE AfterBeat(q[(i + 1) - 1]), q[i + 1])
      BY <2>1, Zenon DEF Chain
    <3>2. (i + 1) - 1 = i
      BY <1>1
    <3>3. QED
      BY <2>1, <3>1, <3>2
  <2>3. i # 1 => Tail(q)[i - 1] = q[i]
    BY <1>1
  <2>4. QED
    BY <2>1, <2>2, <2>3
<1>4. LastOf(AfterBeat(q[1]), Tail(q)) = LastOf(a, q)
  <2>1. CASE Len(q) = 1
    BY <1>1, <2>1 DEF LastOf
  <2>2. CASE Len(q) > 1
    <3>1. Len(q) - 1 \in 1 .. Len(q) - 1
      BY <1>1, <2>2
    <3>2. Tail(q) # <<>>
      <4>1. Len(Tail(q)) # 0
        BY <1>1, <2>2
      <4>2. Len(<<>>) = 0
        OBVIOUS
      <4>3. QED
        BY <4>1, <4>2, Zenon
    <3>3. Tail(q)[Len(q) - 1] = q[Len(q)]
      BY <1>1, <3>1
    <3>4. QED
      BY <1>1, <3>2, <3>3 DEF LastOf
  <2>3. QED
    BY <1>1, <2>1, <2>2
<1>5. QED
  BY <1>2, <1>3, <1>4 DEF Chain

\* A chain is prolonged by a beat that may follow its last.
LEMMA ChainAppend ==
  ASSUME NEW a, NEW q \in Seq(Beats), NEW b \in Beats, Chain(a, q),
         Linked(LastOf(a, q), b)
  PROVE  /\ Chain(a, Append(q, b))
         /\ LastOf(a, Append(q, b)) = AfterBeat(b)
<1>1. /\ Append(q, b) # <<>> /\ Len(Append(q, b)) = Len(q) + 1 /\ Len(q) \in Nat
      /\ DOMAIN Append(q, b) = 1 .. Len(q) + 1 /\ DOMAIN q = 1 .. Len(q)
      /\ \A i \in 1 .. Len(q) : Append(q, b)[i] = q[i]
      /\ Append(q, b)[Len(q) + 1] = b
      /\ (q = <<>> <=> Len(q) = 0)
  BY AppendFacts
<1>2. ASSUME NEW i \in 1 .. Len(q) + 1
      PROVE  Linked(IF i = 1 THEN a ELSE AfterBeat(Append(q, b)[i - 1]), Append(q, b)[i])
  <2>1. CASE i \in 1 .. Len(q)
    <3>1. i # 1 => i - 1 \in 1 .. Len(q)
      BY <1>1, <2>1
    <3>2. Append(q, b)[i] = q[i] /\ (i # 1 => Append(q, b)[i - 1] = q[i - 1])
      BY <1>1, <2>1, <3>1
    <3>3. QED
      BY <1>1, <2>1, <3>2 DEF Chain
  <2>2. CASE i = Len(q) + 1
    <3>1. i # 1 => q # <<>> /\ Append(q, b)[i - 1] = q[Len(q)]
      <4>1. i - 1 = Len(q) /\ (i # 1 => Len(q) \in 1 .. Len(q))
        BY <1>1, <2>2
      <4>2. QED
        BY <1>1, <4>1
    <3>2. i = 1 => q = <<>>
      BY <1>1, <2>2
    <3>3. QED
      BY <1>1, <2>2, <3>1, <3>2 DEF LastOf
  <2>3. QED
    BY <1>1, <2>1, <2>2
<1>3. LastOf(a, Append(q, b)) = AfterBeat(b)
  BY <1>1 DEF LastOf
<1>4. QED
  BY <1>1, <1>2, <1>3 DEF Chain

-----------------------------------------------------------------------------
(***************************************************************************)
(* One edge.                                                               *)
(***************************************************************************)
Takes(tready) == Offered /\ tready

\* What the FIFO leaves of the pipe.
Left(tready) == IF Takes(tready) THEN Tail(Pipe) ELSE Pipe

\* Every beat has a type, what rx_buffer puts included.
LEMMA PipeType ==
  ASSUME TypeOK
  PROVE  /\ Pipe \in Seq(Beats) /\ fifo \in Seq(Beats) /\ Len(fifo) \in Nat
         /\ Offered => Pipe # <<>> /\ Head(fifo) = Pipe[1] /\ Pipe[1] \in Beats
<1>1. fifo \in Seq(Beats) /\ beat \in Beats /\ Len(fifo) \in Nat
  BY DEF TypeOK
<1>2. Pipe \in Seq(Beats)
  BY <1>1, AppendFacts DEF Pipe
<1>3. ASSUME Offered PROVE Pipe # <<>> /\ Head(fifo) = Pipe[1] /\ Pipe[1] \in Beats
  BY <1>1, <1>3, TailFacts, AppendFacts DEF Offered, Pipe
<1>4. QED
  BY <1>1, <1>2, <1>3

\* No beat of rx_buffer is dropped: what is put is in the pipe, behind the rest.
LEMMA PipeEdge ==
  ASSUME TypeOK, RoomForBeat, NEW updates, NEW tready \in BOOLEAN,
         Tick(updates, tready), beat' \in Beats
  PROVE  /\ fifo' = Left(tready)
         /\ Left(tready) \in Seq(Beats)
         /\ Pipe' = IF wen' THEN Append(Left(tready), beat') ELSE Left(tready)
         /\ fifo' \in Seq(Beats) /\ Len(fifo') <= Depth /\ busy' \in BOOLEAN
         /\ RoomForBeat'
<1> DEFINE left == IF Offered /\ tready THEN Tail(fifo) ELSE fifo
<1>1. /\ fifo \in Seq(Beats) /\ beat \in Beats /\ Len(fifo) \in Nat
      /\ Depth \in Nat /\ Depth >= 3 /\ busy \in BOOLEAN /\ wen \in BOOLEAN
      /\ Len(fifo) <= Depth
  BY DepthAssumption DEF TypeOK
<1>2. /\ fifo' = IF wen /\ Len(left) < Depth THEN Append(left, beat) ELSE left
      /\ busy' = BusyAfter(Len(fifo'))
      /\ wen' => ~busy
  BY DEF Tick, AxisEdge, OutputEdge, Moves
<1>3. left \in Seq(Beats) /\ Len(left) \in Nat /\ Len(left) <= Len(fifo)
  BY <1>1, TailFacts DEF Offered
<1>4. fifo' = IF wen THEN Append(left, beat) ELSE left
  BY <1>1, <1>2, <1>3 DEF RoomForBeat
<1>5. fifo' = Left(tready) /\ Left(tready) \in Seq(Beats)
  <2>1. CASE ~Takes(tready)
    BY <1>3, <1>4, <2>1, PipeType DEF Left, Takes, Pipe
  <2>2. CASE Takes(tready)
    <3>1. Tail(Append(fifo, beat)) = Append(Tail(fifo), beat)
      BY <1>1, <2>2 DEF Takes, Offered
    <3>2. Left(tready) = fifo'
      BY <1>4, <2>2, <3>1 DEF Left, Takes, Pipe
    <3>3. QED
      BY <2>2, <3>2, PipeType, TailFacts DEF Left, Takes
  <2>3. QED
    BY <2>1, <2>2
<1>6. /\ wen => Len(fifo') = Len(left) + 1
      /\ ~wen => Len(fifo') = Len(left)
  BY <1>1, <1>3, <1>4, AppendFacts
<1>7. fifo' \in Seq(Beats) /\ Len(fifo') \in Nat /\ Len(fifo') <= Depth
  BY <1>1, <1>3, <1>5, <1>6 DEF RoomForBeat
<1>8. /\ busy' \in BOOLEAN
      /\ busy => (busy' <=> Len(fifo') >= Depth)
      /\ ~busy => (busy' <=> Len(fifo') > 1)
  <2>1. busy' = IF busy THEN Len(fifo') >= Depth ELSE Len(fifo') > 1
    BY <1>2 DEF BusyAfter
  <2>2. (Len(fifo') >= Depth) \in BOOLEAN /\ (Len(fifo') > 1) \in BOOLEAN
    OBVIOUS
  <2>3. QED
    BY <2>1, <2>2, Zenon
<1>9. RoomForBeat'
  <2>1. ~busy' => Len(fifo') < Depth
    BY <1>1, <1>7, <1>8
  <2>2. wen' => Len(fifo') < Depth
    BY <1>1, <1>2, <1>3, <1>6 DEF RoomForBeat
  <2>3. wen' /\ ~busy' => Len(fifo') <= 1
    BY <1>2, <1>7, <1>8
  <2>4. QED
    BY <2>1, <2>2, <2>3 DEF RoomForBeat
<1>10. Pipe' = IF wen' THEN Append(Left(tready), beat') ELSE Left(tready)
  BY <1>5 DEF Pipe
<1>11. QED
  BY <1>5, <1>7, <1>8, <1>9, <1>10

-----------------------------------------------------------------------------
(***************************************************************************)
(* rx_buffer, by the place it is in.                                       *)
(***************************************************************************)
Streams == state = "STREAM" /\ ~busy /\ stream_active
Trails  == state = "TRAILER" /\ ~busy

\* The state machine and its counters.
LEMMA StateFacts ==
  ASSUME TypeOK, NEW updates, NEW tready, Tick(updates, tready)
  PROVE  /\ state = "IDLE" =>
              state' = (IF valid_channel THEN "STREAM" ELSE "IDLE") /\ frag' = 0
         /\ state = "WAIT_STATE" =>
              /\ state' = IF packet_timeout THEN "TRAILER"
                          ELSE IF valid_channel THEN "STREAM" ELSE "WAIT_STATE"
              /\ frag' = 0
         /\ state \in {"STREAM", "TRAILER"} =>
              /\ busy => state' = state /\ frag' = frag
              /\ ~busy /\ frag # 2 => state' = state /\ frag' = frag + 1
              /\ ~busy /\ frag = 2 => frag' = 0
         /\ state = "TRAILER" /\ ~busy /\ frag = 2 => state' = "IDLE"
         /\ state = "STREAM" /\ ~busy /\ frag = 2 =>
              state' = IF packet_full THEN "TRAILER"
                       ELSE IF turn = NumChan THEN "WAIT_STATE" ELSE "STREAM"
         /\ state # "STREAM" => turn' = 0
         /\ state = "STREAM" =>
              turn' = IF busy \/ frag # 2 THEN turn
                      ELSE IF turn < NumChan THEN turn + 1 ELSE 0
<1> USE DEF Moves, LastFrag
<1>1. /\ state \in {"IDLE", "WAIT_STATE", "STREAM", "TRAILER"} /\ frag \in 0..2
      /\ busy \in BOOLEAN /\ packet_full \in BOOLEAN /\ packet_timeout \in BOOLEAN
  BY DEF TypeOK
<1>2. StateEdge /\ CounterEdge
  BY DEF Tick
<1>3. CASE state = "IDLE"
  BY <1>2, <1>3 DEF StateEdge, CounterEdge
<1>4. CASE state = "WAIT_STATE"
  <2>1. frag' = 0 /\ turn' = 0
    BY <1>2, <1>4 DEF CounterEdge
  <2>2. state' = IF packet_timeout THEN "TRAILER"
                 ELSE IF valid_channel THEN "STREAM" ELSE "WAIT_STATE"
    BY <1>1, <1>2, <1>4 DEF StateEdge
  <2>3. QED
    BY <1>4, <2>1, <2>2
<1>5. CASE state = "STREAM"
  <2>1. /\ busy => state' = state /\ frag' = frag
        /\ ~busy /\ frag # 2 => state' = state /\ frag' = frag + 1
        /\ ~busy /\ frag = 2 => frag' = 0
    BY <1>1, <1>2, <1>5 DEF StateEdge, CounterEdge, NextFrag
  <2>2. turn' = IF busy \/ frag # 2 THEN turn
                ELSE IF turn < NumChan THEN turn + 1 ELSE 0
    BY <1>1, <1>2, <1>5 DEF CounterEdge
  <2>3. ~busy /\ frag = 2 =>
           state' = IF packet_full THEN "TRAILER"
                    ELSE IF turn = NumChan THEN "WAIT_STATE" ELSE "STREAM"
    BY <1>1, <1>2, <1>5 DEF StateEdge
  <2>4. QED
    BY <1>5, <2>1, <2>2, <2>3
<1>6. CASE state = "TRAILER"
  <2>1. /\ busy => state' = state /\ frag' = frag
        /\ ~busy /\ frag # 2 => state' = state /\ frag' = frag + 1
        /\ ~busy /\ frag = 2 => frag' = 0 /\ state' = "IDLE"
    BY <1>1, <1>2, <1>6 DEF StateEdge, CounterEdge, NextFrag
  <2>2. turn' = 0
    BY <1>2, <1>6 DEF CounterEdge
  <2>3. QED
    BY <1>6, <2>1, <2>2
<1>7. QED
  BY <1>1, <1>3, <1>4, <1>5, <1>6

\* The stream output.
LEMMA OutputFacts ==
  ASSUME TypeOK, NEW updates, NEW tready, Tick(updates, tready)
  PROVE  /\ wen' \in BOOLEAN /\ (wen' <=> Streams \/ Trails)
         /\ Streams => beat' = WordBeat(frag, buffered)
         /\ Trails => beat' = TrailerBeat(frag)
         /\ ~Streams /\ ~Trails => beat' = NoBeat
         /\ state = "IDLE" => sent_counter' = 0 /\ packet_full' = FALSE
         /\ Streams /\ frag = 0 => sent_counter' = sent_counter + 1
         /\ state # "IDLE" /\ ~(Streams /\ frag = 0) => sent_counter' = sent_counter
         /\ state \in {"WAIT_STATE", "TRAILER"} => packet_full' = packet_full
         /\ state = "STREAM" =>
              (packet_full' <=> packet_full \/ (MaxSent > 0 /\ sent_counter' >= MaxSent))
         /\ packet_full' \in BOOLEAN
<1>1. /\ state \in {"IDLE", "WAIT_STATE", "STREAM", "TRAILER"} /\ frag \in 0..2
      /\ busy \in BOOLEAN /\ packet_full \in BOOLEAN /\ stream_active \in BOOLEAN
  BY DEF TypeOK, LastFrag
<1>2. /\ sent_counter' = CASE state = "IDLE"         -> 0
                           [] Streams /\ frag = 0    -> sent_counter + 1
                           [] state # "IDLE" /\ ~(Streams /\ frag = 0) -> sent_counter
      /\ packet_full' = CASE state = "IDLE"   -> FALSE
                          [] state = "STREAM" ->
                               packet_full \/ (MaxSent > 0 /\ sent_counter' >= MaxSent)
                          [] state \in {"WAIT_STATE", "TRAILER"} -> packet_full
      /\ wen' = (Streams \/ Trails)
      /\ beat' = CASE Streams -> WordBeat(frag, buffered)
                   [] Trails  -> TrailerBeat(frag)
                   [] ~Streams /\ ~Trails -> NoBeat
  BY DEF Tick, OutputEdge, Streams, Trails, Moves
<1>3. wen' \in BOOLEAN /\ (wen' <=> Streams \/ Trails)
  BY <1>1, <1>2 DEF Streams, Trails
<1>4. /\ Streams => beat' = WordBeat(frag, buffered)
      /\ Trails => beat' = TrailerBeat(frag)
      /\ ~Streams /\ ~Trails => beat' = NoBeat
  <2>1. ~(Streams /\ Trails)
    BY DEF Streams, Trails
  <2> DEFINE word_beat == WordBeat(frag, buffered)
             trailer_beat == TrailerBeat(frag)
  <2>2. beat' = CASE Streams -> word_beat
                   [] Trails  -> trailer_beat
                   [] ~Streams /\ ~Trails -> NoBeat
    BY <1>2
  <2> HIDE DEF word_beat, trailer_beat
  <2>3. /\ Streams => beat' = word_beat
        /\ Trails => beat' = trailer_beat
        /\ ~Streams /\ ~Trails => beat' = NoBeat
    BY <2>1, <2>2
  <2>4. QED
    BY <2>3 DEF word_beat, trailer_beat
<1>5. ~(state = "IDLE" /\ Streams)
  BY DEF Streams
<1>6. /\ state = "IDLE" => sent_counter' = 0
      /\ Streams /\ frag = 0 => sent_counter' = sent_counter + 1
      /\ state # "IDLE" /\ ~(Streams /\ frag = 0) => sent_counter' = sent_counter
  BY <1>2, <1>5
<1>7. /\ state = "IDLE" => packet_full' = FALSE
      /\ state \in {"WAIT_STATE", "TRAILER"} => packet_full' = packet_full
  BY <1>2
<1>8. state = "STREAM" =>
        /\ packet_full' <=> packet_full \/ (MaxSent > 0 /\ sent_counter' >= MaxSent)
        /\ packet_full' \in BOOLEAN
  <2> DEFINE full == MaxSent > 0 /\ sent_counter' >= MaxSent
  <2>1. full \in BOOLEAN
    OBVIOUS
  <2>2. state = "STREAM" => packet_full' = (packet_full \/ full)
    BY <1>2
  <2> HIDE DEF full
  <2>3. state = "STREAM" => (packet_full' <=> packet_full \/ full) /\ packet_full' \in BOOLEAN
    BY <1>1, <2>1, <2>2
  <2>4. QED
    BY <2>3 DEF full
<1>9. packet_full' \in BOOLEAN
  BY <1>1, <1>7, <1>8
<1>10. QED
  BY <1>3, <1>4, <1>6, <1>7, <1>8, <1>9

\* The word of channel c goes into the buffer registers, and c gets its ready.
Buffers(c) ==
  state = "STREAM" /\ ~busy /\ frag = 2 /\ buffer_active /\ c = turn

\* The buffer inputs.
LEMMA InputFacts ==
  ASSUME TypeOK, NEW updates, NEW tready, Tick(updates, tready)
  PROVE  /\ state = "STREAM" /\ ~busy /\ frag = 0 =>
              /\ chan_select' = IF turn < NumChan THEN turn ELSE chan_select
              /\ buffer_active' <=> turn < NumChan /\ valid[turn]
         /\ ~(state = "STREAM" /\ ~busy /\ frag = 0) =>
              chan_select' = chan_select /\ buffer_active' = buffer_active
         /\ state = "STREAM" /\ ~busy /\ frag = 2 =>
              /\ stream_active' = buffer_active
              /\ buffered' = IF buffer_active THEN muxed ELSE buffered
         /\ ~(state = "STREAM" /\ ~busy /\ frag = 2) =>
              stream_active' = stream_active /\ buffered' = buffered
         /\ buffer_active' \in BOOLEAN
         /\ ready' \in [Chan -> BOOLEAN] /\ \A c \in Chan : ready'[c] <=> Buffers(c)
         /\ muxed' = [chan |-> chan_select, num |-> word[chan_select]]
<1>1. /\ frag \in 0..2 /\ turn \in 0..NumChan /\ valid \in [Chan -> BOOLEAN]
      /\ busy \in BOOLEAN /\ buffer_active \in BOOLEAN /\ NumChan \in Nat \ {0}
  BY NumChanAssumption DEF TypeOK, LastFrag
<1>2. InputEdge /\ MuxEdge
  BY DEF Tick
<1>3. ready' = [c \in Chan |-> Buffers(c)]
  BY <1>2 DEF InputEdge, Buffers, Moves
<1>4. \A c \in Chan : Buffers(c) \in BOOLEAN
  BY <1>1 DEF Buffers
<1>5. state = "STREAM" /\ ~busy /\ frag = 0 =>
         /\ chan_select' = IF turn < NumChan THEN turn ELSE chan_select
         /\ buffer_active' = (turn < NumChan /\ valid[turn])
  BY <1>2 DEF InputEdge, Moves
<1>6. turn < NumChan => turn \in Chan
  BY <1>1 DEF Chan
<1>7. (turn < NumChan /\ valid[turn]) \in BOOLEAN
  BY <1>1, <1>6
<1>8. ~(state = "STREAM" /\ ~busy /\ frag = 0) =>
         chan_select' = chan_select /\ buffer_active' = buffer_active
  BY <1>2 DEF InputEdge, Moves
<1>9. /\ state = "STREAM" /\ ~busy /\ frag = 2 =>
          /\ stream_active' = buffer_active
          /\ buffered' = IF buffer_active THEN muxed ELSE buffered
      /\ ~(state = "STREAM" /\ ~busy /\ frag = 2) =>
          stream_active' = stream_active /\ buffered' = buffered
  BY <1>2 DEF InputEdge, Moves
<1>10. /\ state = "STREAM" /\ ~busy /\ frag = 0 =>
            (buffer_active' <=> turn < NumChan /\ valid[turn])
       /\ buffer_active' \in BOOLEAN
  <2> DEFINE chosen == turn < NumChan /\ valid[turn]
  <2>1. state = "STREAM" /\ ~busy /\ frag = 0 => buffer_active' = chosen
    BY <1>5
  <2>2. chosen \in BOOLEAN
    BY <1>7
  <2> HIDE DEF chosen
  <2>3. /\ state = "STREAM" /\ ~busy /\ frag = 0 => (buffer_active' <=> chosen)
        /\ buffer_active' \in BOOLEAN
    BY <1>1, <1>8, <2>1, <2>2
  <2>4. QED
    BY <2>3 DEF chosen
<1>11. /\ ready' \in [Chan -> BOOLEAN] /\ \A c \in Chan : ready'[c] <=> Buffers(c)
  BY <1>3, <1>4
<1>12. muxed' = [chan |-> chan_select, num |-> word[chan_select]]
  BY <1>2 DEF MuxEdge
<1>13. QED
  BY <1>5, <1>8, <1>9, <1>10, <1>11, <1>12

-----------------------------------------------------------------------------
(***************************************************************************)
(* The stream.                                                             *)
(***************************************************************************)
\* The beats that rx_buffer puts, one by one.
LEMMA BeatFacts ==
  ASSUME TypeOK, NEW updates, NEW tready, Tick(updates, tready)
  PROVE  /\ Streams /\ frag = 0 =>
              beat' = Beat("header", buffered.chan, buffered.num, sent_counter)
         /\ Streams /\ frag = 1 =>
              beat' = Beat("frag_a", buffered.chan, buffered.num, sent_counter - 1)
         /\ Streams /\ frag = 2 =>
              beat' = Beat("frag_b", buffered.chan, buffered.num, sent_counter - 1)
         /\ Trails /\ frag = 0 => beat' = Beat("eop", 0, 0, sent_counter)
         /\ Trails /\ frag = 1 => beat' = Beat("count", 0, sent_counter, sent_counter)
         /\ Trails /\ frag = 2 => beat' = Beat("last", 0, 0, sent_counter)
         /\ ~Streams /\ ~Trails => beat' = NoBeat
<1>1. ASSUME Streams, frag \in 0..2
      PROVE  beat' = Beat(<<"header", "frag_a", "frag_b">>[frag + 1],
                          buffered.chan, buffered.num,
                          IF frag = 0 THEN sent_counter ELSE sent_counter - 1)
  BY <1>1, OutputFacts DEF WordBeat
<1>2. ASSUME Trails, frag \in 0..2
      PROVE  beat' = Beat(<<"eop", "count", "last">>[frag + 1], 0,
                          IF frag = 1 THEN sent_counter ELSE 0, sent_counter)
  BY <1>2, OutputFacts DEF TrailerBeat
<1>3. ~Streams /\ ~Trails => beat' = NoBeat
  BY OutputFacts
<1>4. QED
  BY <1>1, <1>2, <1>3

\* They are beats: within a word the count is not zero.
LEMMA BeatType ==
  ASSUME TypeOK, StatePlace, NEW updates, NEW tready, Tick(updates, tready)
  PROVE  beat' \in Beats
<1>1. /\ buffered.chan \in Chan /\ buffered.num \in Nat /\ sent_counter \in Nat
      /\ frag \in 0..2 /\ 0 \in Chan
  BY NumChanAssumption, MaxWordsAssumption DEF TypeOK, Held, Word, LastFrag, Chan
<1>2. Streams /\ frag > 0 => sent_counter - 1 \in Nat
  BY <1>1 DEF StatePlace, Streams
<1>3. ASSUME NEW p \in {"none", "header", "frag_a", "frag_b", "eop", "count", "last"},
             NEW c \in Chan, NEW n \in Nat, NEW k \in Nat
      PROVE  Beat(p, c, n, k) \in Beats
  BY DEF Beat, Beats
<1>4. CASE Streams
  <2>1. CASE frag = 0
    BY <1>1, <1>3, <1>4, <2>1, BeatFacts
  <2>2. CASE frag = 1
    BY <1>1, <1>2, <1>3, <1>4, <2>2, BeatFacts
  <2>3. CASE frag = 2
    BY <1>1, <1>2, <1>3, <1>4, <2>3, BeatFacts
  <2>4. QED
    BY <1>1, <2>1, <2>2, <2>3
<1>5. CASE Trails
  BY <1>1, <1>3, <1>5, BeatFacts
<1>6. CASE ~Streams /\ ~Trails
  BY <1>1, <1>3, <1>6, BeatFacts DEF NoBeat
<1>7. QED
  BY <1>4, <1>5, <1>6

\* What rx_buffer puts may follow what it put last.
LEMMA PutLinked ==
  ASSUME TypeOK, StatePlace, FullAtMaximum, NEW updates, NEW tready,
         Tick(updates, tready), wen'
  PROVE  Linked(LastPut, beat')
<1>1. /\ sent_counter \in Nat /\ frag \in 0..2 /\ MaxSent \in Nat
      /\ Streams \/ Trails
  BY OutputFacts, ConfigAssumption DEF TypeOK, LastFrag
<1>2. CASE Streams /\ frag = 0
  <2>1. beat' = Beat("header", buffered.chan, buffered.num, sent_counter)
    BY <1>2, BeatFacts
  <2>2. BetweenWords /\ (MaxSent > 0 => sent_counter <= MaxSent)
    BY <1>2 DEF StatePlace, FullAtMaximum, Streams
  <2>3. QED
    BY <1>1, <2>1, <2>2
    DEF BetweenWords, Linked, Follows, WordsAfter, Beat, NoBeat
<1>3. CASE Streams /\ frag \in {1, 2}
  <2>1. beat' = Beat(IF frag = 1 THEN "frag_a" ELSE "frag_b",
                     buffered.chan, buffered.num, sent_counter - 1)
    BY <1>3, BeatFacts
  <2>2. /\ sent_counter > 0 /\ (MaxSent > 0 => sent_counter <= MaxSent)
        /\ LastPut = Beat(IF frag = 1 THEN "header" ELSE "frag_a",
                          buffered.chan, buffered.num, sent_counter - 1)
    BY <1>3 DEF StatePlace, FullAtMaximum, Streams
  <2>3. CASE frag = 1
    BY <1>1, <2>1, <2>2, <2>3 DEF Linked, Follows, WordsAfter, Beat
  <2>4. CASE frag = 2
    BY <1>1, <2>1, <2>2, <2>4 DEF Linked, Follows, WordsAfter, Beat
  <2>5. QED
    BY <1>3, <2>3, <2>4
<1>4. CASE Trails
  <2>1. /\ LastPut.part = <<"frag_b", "eop", "count">>[frag + 1]
        /\ WordsAfter(LastPut) = sent_counter
        /\ MaxSent > 0 => sent_counter <= MaxSent
    BY <1>4 DEF StatePlace, FullAtMaximum, Trails
  <2>2. CASE frag = 0
    <3>1. LastPut.part = "frag_b" /\ beat' = Beat("eop", 0, 0, sent_counter)
      BY <1>4, <2>1, <2>2, BeatFacts
    <3>2. QED
      BY <1>1, <2>1, <3>1 DEF Linked, Follows, WordsAfter, Beat
  <2>3. CASE frag = 1
    <3>1. /\ LastPut.part = "eop"
          /\ beat' = Beat("count", 0, sent_counter, sent_counter)
      BY <1>4, <2>1, <2>3, BeatFacts
    <3>2. QED
      BY <1>1, <2>1, <3>1 DEF Linked, Follows, WordsAfter, Beat
  <2>4. CASE frag = 2
    <3>1. LastPut.part = "count" /\ beat' = Beat("last", 0, 0, sent_counter)
      BY <1>4, <2>1, <2>4, BeatFacts
    <3>2. QED
      BY <1>1, <2>1, <3>1 DEF Linked, Follows, WordsAfter, Beat
  <2>5. QED
    BY <1>1, <2>2, <2>3, <2>4
<1>5. QED
  BY <1>1, <1>2, <1>3, <1>4

\* The FIFO takes the head of the pipe, and counts its words.
LEMMA TakeFacts ==
  ASSUME TypeOK, NEW updates, NEW tready \in BOOLEAN, Tick(updates, tready)
  PROVE  /\ Takes(tready) =>
              /\ last_taken' = AfterBeat(Pipe[1])
              /\ words' = CASE Pipe[1].part = "frag_b" -> words + 1
                            [] Pipe[1].part = "last"   -> 0
                            [] Pipe[1].part \notin {"frag_b", "last"} -> words
              /\ taken' = IF Pipe[1].part = "header"
                            THEN [taken EXCEPT ![Pipe[1].chan] = Append(@, Pipe[1].num)]
                            ELSE taken
         /\ ~Takes(tready) => UNCHANGED <<last_taken, words, taken>>
         /\ stalled' \in BOOLEAN
<1>1. Takes(tready) => Head(fifo) = Pipe[1]
  BY PipeType DEF Takes
<1>2. Take(tready)
  BY DEF Tick
<1>3. QED
  BY <1>1, <1>2 DEF Take, Takes, TypeOK, Offered

\* The pipe stays a chain, and what was put last is known.
LEMMA StreamStep ==
  ASSUME TypeOK, RoomForBeat, StreamLinked, StatePlace, FullAtMaximum,
         NEW updates, NEW tready \in BOOLEAN, Tick(updates, tready)
  PROVE  /\ StreamLinked'
         /\ LastPut' = IF wen' THEN AfterBeat(beat') ELSE LastPut
<1>1. /\ beat' \in Beats
      /\ Pipe' = IF wen' THEN Append(Left(tready), beat') ELSE Left(tready)
      /\ Left(tready) \in Seq(Beats) /\ Pipe \in Seq(Beats)
      /\ wen' => Linked(LastPut, beat')
  BY BeatType, PipeEdge, PipeType, PutLinked
<1>2. Takes(tready) => Pipe # <<>> /\ Pipe[1] \in Beats
  BY PipeType DEF Takes
<1>3. Chain(last_taken', Left(tready)) /\ LastOf(last_taken', Left(tready)) = LastPut
  <2>1. CASE Takes(tready)
    BY <1>1, <1>2, <2>1, TakeFacts, ChainTail DEF StreamLinked, Left, LastPut
  <2>2. CASE ~Takes(tready)
    BY <2>2, TakeFacts DEF StreamLinked, Left, LastPut
  <2>3. QED
    BY <2>1, <2>2
<1>4. /\ Chain(last_taken', Pipe')
      /\ LastOf(last_taken', Pipe') = IF wen' THEN AfterBeat(beat') ELSE LastPut
  BY <1>1, <1>3, ChainAppend
<1>5. words' = WordsAfter(last_taken') /\ (MaxSent > 0 => words' <= MaxSent)
  <2>1. CASE ~Takes(tready)
    BY <2>1, TakeFacts DEF StreamLinked, WordsAfter
  <2>2. CASE Takes(tready)
    <3>1. Linked(last_taken, Pipe[1])
      BY <1>1, <1>2, <2>2, ChainTail DEF StreamLinked
    <3>2. words = Pipe[1].nth /\ words \in Nat
      BY <3>1 DEF Linked, StreamLinked, TypeOK
    <3>3. MaxSent > 0 => WordsAfter(Pipe[1]) <= MaxSent /\ words <= MaxSent
      BY <3>1 DEF Linked, StreamLinked
    <3>4. last_taken' = AfterBeat(Pipe[1])
      BY <2>2, TakeFacts
    <3>5. CASE Pipe[1].part = "frag_b"
      <4>1. words' = words + 1
        BY <2>2, <3>5, TakeFacts
      <4>2. QED
        BY <3>2, <3>3, <3>4, <3>5, <4>1 DEF AfterBeat, WordsAfter
    <3>6. CASE Pipe[1].part = "last"
      <4>1. words' = 0
        BY <2>2, <3>6, TakeFacts
      <4>2. QED
        BY <3>4, <3>6, <4>1, ConfigAssumption DEF AfterBeat, WordsAfter, NoBeat, Beat
    <3>7. CASE Pipe[1].part \notin {"frag_b", "last"}
      <4>1. words' = words
        BY <2>2, <3>7, TakeFacts
      <4>2. QED
        BY <3>2, <3>3, <3>4, <3>7, <4>1 DEF AfterBeat, WordsAfter
    <3>8. QED
      BY <3>5, <3>6, <3>7
  <2>3. QED
    BY <2>1, <2>2
<1>6. QED
  BY <1>4, <1>5 DEF StreamLinked, LastPut

\* What the FIFO sees follows from the chain.
LEMMA ChainWellFormed ==
  ASSUME TypeOK, StreamLinked
  PROVE  PacketsWellFormed
<1>1. Offered => Pipe # <<>> /\ Head(fifo) = Pipe[1] /\ Pipe \in Seq(Beats)
  BY PipeType
<1>2. Offered => Linked(last_taken, Pipe[1])
  BY <1>1, ChainTail DEF StreamLinked
<1>3. QED
  BY <1>1, <1>2 DEF PacketsWellFormed, Linked, StreamLinked

-----------------------------------------------------------------------------
(***************************************************************************)
(* The state machine against the stream and the channels.                  *)
(***************************************************************************)
\* The registers of rx_buffer, by type.
LEMMA BufferTypes ==
  ASSUME TypeOK
  PROVE  /\ state \in {"IDLE", "WAIT_STATE", "STREAM", "TRAILER"}
         /\ frag \in 0..2 /\ turn \in 0..NumChan /\ sent_counter \in Nat
         /\ busy \in BOOLEAN /\ stream_active \in BOOLEAN /\ buffer_active \in BOOLEAN
         /\ packet_full \in BOOLEAN /\ valid_channel \in BOOLEAN
         /\ packet_timeout \in BOOLEAN
         /\ NumChan \in Nat \ {0} /\ MaxSent \in Nat
BY NumChanAssumption, ConfigAssumption DEF TypeOK, LastFrag

\* A channel, by type.
LEMMA ChanTypes ==
  ASSUME TypeOK, NEW c \in Chan
  PROVE  /\ c \in Nat /\ c < NumChan /\ valid[c] \in BOOLEAN /\ ready[c] \in BOOLEAN
         /\ received[c] \in Nat /\ received[c] <= MaxWords /\ word[c] \in Nat
         /\ lost[c] \in Nat /\ taken[c] \in Seq(Nat) /\ since[c] \in 0..MinGap
BY NumChanAssumption, MaxWordsAssumption DEF TypeOK, Chan, Word

\* rx_chan: a word comes, or ready clears the last one.
LEMMA ChanFacts ==
  ASSUME TypeOK, NEW updates, NEW tready, Tick(updates, tready), NEW c \in Chan
  PROVE  /\ valid'[c] <=> c \in updates \/ Pending(c)
         /\ valid'[c] \in BOOLEAN
         /\ word'[c] = IF c \in updates THEN received[c] + 1 ELSE word[c]
         /\ received'[c] = IF c \in updates THEN received[c] + 1 ELSE received[c]
         /\ lost'[c] = IF c \in updates /\ Pending(c) THEN lost[c] + 1 ELSE lost[c]
         /\ Pending(c)' <=> (c \in updates \/ Pending(c)) /\ ~Buffers(c)
<1>1. ChanEdge(updates)
  BY DEF Tick
<1>2. /\ valid'[c] = (c \in updates \/ Pending(c))
      /\ word'[c] = IF c \in updates THEN received[c] + 1 ELSE word[c]
      /\ received'[c] = IF c \in updates THEN received[c] + 1 ELSE received[c]
      /\ lost'[c] = IF c \in updates /\ Pending(c) THEN lost[c] + 1 ELSE lost[c]
  BY <1>1 DEF ChanEdge, Pending, Loses
<1>3. Pending(c) \in BOOLEAN
  BY ChanTypes DEF Pending
<1>4. ready'[c] <=> Buffers(c)
  BY InputFacts
<1>5. QED
  BY <1>2, <1>3, <1>4 DEF Pending

\* A packet is full just at its maximum.
LEMMA FullStep ==
  ASSUME TypeOK, FullAtMaximum, NEW updates, NEW tready, Tick(updates, tready)
  PROVE  FullAtMaximum'
<1> USE BufferTypes
<1>1. CASE state = "IDLE"
  <2>1. sent_counter' = 0 /\ packet_full' = FALSE /\ state' \in {"IDLE", "STREAM"}
    BY <1>1, StateFacts, OutputFacts
  <2>2. QED
    BY <2>1 DEF FullAtMaximum
<1>2. CASE state = "WAIT_STATE"
  BY <1>2, StateFacts, OutputFacts DEF FullAtMaximum, Streams
<1>3. CASE state = "TRAILER"
  BY <1>3, StateFacts, OutputFacts DEF FullAtMaximum, Streams
<1>4. CASE state = "STREAM" /\ Streams /\ frag = 0
  <2>1. /\ state' = "STREAM" /\ frag' = 1 /\ sent_counter' = sent_counter + 1
        /\ packet_full' <=> packet_full \/ (MaxSent > 0 /\ sent_counter' >= MaxSent)
    BY <1>4, StateFacts, OutputFacts DEF Streams
  <2>2. ~packet_full /\ (packet_full <=> MaxSent > 0 /\ sent_counter >= MaxSent)
    BY <1>4 DEF FullAtMaximum
  <2>3. QED
    BY <2>1, <2>2 DEF FullAtMaximum
<1>5. CASE state = "STREAM" /\ ~(Streams /\ frag = 0)
  <2>1. /\ sent_counter' = sent_counter
        /\ packet_full' <=> packet_full \/ (MaxSent > 0 /\ sent_counter' >= MaxSent)
    BY <1>5, OutputFacts
  <2>2. /\ packet_full <=> MaxSent > 0 /\ sent_counter >= MaxSent
        /\ MaxSent > 0 => sent_counter <= MaxSent
        /\ frag = 0 => ~packet_full
    BY <1>5 DEF FullAtMaximum
  <2>3. /\ state' \in {"STREAM", "TRAILER", "WAIT_STATE"}
        /\ state' = "WAIT_STATE" \/ (state' = "STREAM" /\ frag' = 0) => ~packet_full
    BY <1>5, <2>2, StateFacts
  <2>4. packet_full' <=> packet_full
    BY <2>1, <2>2
  <2>5. QED
    BY <2>1, <2>2, <2>3, <2>4 DEF FullAtMaximum
<1>6. QED
  BY <1>1, <1>2, <1>3, <1>4, <1>5

\* The channel of the turn keeps its word until it gets its ready.
LEMMA TurnStep ==
  ASSUME TypeOK, TurnOfChannel, StatePlace, NEW updates, NEW tready,
         Tick(updates, tready)
  PROVE  TurnOfChannel'
<1> USE BufferTypes
<1>1. ASSUME NEW c \in Chan, ready'[c]
      PROVE  /\ frag' = 0
             /\ (state' = "STREAM" /\ turn' = c + 1) \/ state' = "TRAILER"
  <2>1. Buffers(c)
    BY <1>1, InputFacts
  <2>2. c \in Nat /\ c < NumChan
    BY ChanTypes
  <2>3. QED
    BY <2>1, <2>2, StateFacts DEF Buffers
<1>2. ASSUME state' = "STREAM", frag' > 0, buffer_active'
      PROVE  turn' \in Chan /\ Pending(turn)' /\ chan_select' = turn'
  <2>1. state = "STREAM" /\ turn' = turn
    <3>1. state = "STREAM"
      BY <1>2, StateFacts DEF StatePlace
    <3>2. QED
      BY <1>2, <3>1, StateFacts
  <2>2. CASE ~busy /\ frag = 0
    <3>1. turn < NumChan /\ valid[turn] /\ chan_select' = turn
      BY <1>2, <2>1, <2>2, InputFacts
    <3>2. turn \in Chan
      BY <3>1 DEF Chan
    <3>3. ~ready[turn]
      BY <2>1, <3>2 DEF TurnOfChannel
    <3>4. Pending(turn) /\ ~Buffers(turn)
      BY <2>2, <3>1, <3>3 DEF Pending, Buffers
    <3>5. valid'[turn] /\ ~ready'[turn]
      BY <3>2, <3>4, ChanFacts, InputFacts
    <3>6. QED
      BY <2>1, <3>1, <3>2, <3>5 DEF Pending
  <2>3. CASE ~(~busy /\ frag = 0)
    <3>1. frag > 0 /\ ~(~busy /\ frag = 2)
      BY <1>2, <2>1, <2>3, StateFacts
    <3>2. buffer_active' = buffer_active /\ chan_select' = chan_select
      BY <2>3, InputFacts
    <3>3. turn \in Chan /\ Pending(turn) /\ chan_select = turn
      BY <1>2, <2>1, <3>1, <3>2 DEF TurnOfChannel
    <3>4. ~Buffers(turn)
      BY <3>1 DEF Buffers
    <3>5. valid'[turn] /\ ~ready'[turn]
      BY <3>3, <3>4, ChanFacts, InputFacts
    <3>6. QED
      BY <2>1, <3>2, <3>3, <3>5 DEF Pending
  <2>4. QED
    BY <2>2, <2>3
<1>3. QED
  BY <1>1, <1>2 DEF TurnOfChannel

\* A round that begins has a word ahead of it or in the buffer registers.
LEMMA RoundStep ==
  ASSUME TypeOK, TurnOfChannel, StatePlace, FullAtMaximum, RoundFindsWord,
         NEW updates, NEW tready, Tick(updates, tready)
  PROVE  RoundFindsWord'
<1> USE BufferTypes
<1>1. ASSUME state' = "IDLE", valid_channel' PROVE \E c \in Chan : Pending(c)'
  <2>1. PICK c \in Chan : valid[c]
    BY <1>1 DEF Tick, ValidEdge
  <2>2. ~ready[c] /\ state # "STREAM"
    BY <1>1, StateFacts DEF TurnOfChannel
  <2>3. QED
    BY <2>1, <2>2, ChanFacts DEF Pending, Buffers
<1>2. ASSUME state' = "STREAM", sent_counter' = 0, ~stream_active'
      PROVE  \E c \in Chan : /\ Pending(c)' /\ c >= turn'
                             /\ frag' > 0 /\ c = turn' => buffer_active'
  <2>1. CASE state = "IDLE"
    <3>1. turn' = 0 /\ frag' = 0 /\ valid_channel
      BY <1>2, <2>1, StateFacts
    <3>2. PICK c \in Chan : Pending(c)
      BY <2>1, <3>1 DEF RoundFindsWord
    <3>3. Pending(c)' /\ c \in Nat
      BY <2>1, <3>2, ChanFacts, ChanTypes DEF Buffers
    <3>4. QED
      BY <3>1, <3>3
  <2>2. CASE state = "WAIT_STATE"
    BY <1>2, <2>2, OutputFacts DEF StatePlace, Streams
  <2>3. CASE state = "TRAILER"
    BY <1>2, <2>3, StateFacts
  <2>4. CASE state = "STREAM"
    <3>1. sent_counter = 0 /\ ~(Streams /\ frag = 0)
      BY <1>2, <2>4, OutputFacts
    <3>2. ~stream_active
      <4>1. ~(frag > 0 /\ stream_active)
        BY <2>4, <3>1 DEF StatePlace
      <4>2. QED
        BY <1>2, <2>4, <3>1, <4>1, InputFacts DEF Streams
    <3>3. PICK c \in Chan : /\ Pending(c) /\ c >= turn
                            /\ frag > 0 /\ c = turn => buffer_active
      BY <2>4, <3>1, <3>2 DEF RoundFindsWord
    <3>4. c \in Nat /\ c < NumChan /\ turn < NumChan
      BY <3>3, ChanTypes
    <3>5. CASE busy \/ frag = 1
      <4>1. ~Buffers(c) /\ turn' = turn /\ buffer_active' = buffer_active
        BY <2>4, <3>5, StateFacts, InputFacts DEF Buffers
      <4>2. frag' > 0 => frag > 0
        BY <2>4, <3>5, StateFacts
      <4>3. Pending(c)'
        BY <3>3, <4>1, ChanFacts
      <4>4. QED
        BY <3>3, <4>1, <4>2, <4>3
    <3>6. CASE ~busy /\ frag = 0
      <4>1. /\ ~Buffers(c) /\ turn' = turn
            /\ buffer_active' <=> turn < NumChan /\ valid[turn]
        BY <2>4, <3>6, StateFacts, InputFacts DEF Buffers
      <4>2. Pending(c)' /\ (c = turn => buffer_active')
        BY <3>3, <3>4, <4>1, ChanFacts DEF Pending
      <4>3. QED
        BY <3>3, <4>1, <4>2
    <3>7. CASE ~busy /\ frag = 2
      <4>1. turn' = turn + 1 /\ frag' = 0 /\ stream_active' = buffer_active
        BY <2>4, <3>4, <3>7, StateFacts, InputFacts
      <4>2. ~Buffers(c) /\ c > turn
        BY <1>2, <3>3, <3>4, <3>7, <4>1 DEF Buffers
      <4>3. Pending(c)'
        BY <3>3, <4>2, ChanFacts
      <4>4. QED
        BY <3>4, <4>1, <4>2, <4>3
    <3>8. QED
      BY <3>5, <3>6, <3>7
  <2>5. QED
    BY <2>1, <2>2, <2>3, <2>4
<1>3. QED
  BY <1>1, <1>2 DEF RoundFindsWord

\* The state machine stays where the stream is.
LEMMA PlaceStep ==
  ASSUME TypeOK, RoomForBeat, StreamLinked, StatePlace, FullAtMaximum, RoundFindsWord,
         NEW updates, NEW tready \in BOOLEAN, Tick(updates, tready)
  PROVE  StatePlace'
<1> USE BufferTypes
<1>1. LastPut' = IF Streams \/ Trails THEN AfterBeat(beat') ELSE LastPut
  BY StreamStep, OutputFacts
<1>2. CASE state = "IDLE"
  <2>1. /\ LastPut' = NoBeat /\ sent_counter' = 0 /\ frag' = 0
        /\ state' \in {"IDLE", "STREAM"}
    BY <1>1, <1>2, StateFacts, OutputFacts DEF StatePlace, Streams, Trails
  <2>2. QED
    BY <2>1 DEF StatePlace, BetweenWords
<1>3. CASE state = "WAIT_STATE"
  <2>1. /\ LastPut' = LastPut /\ sent_counter' = sent_counter /\ frag' = 0
        /\ state' \in {"WAIT_STATE", "STREAM", "TRAILER"}
    BY <1>1, <1>3, StateFacts, OutputFacts DEF Streams, Trails
  <2>2. /\ sent_counter > 0 /\ LastPut.part = "frag_b"
        /\ LastPut.nth = sent_counter - 1
    BY <1>3 DEF StatePlace, BetweenWords
  <2>3. WordsAfter(LastPut) = sent_counter
    BY <2>2 DEF WordsAfter
  <2>4. QED
    BY <2>1, <2>2, <2>3 DEF StatePlace, BetweenWords, WordsAfter
<1>4. CASE state = "STREAM" /\ busy
  <2>1. /\ LastPut' = LastPut /\ sent_counter' = sent_counter /\ frag' = frag
        /\ state' = state /\ stream_active' = stream_active /\ buffered' = buffered
    BY <1>1, <1>4, StateFacts, OutputFacts, InputFacts DEF Streams, Trails
  <2>2. BetweenWords' <=> BetweenWords
    BY <2>1 DEF BetweenWords
  <2>3. QED
    BY <1>4, <2>1, <2>2 DEF StatePlace
<1>5. CASE state = "STREAM" /\ ~busy /\ frag \in {0, 1} /\ stream_active
  <2>1. Streams /\ frag' = frag + 1 /\ state' = "STREAM"
    BY <1>5, StateFacts DEF Streams
  <2>2. stream_active' /\ buffered' = buffered
    <3>1. ~(state = "STREAM" /\ ~busy /\ frag = 2)
      BY <1>5
    <3>2. stream_active' = stream_active /\ buffered' = buffered
      BY <3>1, InputFacts, Zenon
    <3>3. QED
      BY <1>5, <3>2
  <2>3. CASE frag = 0
    <3>1. sent_counter' = sent_counter + 1
      BY <2>1, <2>3, OutputFacts
    <3>2. LastPut' = Beat("header", buffered.chan, buffered.num, sent_counter)
      BY <1>1, <2>1, <2>3, BeatFacts DEF AfterBeat, Beat
    <3>3. sent_counter' > 0 /\ sent_counter' - 1 = sent_counter
      BY <3>1
    <3>4. frag' = 1
      BY <2>1, <2>3
    <3>5. QED
      BY <2>1, <2>2, <3>2, <3>3, <3>4 DEF StatePlace
  <2>4. CASE frag = 1
    <3>1. sent_counter' = sent_counter /\ sent_counter > 0
      BY <1>5, <2>1, <2>4, OutputFacts DEF StatePlace
    <3>2. LastPut' = Beat("frag_a", buffered.chan, buffered.num, sent_counter - 1)
      BY <1>1, <2>1, <2>4, BeatFacts DEF AfterBeat, Beat
    <3>3. frag' = 2
      BY <2>1, <2>4
    <3>4. QED
      BY <2>1, <2>2, <3>1, <3>2, <3>3 DEF StatePlace
  <2>5. QED
    BY <1>5, <2>3, <2>4
<1>6. CASE state = "STREAM" /\ ~busy /\ frag \in {0, 1} /\ ~stream_active
  <2>1. /\ LastPut' = LastPut /\ sent_counter' = sent_counter /\ frag' > 0
        /\ state' = "STREAM" /\ ~stream_active'
    BY <1>1, <1>6, StateFacts, OutputFacts, InputFacts DEF Streams, Trails
  <2>2. BetweenWords
    BY <1>6 DEF StatePlace
  <2>3. BetweenWords'
    BY <2>1, <2>2 DEF BetweenWords
  <2>4. QED
    BY <2>1, <2>3 DEF StatePlace
<1>7. CASE state = "STREAM" /\ ~busy /\ frag = 2
  <2>1. /\ sent_counter' = sent_counter /\ frag' = 0
        /\ state' = IF packet_full THEN "TRAILER"
                    ELSE IF turn = NumChan THEN "WAIT_STATE" ELSE "STREAM"
    BY <1>7, StateFacts, OutputFacts
  <2>2. BetweenWords'
    <3>1. CASE stream_active
      <4>1. LastPut' = Beat("frag_b", buffered.chan, buffered.num, sent_counter - 1)
        BY <1>1, <1>7, <3>1, BeatFacts DEF AfterBeat, Beat, Streams
      <4>2. sent_counter > 0
        BY <1>7, <3>1 DEF StatePlace
      <4>3. QED
        BY <2>1, <4>1, <4>2 DEF BetweenWords, Beat
    <3>2. CASE ~stream_active
      <4>1. LastPut' = LastPut
        BY <1>1, <1>7, <3>2 DEF Streams, Trails
      <4>2. BetweenWords
        BY <1>7, <3>2 DEF StatePlace
      <4>3. QED
        BY <2>1, <4>1, <4>2 DEF BetweenWords
    <3>3. QED
      BY <3>1, <3>2
  <2>3. state' # "STREAM" => sent_counter > 0
    <3>1. CASE packet_full
      BY <1>7, <3>1 DEF FullAtMaximum
    <3>2. CASE stream_active
      BY <1>7, <3>2 DEF StatePlace
    <3>3. CASE ~packet_full /\ ~stream_active /\ sent_counter = 0
      <4>1. PICK c \in Chan : c >= turn
        BY <1>7, <3>3 DEF RoundFindsWord
      <4>2. turn # NumChan
        BY <4>1, ChanTypes
      <4>3. QED
        BY <2>1, <3>3, <4>2
    <3>4. QED
      BY <3>1, <3>2, <3>3
  <2>4. state' # "STREAM" => LastPut'.part = "frag_b" /\ WordsAfter(LastPut') = sent_counter'
    BY <2>1, <2>2, <2>3 DEF BetweenWords, WordsAfter
  <2>5. /\ state' \in {"STREAM", "TRAILER", "WAIT_STATE"}
        /\ <<"frag_b", "eop", "count">>[frag' + 1] = "frag_b"
    BY <2>1
  <2>6. WordsAfter(LastPut)' = WordsAfter(LastPut')
    BY DEF WordsAfter
  <2>7. QED
    BY <2>1, <2>2, <2>3, <2>4, <2>5, <2>6 DEF StatePlace
<1>8. CASE state = "TRAILER" /\ busy
  <2>1. /\ LastPut' = LastPut /\ sent_counter' = sent_counter /\ frag' = frag
        /\ state' = state
    BY <1>1, <1>8, StateFacts, OutputFacts DEF Streams, Trails
  <2>2. QED
    BY <1>8, <2>1 DEF StatePlace, WordsAfter
<1>9. CASE state = "TRAILER" /\ ~busy
  <2>1. sent_counter' = sent_counter /\ Trails /\ LastPut' = AfterBeat(beat')
    BY <1>1, <1>9, OutputFacts DEF Streams, Trails
  <2>2. CASE frag = 0
    <3>1. state' = "TRAILER" /\ frag' = 1
      BY <1>9, <2>2, StateFacts
    <3>2. LastPut' = Beat("eop", 0, 0, sent_counter)
      BY <2>1, <2>2, BeatFacts DEF AfterBeat, Beat
    <3>3. QED
      BY <2>1, <3>1, <3>2 DEF StatePlace, WordsAfter, Beat
  <2>3. CASE frag = 1
    <3>1. state' = "TRAILER" /\ frag' = 2
      BY <1>9, <2>3, StateFacts
    <3>2. LastPut' = Beat("count", 0, sent_counter, sent_counter)
      BY <2>1, <2>3, BeatFacts DEF AfterBeat, Beat
    <3>3. QED
      BY <2>1, <3>1, <3>2 DEF StatePlace, WordsAfter, Beat
  <2>4. CASE frag = 2
    <3>1. state' = "IDLE" /\ frag' = 0
      BY <1>9, <2>4, StateFacts
    <3>2. LastPut' = NoBeat
      BY <2>1, <2>4, BeatFacts DEF AfterBeat, Beat
    <3>3. QED
      BY <3>1, <3>2 DEF StatePlace
  <2>5. QED
    BY <2>2, <2>3, <2>4
<1>10. QED
  BY <1>2, <1>3, <1>4, <1>5, <1>6, <1>7, <1>8, <1>9

\* Every register keeps its type.
LEMMA TypeStep ==
  ASSUME TypeOK, RoomForBeat, StatePlace, TurnOfChannel,
         NEW updates \in SUBSET Completes, NEW tready \in BOOLEAN, Tick(updates, tready)
  PROVE  TypeOK'
<1> USE BufferTypes
<1>1. /\ fifo' \in Seq(Beats) /\ Len(fifo') <= Depth /\ busy' \in BOOLEAN
      /\ wen' \in BOOLEAN /\ beat' \in Beats
  BY PipeEdge, OutputFacts, BeatType
<1>2. /\ received' \in [Chan -> Word] /\ word' \in [Chan -> Word]
      /\ valid' \in [Chan -> BOOLEAN] /\ lost' \in [Chan -> Nat]
  <2>1. ChanEdge(updates)
    BY DEF Tick
  <2>2. \A c \in Chan : c \in updates => received[c] + 1 \in Word
    BY ChanTypes, MaxWordsAssumption DEF Completes, Word
  <2>3. \A c \in Chan : (c \in updates \/ (valid[c] /\ ~ready[c])) \in BOOLEAN
    BY ChanTypes
  <2>4. /\ \A c \in Chan : received[c] \in Word /\ word[c] \in Word /\ lost[c] \in Nat
    BY DEF TypeOK
  <2>5. received' \in [Chan -> Word] /\ word' \in [Chan -> Word]
    BY <2>1, <2>2, <2>4 DEF ChanEdge
  <2>6. valid' \in [Chan -> BOOLEAN]
    BY <2>1, <2>3 DEF ChanEdge
  <2>7. lost' \in [Chan -> Nat]
    BY <2>1, <2>4 DEF ChanEdge
  <2>8. QED
    BY <2>5, <2>6, <2>7
<1>3. since' \in [Chan -> 0..MinGap]
  <2>1. MinGap \in Nat /\ MinGap > 0 /\ MaxWords \in Nat
    BY MinGapAssumption, MaxWordsAssumption
  <2> DEFINE next(c) == CASE received'[c] = MaxWords -> MinGap
                          [] received'[c] < MaxWords /\ c \in updates -> 1
                          [] received'[c] < MaxWords /\ c \notin updates ->
                               IF since[c] < MinGap THEN since[c] + 1 ELSE MinGap
  <2>2. since' = [c \in Chan |-> next(c)]
    BY DEF Tick, ChanEdge
  <2>3. ASSUME NEW c \in Chan PROVE next(c) \in 0..MinGap
    <3>1. since[c] \in 0..MinGap /\ received'[c] \in Nat /\ received'[c] <= MaxWords
      BY <1>2, <2>1, ChanTypes DEF Word
    <3>2. CASE received'[c] = MaxWords
      BY <2>1, <3>2
    <3>3. CASE received'[c] < MaxWords /\ c \in updates
      BY <2>1, <3>1, <3>3
    <3>4. CASE received'[c] < MaxWords /\ c \notin updates
      BY <2>1, <3>1, <3>4
    <3>5. QED
      BY <2>1, <3>1, <3>2, <3>3, <3>4
  <2> HIDE DEF next
  <2>4. QED
    BY <2>2, <2>3
<1>4. /\ state' \in {"IDLE", "WAIT_STATE", "STREAM", "TRAILER"}
      /\ turn' \in 0..NumChan /\ frag' \in 0..LastFrag
  <2>1. state' \in {"IDLE", "WAIT_STATE", "STREAM", "TRAILER"}
    BY StateFacts
  <2>2. turn' \in 0..NumChan
    BY StateFacts
  <2>3. frag' \in 0..2
    BY StateFacts
  <2>4. QED
    BY <2>1, <2>2, <2>3 DEF LastFrag
<1>5. valid_channel' \in BOOLEAN
  BY DEF Tick, ValidEdge
<1>6. timeout_counter' \in 0..Timeout /\ packet_timeout' \in BOOLEAN
  <2>1. timeout_counter \in 0..Timeout /\ Timeout \in Nat
    BY ConfigAssumption DEF TypeOK
  <2>2. timeout_counter' \in 0..Timeout
    BY <2>1 DEF Tick, TimeoutEdge
  <2>3. (Timeout > 0 /\ timeout_counter' >= Timeout) \in BOOLEAN
    OBVIOUS
  <2>4. packet_timeout' \in BOOLEAN
    BY <2>3 DEF Tick, TimeoutEdge
  <2>5. QED
    BY <2>2, <2>4
<1>7. /\ chan_select' \in Chan /\ buffer_active' \in BOOLEAN
      /\ stream_active' \in BOOLEAN /\ ready' \in [Chan -> BOOLEAN]
      /\ muxed' \in Held /\ buffered' \in Held
  <2>1. chan_select \in Chan /\ muxed \in Held /\ buffered \in Held
    BY DEF TypeOK
  <2>2. turn < NumChan => turn \in Chan
    BY DEF Chan
  <2>3. chan_select' \in Chan
    BY <2>1, <2>2, InputFacts
  <2>4. muxed' \in Held
    <3>1. word[chan_select] \in Word
      BY <2>1 DEF TypeOK
    <3>2. muxed' = [chan |-> chan_select, num |-> word[chan_select]]
      BY InputFacts, Zenon
    <3>3. QED
      BY <2>1, <3>1, <3>2 DEF Held
  <2>5. buffered' \in Held
    BY <2>1, InputFacts
  <2>6. stream_active' \in BOOLEAN
    BY InputFacts
  <2>7. QED
    BY <2>3, <2>4, <2>5, <2>6, InputFacts
<1>8. sent_counter' \in Nat /\ packet_full' \in BOOLEAN
  <2>1. sent_counter' \in {0, sent_counter, sent_counter + 1}
    BY OutputFacts
  <2>2. sent_counter' \in Nat
    BY <2>1
  <2>3. QED
    BY <2>2, OutputFacts, Zenon
<1>9. last_taken' \in Beats /\ words' \in Nat /\ taken' \in [Chan -> Seq(Nat)]
  <2>1. last_taken \in Beats /\ words \in Nat /\ taken \in [Chan -> Seq(Nat)]
    BY DEF TypeOK
  <2>2. CASE ~Takes(tready)
    BY <2>1, <2>2, TakeFacts
  <2>3. CASE Takes(tready)
    <3>1. Pipe[1] \in Beats
      BY <2>3, PipeType DEF Takes
    <3>2. last_taken' \in Beats
      BY <2>3, <3>1, TakeFacts, NumChanAssumption DEF AfterBeat, NoBeat, Beat, Beats, Chan
    <3>3. words' \in Nat
      BY <2>1, <2>3, TakeFacts
    <3>4. taken' \in [Chan -> Seq(Nat)]
      <4>1. Pipe[1].chan \in Chan /\ Pipe[1].num \in Nat
        BY <3>1 DEF Beats
      <4>2. \A c \in Chan : taken[c] \in Seq(Nat)
        BY <2>1
      <4>3. Append(taken[Pipe[1].chan], Pipe[1].num) \in Seq(Nat)
        BY <4>1, <4>2
      <4>4. QED
        BY <2>1, <2>3, <4>1, <4>3, TakeFacts
    <3>5. QED
      BY <3>2, <3>3, <3>4
  <2>4. QED
    BY <2>2, <2>3
<1>10. stalled' \in BOOLEAN
  BY TakeFacts
<1>11. QED
  BY <1>1, <1>2, <1>3, <1>4, <1>5, <1>6, <1>7, <1>8, <1>9, <1>10 DEF TypeOK

-----------------------------------------------------------------------------
(***************************************************************************)
(* The words of a channel.                                                 *)
(***************************************************************************)
\* A header of channel c is put, one is taken.
Puts(c) == Streams /\ frag = 0 /\ buffered.chan = c
TakesHeader(c, tready) == Takes(tready) /\ HeaderOf(c, Pipe[1])

\* The buffer registers: a word comes with its ready, goes with its header.
LEMMA WaitingStep ==
  ASSUME TypeOK, StatePlace, TurnOfChannel, NEW updates, NEW tready,
         Tick(updates, tready), \A d \in Chan : NumbersInOrder(d), NEW c \in Chan
  PROVE  /\ Puts(c) <=> wen' /\ HeaderOf(c, beat')
         /\ Puts(c) => Waiting(c) /\ beat'.num = buffered.num
         /\ Buffers(c) => /\ Pending(c) /\ ~Waiting(c) /\ ~Puts(c) /\ Waiting(c)'
                          /\ buffered' = muxed
         /\ ~Buffers(c) => /\ Waiting(c)' <=> Waiting(c) /\ ~Puts(c)
                           /\ Waiting(c)' => buffered' = buffered
<1> USE BufferTypes
<1>1. Puts(c) <=> wen' /\ HeaderOf(c, beat')
  <2>1. CASE Streams
    <3>1. CASE frag = 0
      <4>1. beat' = Beat("header", buffered.chan, buffered.num, sent_counter) /\ wen'
        BY <2>1, <3>1, BeatFacts, OutputFacts
      <4>2. QED
        BY <2>1, <3>1, <4>1 DEF Puts, HeaderOf, Beat
    <3>2. CASE frag # 0
      <4>1. beat'.part # "header"
        BY <2>1, <3>2, BeatFacts DEF Beat
      <4>2. QED
        BY <3>2, <4>1 DEF Puts, HeaderOf
    <3>3. QED
      BY <3>1, <3>2
  <2>2. CASE ~Streams
    <3>1. beat'.part # "header"
      BY <2>2, BeatFacts DEF Beat, NoBeat
    <3>2. QED
      BY <2>2, <3>1 DEF Puts, HeaderOf
  <2>3. QED
    BY <2>1, <2>2
<1>2. ASSUME Puts(c) PROVE Waiting(c) /\ beat'.num = buffered.num
  <2>1. beat' = Beat("header", buffered.chan, buffered.num, sent_counter)
    BY <1>2, BeatFacts DEF Puts
  <2>2. QED
    BY <1>2, <2>1 DEF Puts, Waiting, Streams, Beat
<1>3. ASSUME Buffers(c)
      PROVE  /\ Pending(c) /\ ~Waiting(c) /\ ~Puts(c) /\ Waiting(c)'
             /\ buffered' = muxed
  <2>1. state = "STREAM" /\ ~busy /\ frag = 2 /\ buffer_active /\ turn = c
    BY <1>3 DEF Buffers
  <2>2. Pending(c) /\ ~Waiting(c) /\ ~Puts(c)
    BY <2>1 DEF TurnOfChannel, Waiting, Puts
  <2>3. stream_active' = buffer_active /\ buffered' = muxed /\ muxed.chan = c
    BY <2>1, InputFacts DEF NumbersInOrder
  <2>4. frag' = 0
    BY <2>1, StateFacts
  <2>5. QED
    BY <2>1, <2>2, <2>3, <2>4 DEF Waiting
<1>4. ASSUME ~Buffers(c)
      PROVE  /\ Waiting(c)' <=> Waiting(c) /\ ~Puts(c)
             /\ Waiting(c)' => buffered' = buffered
  <2>1. CASE state # "STREAM"
    <3>1. stream_active' = stream_active /\ buffered' = buffered
      BY <2>1, InputFacts
    <3>2. frag' = 0 \/ state' # "STREAM"
      BY <2>1, StateFacts
    <3>3. ~Puts(c)
      BY <2>1 DEF Puts, Streams
    <3>4. QED
      BY <2>1, <3>1, <3>2, <3>3 DEF Waiting
  <2>2. CASE state = "STREAM" /\ busy
    <3>1. stream_active' = stream_active /\ buffered' = buffered
      BY <2>2, InputFacts
    <3>2. frag' = frag /\ state' = state
      BY <2>2, StateFacts
    <3>3. ~Puts(c)
      BY <2>2 DEF Puts, Streams
    <3>4. QED
      BY <3>1, <3>2, <3>3 DEF Waiting
  <2>3. CASE state = "STREAM" /\ ~busy /\ frag # 2
    <3>1. frag' > 0 /\ state' = "STREAM"
      BY <2>3, StateFacts
    <3>2. ~Waiting(c)'
      BY <3>1 DEF Waiting
    <3>3. Waiting(c) => Puts(c)
      BY <2>3 DEF Waiting, Puts, Streams
    <3>4. QED
      BY <3>2, <3>3
  <2>4. CASE state = "STREAM" /\ ~busy /\ frag = 2
    <3>1. ~Waiting(c)
      BY <2>4 DEF Waiting
    <3>2. ~Waiting(c)'
      <4>1. CASE ~buffer_active
        <5>1. stream_active' = FALSE
          BY <2>4, <4>1, InputFacts, Zenon
        <5>2. QED
          BY <5>1 DEF Waiting
      <4>2. CASE buffer_active
        <5>1. turn \in Chan /\ turn # c
          BY <1>4, <2>4, <4>2 DEF TurnOfChannel, Buffers
        <5>2. buffered' = muxed /\ muxed.chan = turn
          BY <2>4, <4>2, <5>1, InputFacts DEF NumbersInOrder
        <5>3. QED
          BY <5>1, <5>2 DEF Waiting
      <4>3. QED
        BY <4>1, <4>2
    <3>3. QED
      BY <3>1, <3>2
  <2>5. QED
    BY <2>1, <2>2, <2>3, <2>4
<1>5. QED
  BY <1>1, <1>2, <1>3, <1>4

\* What the FIFO takes of channel c.
LEMMA TakenFacts ==
  ASSUME TypeOK, NEW updates, NEW tready \in BOOLEAN, Tick(updates, tready),
         NEW c \in Chan
  PROVE  taken'[c] = IF TakesHeader(c, tready) THEN Append(taken[c], Pipe[1].num)
                                               ELSE taken[c]
<1>1. taken \in [Chan -> Seq(Nat)]
  BY DEF TypeOK
<1>2. QED
  BY <1>1, TakeFacts DEF TakesHeader, HeaderOf

\* A word is in one place, and moves on from there.
LEMMA AccountStep ==
  ASSUME TypeOK, RoomForBeat, StatePlace, TurnOfChannel,
         \A d \in Chan : NumbersInOrder(d),
         NEW updates, NEW tready \in BOOLEAN, Tick(updates, tready), NEW c \in Chan,
         received[c] = lost[c] + OnTheWay(c) + Len(taken[c])
  PROVE  received'[c] = lost'[c] + OnTheWay(c)' + Len(taken'[c])
<1> DEFINE inPipe == Cardinality(Headers(c, Pipe))
           inLeft == Cardinality(Headers(c, Left(tready)))
           puts   == wen' /\ HeaderOf(c, beat')
           waits  == Waiting(c)
           pends  == Pending(c)
<1>1. /\ Pipe \in Seq(Beats) /\ Left(tready) \in Seq(Beats) /\ beat' \in Beats
      /\ Pipe' = IF wen' THEN Append(Left(tready), beat') ELSE Left(tready)
      /\ Takes(tready) => Pipe # <<>>
  BY PipeType, PipeEdge, BeatType DEF Takes
<1>2. inPipe \in Nat /\ inLeft \in Nat /\ inPipe' \in Nat
  <2>1. Pipe' \in Seq(Beats)
    BY <1>1, AppendFacts
  <2>2. QED
    BY <1>1, <2>1, HeadersAppend DEF Headers
<1>3. inPipe = inLeft + OneIf(TakesHeader(c, tready))
  <2>1. CASE Takes(tready)
    <3>1. inPipe = inLeft + OneIf(HeaderOf(c, Pipe[1]))
      BY <1>1, <2>1, HeadersTail DEF Left
    <3>2. TakesHeader(c, tready) <=> HeaderOf(c, Pipe[1])
      BY <2>1 DEF TakesHeader
    <3>3. QED
      BY <3>1, <3>2 DEF OneIf
  <2>2. CASE ~Takes(tready)
    BY <1>2, <2>2 DEF Left, TakesHeader, OneIf
  <2>3. QED
    BY <2>1, <2>2
<1>4. inPipe' = inLeft + OneIf(puts)
  <2>1. inPipe' = Cardinality(Headers(c, Pipe'))
    BY DEF Headers
  <2>2. CASE wen'
    <3>1. inPipe' = inLeft + OneIf(HeaderOf(c, beat'))
      BY <1>1, <2>1, <2>2, HeadersAppend
    <3>2. puts <=> HeaderOf(c, beat')
      BY <2>2
    <3>3. QED
      BY <3>1, <3>2 DEF OneIf
  <2>3. CASE ~wen'
    BY <1>1, <1>2, <2>1, <2>3 DEF OneIf
  <2>4. QED
    BY <2>2, <2>3
<1>5. Len(taken'[c]) = Len(taken[c]) + OneIf(TakesHeader(c, tready)) /\ Len(taken[c]) \in Nat
  <2>1. taken[c] \in Seq(Nat) /\ Len(taken[c]) \in Nat
    BY ChanTypes
  <2>2. CASE TakesHeader(c, tready)
    <3>1. taken'[c] = Append(taken[c], Pipe[1].num)
      BY <2>2, TakenFacts
    <3>2. Pipe[1].num \in Nat
      BY <2>2, PipeType DEF TakesHeader, Takes, Beats
    <3>3. QED
      BY <2>1, <2>2, <3>1, <3>2 DEF OneIf
  <2>3. CASE ~TakesHeader(c, tready)
    BY <2>1, <2>3, TakenFacts DEF OneIf
  <2>4. QED
    BY <2>2, <2>3
<1>6. /\ Buffers(c) => pends /\ ~waits /\ ~puts /\ waits'
      /\ puts => waits
      /\ ~Buffers(c) => (waits' <=> waits /\ ~puts)
      /\ pends' <=> (c \in updates \/ pends) /\ ~Buffers(c)
  BY WaitingStep, ChanFacts
<1>7. /\ received[c] \in Nat /\ lost[c] \in Nat
      /\ received'[c] = IF c \in updates THEN received[c] + 1 ELSE received[c]
      /\ lost'[c] = IF c \in updates /\ pends THEN lost[c] + 1 ELSE lost[c]
  BY ChanFacts, ChanTypes
<1>8. OnTheWay(c) = OneIf(pends) + OneIf(waits) + inPipe
  BY DEF OnTheWay
<1>9. OnTheWay(c)' = OneIf(pends') + OneIf(waits') + inPipe'
  BY DEF OnTheWay, OneIf
<1> HIDE DEF inPipe, inLeft, puts, waits, pends
<1>10. received'[c] - lost'[c] - (received[c] - lost[c])
         = OneIf(pends') + OneIf(waits') + OneIf(puts) - (OneIf(pends) + OneIf(waits))
  BY <1>6, <1>7 DEF OneIf
<1>11. /\ OneIf(pends') \in Nat /\ OneIf(waits') \in Nat /\ OneIf(puts) \in Nat
       /\ OneIf(pends) \in Nat /\ OneIf(waits) \in Nat
       /\ OneIf(TakesHeader(c, tready)) \in Nat
       /\ received'[c] \in Nat /\ lost'[c] \in Nat
  BY <1>7 DEF OneIf
<1>12. QED
  <2> DEFINE r == received[c]   r1 == received'[c]
             l == lost[c]       l1 == lost'[c]
             n == Len(taken[c]) n1 == Len(taken'[c])
             k == OneIf(TakesHeader(c, tready))
             q == OneIf(puts)
             s == OneIf(pends) + OneIf(waits)
             s1 == OneIf(pends') + OneIf(waits')
             h == inPipe        h1 == inPipe'
  <2>1. /\ r \in Nat /\ r1 \in Nat /\ l \in Nat /\ l1 \in Nat /\ n \in Nat
        /\ k \in Nat /\ q \in Nat /\ s \in Nat /\ s1 \in Nat
        /\ h \in Nat /\ h1 \in Nat /\ inLeft \in Nat
    BY <1>2, <1>5, <1>7, <1>11
  <2>2. /\ h = inLeft + k /\ h1 = inLeft + q /\ n1 = n + k
        /\ r1 - l1 - (r - l) = s1 + q - s /\ r = l + (s + h) + n
    BY <1>3, <1>4, <1>5, <1>8, <1>10
  <2> HIDE DEF r, r1, l, l1, n, n1, k, q, s, s1, h, h1
  <2>3. r1 = l1 + (s1 + h1) + n1
    BY <2>1, <2>2
  <2>4. received'[c] = lost'[c] + (OneIf(pends') + OneIf(waits') + inPipe') + Len(taken'[c])
    BY <2>3 DEF r, r1, l, l1, n, n1, k, q, s, s1, h, h1
  <2>5. QED
    BY <1>9, <2>4

\* A beat of the pipe is one of the pipe before, or the one just put.
LEMMA PipeItems ==
  ASSUME TypeOK, RoomForBeat, StatePlace, NEW updates, NEW tready \in BOOLEAN,
         Tick(updates, tready), NEW i \in DOMAIN Pipe'
  PROVE  LET k == OneIf(Takes(tready))
         IN  /\ i \in Nat \ {0} /\ k \in 0..1 /\ (Takes(tready) => k = 1)
             /\ \/ i + k \in DOMAIN Pipe /\ Pipe'[i] = Pipe[i + k]
                \/ wen' /\ Pipe'[i] = beat' /\ i = Len(Pipe')
             /\ DOMAIN Pipe' = 1 .. Len(Pipe') /\ Len(Pipe') \in Nat
<1> DEFINE left == Left(tready)
           k == OneIf(Takes(tready))
<1>1. /\ Pipe \in Seq(Beats) /\ left \in Seq(Beats) /\ beat' \in Beats
      /\ Pipe' = IF wen' THEN Append(left, beat') ELSE left
      /\ Takes(tready) => Pipe # <<>>
  BY PipeType, PipeEdge, BeatType DEF Takes
<1>2. k \in 0..1 /\ (Takes(tready) => k = 1) /\ (~Takes(tready) => k = 0)
  BY DEF OneIf
<1>3. /\ DOMAIN Pipe = 1 .. Len(Pipe) /\ Len(Pipe) \in Nat
      /\ DOMAIN left = 1 .. Len(left) /\ Len(left) \in Nat
  BY <1>1, AppendFacts
<1>4. /\ Len(left) = Len(Pipe) - k
      /\ \A j \in 1 .. Len(left) : left[j] = Pipe[j + k]
  <2>1. CASE Takes(tready)
    <3>1. left = Tail(Pipe) /\ k = 1 /\ Pipe # <<>>
      BY <1>1, <1>2, <2>1 DEF Left
    <3>2. /\ Len(Tail(Pipe)) = Len(Pipe) - 1
          /\ \A j \in 1 .. Len(Pipe) - 1 : Tail(Pipe)[j] = Pipe[j + 1]
      BY <1>1, <3>1, TailFacts
    <3>3. QED
      BY <1>3, <3>1, <3>2
  <2>2. CASE ~Takes(tready)
    BY <1>2, <1>3, <2>2 DEF Left
  <2>3. QED
    BY <2>1, <2>2
<1>5. CASE wen'
  <2>1. /\ Len(Pipe') = Len(left) + 1 /\ DOMAIN Pipe' = 1 .. Len(left) + 1
        /\ \A j \in 1 .. Len(left) : Pipe'[j] = left[j]
        /\ Pipe'[Len(left) + 1] = beat'
    BY <1>1, <1>5, AppendFacts
  <2>2. CASE i \in 1 .. Len(left)
    <3>1. i + k \in 1 .. Len(Pipe) /\ Pipe'[i] = Pipe[i + k]
      BY <1>2, <1>3, <1>4, <2>1, <2>2
    <3>2. QED
      BY <1>2, <1>3, <2>1, <2>2, <3>1
  <2>3. CASE i = Len(left) + 1
    BY <1>2, <1>3, <1>5, <2>1, <2>3
  <2>4. QED
    BY <1>3, <2>1, <2>2, <2>3
<1>6. CASE ~wen'
  <2>1. Pipe' = left
    BY <1>1, <1>6
  <2>2. i \in 1 .. Len(left) /\ i + k \in 1 .. Len(Pipe) /\ Pipe'[i] = Pipe[i + k]
    BY <1>2, <1>3, <1>4, <2>1
  <2>3. QED
    BY <1>2, <1>3, <2>1, <2>2
<1>7. QED
  BY <1>5, <1>6

\* The same for the headers of one channel.
LEMMA HeaderItems ==
  ASSUME TypeOK, RoomForBeat, StatePlace, TurnOfChannel,
         \A d \in Chan : NumbersInOrder(d),
         NEW updates, NEW tready \in BOOLEAN, Tick(updates, tready), NEW c \in Chan,
         NEW i \in Headers(c, Pipe')
  PROVE  LET k == OneIf(Takes(tready))
         IN  /\ i \in Nat \ {0} /\ k \in 0..1 /\ (Takes(tready) => k = 1)
             /\ i <= Len(Pipe') /\ Len(Pipe') \in Nat
             /\ \/ i + k \in Headers(c, Pipe) /\ Pipe'[i].num = Pipe[i + k].num
                \/ Puts(c) /\ Pipe'[i].num = buffered.num /\ i = Len(Pipe')
<1> DEFINE k == OneIf(Takes(tready))
<1>1. i \in DOMAIN Pipe' /\ HeaderOf(c, Pipe'[i])
  BY DEF Headers
<1>2. /\ i \in Nat \ {0} /\ k \in 0..1 /\ (Takes(tready) => k = 1)
      /\ i <= Len(Pipe') /\ Len(Pipe') \in Nat
  BY <1>1, PipeItems
<1>3. CASE i + k \in DOMAIN Pipe /\ Pipe'[i] = Pipe[i + k]
  <2>1. i + k \in Headers(c, Pipe)
    BY <1>1, <1>3 DEF Headers
  <2>2. QED
    BY <1>2, <1>3, <2>1
<1>4. CASE wen' /\ Pipe'[i] = beat' /\ i = Len(Pipe')
  <2>1. Puts(c) /\ Pipe'[i].num = buffered.num
    BY <1>1, <1>4, WaitingStep
  <2>2. QED
    BY <1>2, <1>4, <2>1
<1>5. QED
  BY <1>1, <1>3, <1>4, PipeItems

\* A word that the FIFO has now was taken before, or was the head of the pipe.
LEMMA TakenItems ==
  ASSUME TypeOK, NEW updates, NEW tready \in BOOLEAN, Tick(updates, tready),
         NEW c \in Chan, NEW i \in DOMAIN taken'[c]
  PROVE  /\ i \in Nat /\ i <= Len(taken'[c]) /\ Len(taken'[c]) \in Nat
         /\ \/ i \in DOMAIN taken[c] /\ taken'[c][i] = taken[c][i]
            \/ /\ TakesHeader(c, tready) /\ 1 \in Headers(c, Pipe)
               /\ taken'[c][i] = Pipe[1].num /\ i = Len(taken'[c])
<1>1. taken[c] \in Seq(Nat) /\ Len(taken[c]) \in Nat
  BY ChanTypes
<1>2. CASE TakesHeader(c, tready)
  <2>1. taken'[c] = Append(taken[c], Pipe[1].num)
    BY <1>2, TakenFacts
  <2>2. Pipe[1].num \in Nat /\ 1 \in Headers(c, Pipe)
    <3>1. Pipe \in Seq(Beats) /\ Pipe # <<>> /\ Pipe[1] \in Beats
      BY <1>2, PipeType DEF TakesHeader, Takes
    <3>2. 1 \in DOMAIN Pipe
      BY <3>1, AppendFacts, TailFacts
    <3>3. QED
      BY <1>2, <3>1, <3>2 DEF TakesHeader, Headers, Beats
  <2>3. /\ Len(taken'[c]) = Len(taken[c]) + 1
        /\ DOMAIN taken[c] = 1 .. Len(taken[c])
        /\ i \in 1 .. Len(taken[c]) + 1
        /\ \A j \in 1 .. Len(taken[c]) : taken'[c][j] = taken[c][j]
        /\ taken'[c][Len(taken[c]) + 1] = Pipe[1].num
    BY <1>1, <2>1, <2>2, AppendFacts
  <2>4. QED
    BY <1>1, <1>2, <2>2, <2>3
<1>3. CASE ~TakesHeader(c, tready)
  <2>1. taken'[c] = taken[c]
    BY <1>3, TakenFacts
  <2>2. QED
    BY <1>1, <2>1
<1>4. QED
  BY <1>2, <1>3

\* What is below n stays below n when the word it waits for is.
LEMMA PutBelowStep ==
  ASSUME TypeOK, RoomForBeat, StatePlace, TurnOfChannel,
         \A d \in Chan : NumbersInOrder(d),
         NEW updates, NEW tready \in BOOLEAN, Tick(updates, tready), NEW c \in Chan,
         NEW n, PutBelow(c, n), Puts(c) => buffered.num < n
  PROVE  PutBelow(c, n)'
<1>1. ASSUME NEW i \in DOMAIN taken'[c] PROVE taken'[c][i] < n
  <2>1. CASE i \in DOMAIN taken[c] /\ taken'[c][i] = taken[c][i]
    BY <2>1 DEF PutBelow
  <2>2. CASE 1 \in Headers(c, Pipe) /\ taken'[c][i] = Pipe[1].num
    BY <2>2 DEF PutBelow
  <2>3. QED
    BY <2>1, <2>2, TakenItems
<1>2. ASSUME NEW i \in Headers(c, Pipe') PROVE Pipe'[i].num < n
  BY HeaderItems DEF PutBelow
<1>3. Headers(c, Pipe)' = Headers(c, Pipe')
  BY DEF Headers
<1>4. QED
  BY <1>1, <1>2, <1>3 DEF PutBelow

\* The same with the word that comes into the buffer registers.
LEMMA BelowStep ==
  ASSUME TypeOK, RoomForBeat, StatePlace, TurnOfChannel,
         \A d \in Chan : NumbersInOrder(d),
         NEW updates, NEW tready \in BOOLEAN, Tick(updates, tready), NEW c \in Chan,
         NEW n, Below(c, n), Buffers(c) => muxed.num < n
  PROVE  Below(c, n)'
<1>1. PutBelow(c, n)'
  BY WaitingStep, PutBelowStep DEF Below
<1>2. ASSUME Waiting(c)' PROVE buffered'.num < n
  BY <1>2, WaitingStep DEF Below
<1>3. QED
  BY <1>1, <1>2 DEF Below

\* What is below n is below n + 1.
LEMMA BelowNext ==
  ASSUME TypeOK, NEW c \in Chan, NEW n \in Nat, Below(c, n)
  PROVE  Below(c, n + 1)
<1>1. \A i \in DOMAIN taken[c] : taken[c][i] \in Nat
  BY ChanTypes
<1>2. \A i \in Headers(c, Pipe) : Pipe[i].num \in Nat
  <2>1. Pipe \in Seq(Beats)
    BY PipeType
  <2>2. \A i \in DOMAIN Pipe : Pipe[i] \in Beats
    BY <2>1
  <2>3. QED
    BY <2>2 DEF Headers, Beats
<1>3. buffered.num \in Nat
  BY MaxWordsAssumption DEF TypeOK, Held, Word
<1>4. QED
  BY <1>1, <1>2, <1>3 DEF Below, PutBelow

\* A channel's words keep their order on the way.
LEMMA NumbersStep ==
  ASSUME TypeOK, RoomForBeat, StatePlace, TurnOfChannel,
         \A d \in Chan : NumbersInOrder(d),
         NEW updates, NEW tready \in BOOLEAN, Tick(updates, tready), NEW c \in Chan
  PROVE  NumbersInOrder(c)'
<1> USE BufferTypes
<1> DEFINE k == OneIf(Takes(tready))
<1>1. /\ NumbersInOrder(c) /\ received[c] \in Nat /\ muxed.num \in Nat
      /\ buffered.num \in Nat
  BY ChanTypes, MaxWordsAssumption DEF TypeOK, Held, Word
<1>2. word'[c] = received'[c]
  BY <1>1, ChanFacts DEF NumbersInOrder
<1>3. Buffers(c) => muxed.num <= received[c]
  BY <1>1 DEF NumbersInOrder, Buffers
<1>4. Below(c, received[c] + 1)'
  <2>1. PICK n \in Nat : n = received[c] + 1
    BY <1>1
  <2>2. Below(c, n) /\ Below(c, n + 1)
    BY <1>1, <2>1, BelowNext DEF NumbersInOrder
  <2>3. Buffers(c) => muxed.num < n /\ muxed.num < n + 1
    BY <1>1, <1>3, <2>1
  <2>4. Below(c, n)' /\ Below(c, n + 1)'
    BY <2>2, <2>3, BelowStep
  <2>5. received'[c] + 1 = IF c \in updates THEN n + 1 ELSE n
    BY <1>1, <2>1, ChanFacts
  <2>6. QED
    BY <2>4, <2>5
<1>5. ASSUME Pending(c)' PROVE Below(c, received[c])'
  <2>1. PICK n \in Nat : n = received'[c]
    BY <1>1, ChanFacts
  <2>2. ~Buffers(c) /\ (c \in updates \/ Pending(c))
    BY <1>5, ChanFacts
  <2>3. Below(c, n)
    <3>1. CASE c \in updates
      BY <1>1, <2>1, <3>1, ChanFacts DEF NumbersInOrder
    <3>2. CASE c \notin updates
      BY <1>1, <2>1, <2>2, <3>2, ChanFacts DEF NumbersInOrder
    <3>3. QED
      BY <3>1, <3>2
  <2>4. Below(c, n)'
    BY <2>2, <2>3, BelowStep
  <2>5. QED
    BY <2>1, <2>4
<1>6. ASSUME state' = "STREAM", frag' = 2, buffer_active', turn' = c
      PROVE  muxed'.chan = c /\ muxed'.num <= received'[c] /\ Below(c, muxed.num)'
  <2>1. /\ state = "STREAM" /\ turn = c /\ frag > 0
        /\ buffer_active' = buffer_active /\ ~Buffers(c)
    <3>1. state = "STREAM"
      BY <1>6, StateFacts
    <3>2. turn = c /\ frag > 0 /\ ~(~busy /\ frag = 2)
      BY <1>6, <3>1, StateFacts
    <3>3. QED
      BY <3>1, <3>2, InputFacts DEF Buffers
  <2>2. Pending(c) /\ chan_select = c
    BY <1>6, <2>1 DEF TurnOfChannel
  <2>3. muxed' = [chan |-> c, num |-> received[c]]
    BY <1>1, <2>2, InputFacts DEF NumbersInOrder
  <2>4. PICK n \in Nat : n = received[c]
    BY <1>1
  <2>5. Below(c, n)'
    BY <1>1, <2>1, <2>2, <2>4, BelowStep DEF NumbersInOrder
  <2>6. muxed'.num = n /\ muxed'.chan = c /\ n <= received'[c]
    BY <1>1, <2>3, <2>4, ChanFacts
  <2>7. QED
    BY <2>5, <2>6
<1>7. ASSUME Waiting(c)' PROVE PutBelow(c, buffered.num)'
  <2>1. CASE Buffers(c)
    <3>1. PICK n \in Nat : n = muxed.num
      BY <1>1
    <3>2. PutBelow(c, n) /\ ~Puts(c) /\ buffered'.num = n
      BY <1>1, <2>1, <3>1, WaitingStep DEF NumbersInOrder, Below, Buffers
    <3>3. PutBelow(c, n)'
      BY <3>2, PutBelowStep
    <3>4. QED
      BY <3>2, <3>3
  <2>2. CASE ~Buffers(c)
    <3>1. PICK n \in Nat : n = buffered.num
      BY <1>1
    <3>2. PutBelow(c, n) /\ ~Puts(c) /\ buffered'.num = n
      BY <1>1, <1>7, <2>2, <3>1, WaitingStep DEF NumbersInOrder
    <3>3. PutBelow(c, n)'
      BY <3>2, PutBelowStep
    <3>4. QED
      BY <3>2, <3>3
  <2>3. QED
    BY <2>1, <2>2
<1>8. Puts(c) => PutBelow(c, buffered.num)
  BY <1>1, WaitingStep DEF NumbersInOrder
<1>9. ASSUME NEW i \in Headers(c, Pipe'), NEW j \in DOMAIN taken'[c]
      PROVE  taken'[c][j] < Pipe'[i].num
  <2>1. CASE i + k \in Headers(c, Pipe) /\ Pipe'[i].num = Pipe[i + k].num
    <3>1. CASE j \in DOMAIN taken[c] /\ taken'[c][j] = taken[c][j]
      BY <1>1, <2>1, <3>1 DEF NumbersInOrder
    <3>2. CASE TakesHeader(c, tready) /\ 1 \in Headers(c, Pipe) /\ taken'[c][j] = Pipe[1].num
      <4>1. k = 1 /\ i \in Nat \ {0}
        <5>1. Takes(tready)
          BY <3>2 DEF TakesHeader
        <5>2. i \in Nat \ {0}
          BY HeaderItems
        <5>3. QED
          BY <5>1, <5>2 DEF OneIf
      <4>2. 1 < i + k
        BY <4>1
      <4>3. QED
        BY <1>1, <2>1, <3>2, <4>2 DEF NumbersInOrder
    <3>3. QED
      BY <3>1, <3>2, TakenItems
  <2>2. CASE Puts(c) /\ Pipe'[i].num = buffered.num
    <3>1. CASE j \in DOMAIN taken[c] /\ taken'[c][j] = taken[c][j]
      BY <1>8, <2>2, <3>1 DEF PutBelow
    <3>2. CASE 1 \in Headers(c, Pipe) /\ taken'[c][j] = Pipe[1].num
      BY <1>8, <2>2, <3>2 DEF PutBelow
    <3>3. QED
      BY <3>1, <3>2, TakenItems
  <2>3. QED
    BY <2>1, <2>2, HeaderItems
<1>10. ASSUME NEW i \in Headers(c, Pipe'), NEW j \in Headers(c, Pipe'), i < j
       PROVE  Pipe'[i].num < Pipe'[j].num
  <2>1. i \in Nat /\ j \in Nat /\ k \in Nat /\ j <= Len(Pipe') /\ Len(Pipe') \in Nat
    BY HeaderItems
  <2>2. i # Len(Pipe')
    BY <1>10, <2>1
  <2>3. i + k \in Headers(c, Pipe) /\ Pipe'[i].num = Pipe[i + k].num
    BY <2>2, HeaderItems
  <2>4. CASE j + k \in Headers(c, Pipe) /\ Pipe'[j].num = Pipe[j + k].num
    <3>1. i + k < j + k
      BY <1>10, <2>1
    <3>2. QED
      BY <1>1, <2>3, <2>4, <3>1 DEF NumbersInOrder
  <2>5. CASE Puts(c) /\ Pipe'[j].num = buffered.num
    BY <1>8, <2>3, <2>5 DEF PutBelow
  <2>6. QED
    BY <2>4, <2>5, HeaderItems
<1>11. Headers(c, Pipe)' = Headers(c, Pipe')
  BY DEF Headers
<1>12. QED
  BY <1>2, <1>4, <1>5, <1>6, <1>7, <1>9, <1>10, <1>11 DEF NumbersInOrder

\* The FIFO takes a channel's words in the order they came.
LEMMA TakenStep ==
  ASSUME TypeOK, RoomForBeat, StatePlace, TurnOfChannel,
         \A d \in Chan : NumbersInOrder(d),
         NEW updates, NEW tready \in BOOLEAN, Tick(updates, tready), NEW c \in Chan,
         \A i, j \in DOMAIN taken[c] : i < j => taken[c][i] < taken[c][j],
         NEW i \in DOMAIN taken'[c], NEW j \in DOMAIN taken'[c], i < j
  PROVE  taken'[c][i] < taken'[c][j]
<1>1. i \in Nat /\ j \in Nat /\ j <= Len(taken'[c]) /\ Len(taken'[c]) \in Nat
  BY TakenItems
<1>2. i # Len(taken'[c])
  BY <1>1
<1>3. i \in DOMAIN taken[c] /\ taken'[c][i] = taken[c][i]
  BY <1>2, TakenItems
<1>4. CASE j \in DOMAIN taken[c] /\ taken'[c][j] = taken[c][j]
  BY <1>3, <1>4
<1>5. CASE 1 \in Headers(c, Pipe) /\ taken'[c][j] = Pipe[1].num
  BY <1>3, <1>5 DEF NumbersInOrder
<1>6. QED
  BY <1>4, <1>5, TakenItems

-----------------------------------------------------------------------------
(***************************************************************************)
(* The rates.                                                              *)
(***************************************************************************)
\* A channel waits less than two rounds.
LEMMA DueBounds == TypeOK => \A c \in Chan : Due(c) \in 1 .. 6 * NumChan + 9
<1> SUFFICES ASSUME TypeOK, NEW c \in Chan
             PROVE  Due(c) \in 1 .. 6 * NumChan + 9
  OBVIOUS
<1>1. /\ c \in Nat /\ NumChan \in Nat /\ c <= NumChan - 1
      /\ turn \in Nat /\ turn <= NumChan /\ frag \in 0..2
  BY BufferTypes, ChanTypes
<1>2. state \in {"IDLE", "WAIT_STATE", "STREAM", "TRAILER"}
  BY BufferTypes
<1>3. Place = 3 * turn + frag /\ Place \in Nat
  BY <1>1 DEF Place
<1>4. CASE state = "IDLE"
  <2>1. Due(c) = 3 * c + 4 + OneIf(~valid_channel)
    BY <1>4 DEF Due
  <2>2. OneIf(~valid_channel) \in 0..1
    BY DEF OneIf
  <2>3. QED
    BY <1>1, <2>1, <2>2
<1>5. CASE state = "TRAILER"
  <2>1. Due(c) = 3 * c + 8 - frag
    BY <1>1, <1>5 DEF Due, InTrailer
  <2>2. QED
    BY <1>1, <2>1
<1>6. CASE state = "WAIT_STATE"
  <2>1. Due(c) = 6 * c + 9 + OneIf(~valid_channel)
    BY <1>6 DEF Due, InWait
  <2>2. OneIf(~valid_channel) \in 0..1
    BY DEF OneIf
  <2>3. QED
    BY <1>1, <2>1, <2>2
<1>7. CASE state = "STREAM" /\ TurnAhead(c)
  <2>1. /\ NotCut(c) => Due(c) = 3 * c + 3 - Place
        /\ ~NotCut(c) => Due(c) = 3 * c - Place + 3 * c + 8
    BY <1>1, <1>3, <1>7 DEF Due, InTrailer
  <2>2. turn < c \/ turn = c
    BY <1>7 DEF TurnAhead
  <2>3. Place <= 3 * c + 2
    BY <1>1, <1>3, <2>2
  <2>4. ~NotCut(c) => turn # c
    BY DEF NotCut
  <2>5. CASE NotCut(c)
    BY <1>1, <1>3, <2>1, <2>3, <2>5
  <2>6. CASE ~NotCut(c)
    <3>1. Place <= 3 * c - 1
      BY <1>1, <1>3, <2>2, <2>4, <2>6
    <3>2. QED
      BY <1>1, <1>3, <2>1, <2>6, <3>1
  <2>7. QED
    BY <2>5, <2>6
<1>8. CASE state = "STREAM" /\ ~TurnAhead(c)
  <2>1. Due(c) = 3 * NumChan + 3 - Place + 6 * c + 10
    BY <1>1, <1>3, <1>8 DEF Due, InWait
  <2>2. turn > c \/ (turn = c /\ frag > 0)
    BY <1>1, <1>8 DEF TurnAhead
  <2>3. Place >= 3 * c + 1 /\ Place <= 3 * NumChan + 2
    BY <1>1, <1>3, <2>2
  <2>4. QED
    BY <1>1, <1>3, <2>1, <2>3
<1>9. QED
  BY <1>2, <1>4, <1>5, <1>6, <1>7, <1>8

\* The same after an edge.
LEMMA DueBoundsNext == TypeOK' => (\A c \in Chan : Due(c) \in 1 .. 6 * NumChan + 9)'
BY DueBounds, PTL

\* A word that waits is seen by the state machine an edge later.
LEMMA SeenNext ==
  ASSUME TypeOK, NEW updates, NEW tready, Tick(updates, tready),
         NEW c \in Chan, Pending(c)
  PROVE  valid_channel'
<1>1. valid_channel' = \E d \in Chan : valid[d]
  BY DEF Tick, ValidEdge
<1>2. valid[c]
  BY DEF Pending
<1>3. QED
  BY <1>1, <1>2

\* Within a round: the next edge of the turn, or the next turn.
LEMMA DueInRound ==
  ASSUME TypeOK, FullAtMaximum, NEW updates, NEW tready, Tick(updates, tready),
         ~busy, NEW c \in Chan, Pending(c), ~Buffers(c),
         state = "STREAM", state' = "STREAM"
  PROVE  Due(c)' <= Due(c) - 1
<1> USE BufferTypes, ChanTypes
<1>1. /\ frag # 2 => turn' = turn /\ frag' = frag + 1
      /\ frag = 2 => turn' = turn + 1 /\ frag' = 0 /\ ~packet_full
  <2>1. frag = 2 => ~packet_full /\ turn # NumChan /\ frag' = 0
    BY StateFacts
  <2>2. turn' = IF busy \/ frag # 2 THEN turn
                ELSE IF turn < NumChan THEN turn + 1 ELSE 0
    BY StateFacts
  <2>3. frag # 2 => frag' = frag + 1
    BY StateFacts
  <2>4. QED
    BY <2>1, <2>2, <2>3
<1>2. Place' = Place + 1 /\ Place \in Nat
  <2>1. CASE frag = 2
    BY <1>1, <2>1 DEF Place
  <2>2. CASE frag # 2
    BY <1>1, <2>2 DEF Place
  <2>3. QED
    BY <2>1, <2>2
<1>3. /\ sent_counter' \in Nat
      /\ frag = 0 => sent_counter' <= sent_counter + 1
      /\ frag # 0 => sent_counter' = sent_counter
  BY OutputFacts DEF Streams
<1>4. CASE TurnAhead(c)
  <2>1. TurnAhead(c)'
    <3>1. CASE turn < c
      BY <1>1, <3>1 DEF TurnAhead
    <3>2. CASE turn = c /\ frag = 0
      <4>1. buffer_active'
        BY <3>2, InputFacts DEF Pending
      <4>2. QED
        BY <1>1, <3>2, <4>1 DEF TurnAhead
    <3>3. CASE turn = c /\ frag = 1 /\ buffer_active
      <4>1. ~(state = "STREAM" /\ ~busy /\ frag = 0)
        BY <3>3
      <4>2. buffer_active' = buffer_active
        BY <4>1, InputFacts, Zenon
      <4>3. QED
        BY <1>1, <3>3, <4>2 DEF TurnAhead
    <3>4. CASE turn = c /\ frag = 2 /\ buffer_active
      BY <3>4 DEF Buffers
    <3>5. QED
      BY <1>4, <3>1, <3>2, <3>3, <3>4 DEF TurnAhead
  <2>2. turn <= c /\ (frag = 2 => turn < c)
    BY <1>4 DEF TurnAhead, Buffers
  <2>3. NotCut(c) => NotCut(c)'
    BY <1>1, <1>3, <2>2 DEF NotCut, OneIf
  <2>4. /\ Due(c) = IF NotCut(c) THEN 3 * c + 3 - Place
                                 ELSE 3 * c - Place + InTrailer(c)
        /\ Due(c)' = IF NotCut(c)' THEN 3 * c + 3 - Place'
                                   ELSE 3 * c - Place' + InTrailer(c)
    BY <1>4, <2>1 DEF Due, InTrailer
  <2>5. CASE NotCut(c)
    <3>1. Due(c) = 3 * c + 3 - Place /\ Due(c)' = 3 * c + 3 - Place'
      BY <2>3, <2>4, <2>5
    <3>2. QED
      BY <1>2, <3>1
  <2>6. CASE ~NotCut(c)
    <3>1. Due(c) = 3 * c - Place + InTrailer(c) /\ InTrailer(c) = 3 * c + 8
      BY <2>4, <2>6 DEF InTrailer
    <3>2. \/ Due(c)' = 3 * c + 3 - Place'
          \/ Due(c)' = 3 * c - Place' + InTrailer(c)
      BY <2>4
    <3>3. QED
      BY <1>2, <3>1, <3>2
  <2>7. QED
    BY <2>5, <2>6
<1>5. CASE ~TurnAhead(c)
  <2>1. ~TurnAhead(c)'
    BY <1>1, <1>5, InputFacts DEF TurnAhead
  <2>2. /\ Due(c) = 3 * NumChan + 3 - Place + InWait(c) + 1
        /\ Due(c)' = 3 * NumChan + 3 - Place' + InWait(c) + 1
    BY <1>5, <2>1 DEF Due, InWait
  <2>3. QED
    BY <1>2, <2>2 DEF InWait
<1>6. QED
  BY <1>4, <1>5

\* At the end of a round, or of a packet that is full.
LEMMA DueAfterRound ==
  ASSUME TypeOK, FullAtMaximum, NEW updates, NEW tready, Tick(updates, tready),
         ~busy, NEW c \in Chan, Pending(c), ~Buffers(c),
         state = "STREAM", state' # "STREAM"
  PROVE  Due(c)' <= Due(c) - 1
<1> USE BufferTypes, ChanTypes
<1>1. /\ frag = 2 /\ frag' = 0
      /\ state' = IF packet_full THEN "TRAILER" ELSE "WAIT_STATE"
      /\ ~packet_full => turn = NumChan
  BY StateFacts
<1>2. Place = 3 * turn + 2
  BY <1>1 DEF Place
<1>3. CASE TurnAhead(c)
  <2>1. turn < c /\ packet_full
    BY <1>1, <1>3 DEF TurnAhead, Buffers
  <2>2. ~NotCut(c)
    BY <1>1, <2>1 DEF NotCut, FullAtMaximum, OneIf
  <2>3. Due(c) = 3 * c - Place + InTrailer(c)
    BY <1>3, <2>2 DEF Due
  <2>4. Due(c)' = InTrailer(c)
    BY <1>1, <2>1 DEF Due, InTrailer
  <2>5. QED
    BY <1>2, <2>1, <2>3, <2>4 DEF InTrailer
<1>4. CASE ~TurnAhead(c)
  <2>1. Due(c) = 3 * NumChan + 3 - Place + InWait(c) + 1
    BY <1>4 DEF Due
  <2>2. packet_full => Due(c)' = InTrailer(c)
    BY <1>1 DEF Due, InTrailer
  <2>3. ~packet_full => Due(c)' = InWait(c)
    BY <1>1, SeenNext DEF Due, InWait, OneIf
  <2>4. ~packet_full => Due(c) = InWait(c) + 2
    BY <1>1, <1>2, <2>1 DEF InWait
  <2>5. Due(c) \in Int /\ Due(c) >= InWait(c) + 2
    <3>1. Place \in Nat /\ Place <= 3 * NumChan + 2 /\ NumChan \in Nat
      BY <1>2
    <3>2. InWait(c) \in Nat
      BY DEF InWait
    <3>3. QED
      BY <2>1, <3>1, <3>2
  <2>6. CASE packet_full
    BY <2>2, <2>5, <2>6 DEF InTrailer, InWait
  <2>7. CASE ~packet_full
    BY <2>3, <2>4, <2>7 DEF InWait
  <2>8. QED
    BY <2>6, <2>7
<1>5. QED
  BY <1>3, <1>4

\* Outside of a round.
LEMMA DueElsewhere ==
  ASSUME TypeOK, NEW updates, NEW tready, Tick(updates, tready),
         ~busy, NEW c \in Chan, Pending(c), state # "STREAM",
         MaxSent = 0 \/ MaxSent >= NumChan
  PROVE  Due(c)' <= Due(c) - 1
<1> USE BufferTypes, ChanTypes
<1>1. valid_channel'
  BY SeenNext
<1>2. CASE state = "IDLE"
  <2>1. Due(c) = 3 * c + 4 + OneIf(~valid_channel)
    BY <1>2 DEF Due
  <2>2. CASE valid_channel
    <3>1. state' = "STREAM" /\ turn' = 0 /\ frag' = 0 /\ sent_counter' = 0
      BY <1>2, <2>2, StateFacts, OutputFacts
    <3>2. TurnAhead(c)' /\ NotCut(c)'
      BY <3>1 DEF TurnAhead, NotCut, OneIf
    <3>3. Due(c)' = 3 * c + 3
      BY <3>1, <3>2 DEF Due, Place
    <3>4. QED
      BY <2>1, <2>2, <3>3 DEF OneIf
  <2>3. CASE ~valid_channel
    <3>1. state' = "IDLE"
      BY <1>2, <2>3, StateFacts
    <3>2. Due(c)' = 3 * c + 4
      BY <1>1, <3>1 DEF Due, OneIf
    <3>3. QED
      BY <2>1, <2>3, <3>2 DEF OneIf
  <2>4. QED
    BY <2>2, <2>3
<1>3. CASE state = "TRAILER"
  <2>1. Due(c) = InTrailer(c) - frag
    BY <1>3 DEF Due
  <2>2. CASE frag = 2
    <3>1. state' = "IDLE"
      BY <1>3, <2>2, StateFacts
    <3>2. Due(c)' = 3 * c + 4
      BY <1>1, <3>1 DEF Due, OneIf
    <3>3. QED
      BY <2>1, <2>2, <3>2 DEF InTrailer
  <2>3. CASE frag # 2
    <3>1. state' = "TRAILER" /\ frag' = frag + 1
      BY <1>3, <2>3, StateFacts
    <3>2. Due(c)' = InTrailer(c) - (frag + 1)
      BY <3>1 DEF Due, InTrailer
    <3>3. QED
      BY <2>1, <3>2 DEF InTrailer
  <2>4. QED
    BY <2>2, <2>3
<1>4. CASE state = "WAIT_STATE"
  <2>1. Due(c) = InWait(c) + OneIf(~valid_channel)
    BY <1>4 DEF Due
  <2>2. OneIf(~valid_channel) \in Nat /\ (~valid_channel => OneIf(~valid_channel) = 1)
    BY DEF OneIf
  <2>3. CASE packet_timeout
    <3>1. state' = "TRAILER" /\ frag' = 0
      BY <1>4, <2>3, StateFacts
    <3>2. Due(c)' = InTrailer(c)
      BY <3>1 DEF Due, InTrailer
    <3>3. QED
      BY <2>1, <2>2, <3>2 DEF InTrailer, InWait
  <2>4. CASE ~packet_timeout /\ valid_channel
    <3>1. state' = "STREAM" /\ turn' = 0 /\ frag' = 0
      BY <1>4, <2>4, StateFacts
    <3>2. TurnAhead(c)' /\ Place' = 0
      BY <3>1 DEF TurnAhead, Place
    <3>3. Due(c)' = IF NotCut(c)' THEN 3 * c + 3 - Place'
                                  ELSE 3 * c - Place' + InTrailer(c)
      BY <3>1, <3>2 DEF Due, InTrailer
    <3>4. QED
      BY <2>1, <2>2, <3>2, <3>3 DEF InTrailer, InWait
  <2>5. CASE ~packet_timeout /\ ~valid_channel
    <3>1. state' = "WAIT_STATE"
      BY <1>4, <2>5, StateFacts
    <3>2. Due(c)' = InWait(c)
      BY <1>1, <3>1 DEF Due, InWait, OneIf
    <3>3. QED
      BY <2>1, <2>2, <2>5, <3>2 DEF InWait
  <2>6. QED
    BY <2>3, <2>4, <2>5
<1>5. QED
  BY <1>2, <1>3, <1>4

\* A FIFO that takes each beat at once leaves room for the next.
LEMMA NeverBusy ==
  ASSUME TypeOK, RoomForBeat, NEW updates, NEW tready \in BOOLEAN,
         Tick(updates, tready), ~stalled', ~stalled => ~busy /\ Len(fifo) <= 1
  PROVE  ~stalled /\ ~busy /\ ~busy' /\ Len(fifo') <= 1
<1> DEFINE left == IF Offered /\ tready THEN Tail(fifo) ELSE fifo
<1>1. stalled' = (stalled \/ (Offered /\ ~tready))
  BY DEF Tick, Take
<1>2. ~stalled /\ (Offered => tready) /\ ~busy /\ Len(fifo) <= 1
  BY <1>1
<1>3. /\ fifo \in Seq(Beats) /\ beat \in Beats /\ Len(fifo) \in Nat
  BY DEF TypeOK
<1>4. left \in Seq(Beats) /\ Len(left) = 0
  <2>1. CASE fifo = <<>>
    BY <1>3, <2>1 DEF Offered
  <2>2. CASE fifo # <<>>
    <3>1. left = Tail(fifo)
      BY <1>2, <2>2 DEF Offered
    <3>2. Tail(fifo) \in Seq(Beats) /\ Len(Tail(fifo)) = Len(fifo) - 1 /\ Len(fifo) > 0
      BY <1>3, <2>2, TailFacts
    <3> HIDE DEF left
    <3>3. QED
      BY <1>2, <1>3, <3>1, <3>2
  <2>3. QED
    BY <2>1, <2>2
<1>5. /\ fifo' = IF wen /\ Len(left) < Depth THEN Append(left, beat) ELSE left
      /\ busy' = BusyAfter(Len(fifo'))
  BY DEF Tick, AxisEdge
<1> HIDE DEF left
<1>6. Len(fifo') \in Nat /\ Len(fifo') <= 1
  BY <1>3, <1>4, <1>5, AppendFacts
<1>7. busy' = (Len(fifo') > 1)
  BY <1>2, <1>5 DEF BusyAfter
<1>8. ~busy'
  <2>1. (Len(fifo') > 1) = FALSE
    BY <1>6
  <2>2. QED
    BY <1>7, <2>1
<1>9. QED
  BY <1>2, <1>6, <1>8

\* The next word of a channel comes no sooner than its UART allows.
LEMMA SinceFacts ==
  ASSUME TypeOK, NEW updates \in SUBSET Completes, NEW tready,
         Tick(updates, tready), NEW c \in Chan
  PROVE  /\ c \in updates => since[c] = MinGap /\ received[c] < MaxWords
         /\ received'[c] < MaxWords /\ c \in updates => since'[c] = 1
         /\ received'[c] < MaxWords /\ c \notin updates => since'[c] <= since[c] + 1
<1>1. c \in updates => since[c] = MinGap /\ received[c] < MaxWords
  BY DEF Completes
<1>2. since[c] \in 0..MinGap /\ MinGap \in Nat /\ MaxWords \in Nat
  BY ChanTypes, MinGapAssumption, MaxWordsAssumption
<1>3. since'[c] = CASE received'[c] = MaxWords -> MinGap
                    [] received'[c] < MaxWords /\ c \in updates -> 1
                    [] received'[c] < MaxWords /\ c \notin updates ->
                         IF since[c] < MinGap THEN since[c] + 1 ELSE MinGap
  BY DEF Tick, ChanEdge
<1>4. received'[c] \in Nat
  BY ChanFacts, ChanTypes
<1>5. QED
  BY <1>1, <1>2, <1>3, <1>4

\* Until the first stall each word gets its ready before the next one comes.
LEMMA InTimeStep ==
  ASSUME TypeOK, RoomForBeat, FullAtMaximum, RoundsFit, ReadyInTime,
         NEW updates \in SUBSET Completes, NEW tready \in BOOLEAN,
         Tick(updates, tready), TypeOK'
  PROVE  ReadyInTime'
<1> SUFFICES ASSUME ~stalled' PROVE ReadyInTime'
  BY DEF ReadyInTime
<1>1. ~stalled /\ ~busy /\ ~busy' /\ Len(fifo') <= 1
  BY NeverBusy DEF ReadyInTime
<1>2. ASSUME NEW c \in Chan
      PROVE  /\ lost'[c] = 0
             /\ Pending(c)' /\ received'[c] < MaxWords => since'[c] + Due(c)' <= MinGap
  <2>1. /\ Due(c) \in 1 .. 6 * NumChan + 9
        /\ since[c] \in 0..MinGap /\ since'[c] \in 0..MinGap
        /\ NumChan \in Nat /\ MinGap \in Nat
        /\ MinGap >= 6 * NumChan + 10 /\ (MaxSent = 0 \/ MaxSent >= NumChan)
    <3>1. since'[c] \in 0..MinGap
      BY DEF TypeOK
    <3>2. MinGap >= 6 * NumChan + 10 /\ (MaxSent = 0 \/ MaxSent >= NumChan)
      BY DEF RoundsFit
    <3>3. QED
      BY <3>1, <3>2, DueBounds, ChanTypes, BufferTypes, MinGapAssumption
  <2>2. Due(c)' \in 1 .. 6 * NumChan + 9
    BY DueBoundsNext
  <2>3. /\ lost[c] = 0
        /\ Pending(c) /\ received[c] < MaxWords => since[c] + Due(c) <= MinGap
    BY <1>1 DEF ReadyInTime
  <2>4. c \in updates => ~Pending(c)
    <3>1. c \in updates => since[c] = MinGap /\ received[c] < MaxWords
      BY SinceFacts
    <3>2. QED
      BY <2>1, <2>3, <3>1
  <2>5. lost'[c] = 0
    BY <2>3, <2>4, ChanFacts
  <2>6. ASSUME Pending(c)', received'[c] < MaxWords
        PROVE  since'[c] + Due(c)' <= MinGap
    <3>1. CASE c \in updates
      <4>1. since'[c] = 1
        BY <2>6, <3>1, SinceFacts
      <4>2. QED
        BY <2>1, <2>2, <4>1
    <3>2. CASE c \notin updates
      <4>1. /\ Pending(c) /\ ~Buffers(c) /\ received[c] < MaxWords
            /\ since'[c] <= since[c] + 1
        BY <2>6, <3>2, ChanFacts, SinceFacts
      <4>2. Due(c)' <= Due(c) - 1
        BY <1>1, <2>1, <4>1, DueInRound, DueAfterRound, DueElsewhere
      <4>3. QED
        BY <2>1, <2>2, <2>3, <4>1, <4>2
    <3>3. QED
      BY <3>1, <3>2
  <2>7. QED
    BY <2>5, <2>6
<1>3. QED
  BY <1>1, <1>2 DEF ReadyInTime

-----------------------------------------------------------------------------
(***************************************************************************)
(* The invariant.                                                          *)
(***************************************************************************)
\* RxStreamInv but for the packets, which are well formed by StreamLinked.
Inductive ==
  /\ TypeOK /\ RoomForBeat
  /\ StreamLinked /\ StatePlace /\ FullAtMaximum /\ RoundFindsWord
  /\ TurnOfChannel /\ \A c \in Chan : NumbersInOrder(c)
  /\ EveryWordAccounted
  /\ RoundsFit => ReadyInTime

\* After the reset nothing is on the way.
LEMMA InitInv == Init => Inductive
<1> SUFFICES ASSUME Init PROVE Inductive
  OBVIOUS
<1> USE NumChanAssumption, ConfigAssumption, MinGapAssumption, MaxWordsAssumption,
        DepthAssumption DEF Init, AxisInit
<1>1. 0 \in Chan /\ 0 \in Word /\ NoBeat \in Beats /\ NoBeat.part = "none"
      /\ NoBeat.nth = 0
  BY DEF Chan, Word, NoBeat, Beat, Beats
<1>2. TypeOK
  <2>1. <<>> \in Seq(Beats) /\ Len(<<>>) = 0
    OBVIOUS
  <2>2. fifo \in Seq(Beats) /\ Len(fifo) <= Depth /\ busy \in BOOLEAN
    <3>1. fifo = <<>> /\ busy \in BOOLEAN
      BY DEF AxisInit
    <3>2. 0 <= Depth
      BY DepthAssumption
    <3>3. QED
      BY <2>1, <3>1, <3>2
  <2>3. /\ since \in [Chan -> 0..MinGap] /\ received \in [Chan -> Word]
        /\ word \in [Chan -> Word] /\ valid \in [Chan -> BOOLEAN]
        /\ lost \in [Chan -> Nat] /\ ready \in [Chan -> BOOLEAN]
        /\ taken \in [Chan -> Seq(Nat)]
    BY <1>1
  <2>4. muxed \in Held /\ buffered \in Held
    BY <1>1 DEF Held
  <2>5. QED
    BY <1>1, <2>1, <2>2, <2>3, <2>4 DEF TypeOK, LastFrag
<1>3. Pipe = <<>> /\ fifo = <<>> /\ Len(fifo) = 0
  BY DEF Pipe
<1>4. RoomForBeat
  BY <1>3 DEF RoomForBeat
<1>5. LastPut = NoBeat
  BY <1>3 DEF LastPut, LastOf
<1>6. StreamLinked
  BY <1>1, <1>3 DEF StreamLinked, Chain, WordsAfter
<1>7. StatePlace /\ FullAtMaximum /\ RoundFindsWord
  BY <1>5 DEF StatePlace, FullAtMaximum, RoundFindsWord
<1>8. TurnOfChannel
  BY DEF TurnOfChannel
<1>9. ASSUME NEW c \in Chan
      PROVE  /\ Headers(c, Pipe) = {} /\ taken[c] = <<>> /\ ~Waiting(c) /\ ~Pending(c)
             /\ received[c] = 0 /\ word[c] = 0 /\ lost[c] = 0
  BY <1>3 DEF Headers, Waiting, Pending
<1>10. ASSUME NEW c \in Chan PROVE NumbersInOrder(c)
  BY <1>9 DEF NumbersInOrder, Below, PutBelow
<1>11. EveryWordAccounted
  <2>1. Cardinality({}) = 0 /\ Len(<<>>) = 0
    BY FS_EmptySet
  <2>2. ASSUME NEW c \in Chan
        PROVE  /\ received[c] = lost[c] + OnTheWay(c) + Len(taken[c])
               /\ \A i, j \in DOMAIN taken[c] : i < j => taken[c][i] < taken[c][j]
    <3>1. OnTheWay(c) = 0
      <4>1. Cardinality(Headers(c, Pipe)) = 0
        BY <1>9, <2>1
      <4>2. OneIf(Pending(c)) = 0 /\ OneIf(Waiting(c)) = 0
        BY <1>9 DEF OneIf
      <4>3. QED
        BY <4>1, <4>2 DEF OnTheWay
    <3>2. Len(taken[c]) = 0 /\ DOMAIN taken[c] = {}
      BY <1>9, <2>1
    <3>3. QED
      BY <1>9, <3>1, <3>2
  <2>3. QED
    BY <2>2 DEF EveryWordAccounted
<1>12. ReadyInTime
  BY <1>3, <1>9 DEF ReadyInTime
<1>13. QED
  BY <1>2, <1>4, <1>6, <1>7, <1>8, <1>10, <1>11, <1>12 DEF Inductive

\* Every edge keeps the invariant.
LEMMA EdgeInv ==
  ASSUME Inductive, NEW updates \in SUBSET Completes, NEW tready \in BOOLEAN,
         Tick(updates, tready)
  PROVE  Inductive'
<1>1. /\ TypeOK /\ RoomForBeat /\ StreamLinked /\ StatePlace /\ FullAtMaximum
      /\ RoundFindsWord /\ TurnOfChannel /\ EveryWordAccounted
      /\ \A c \in Chan : NumbersInOrder(c)
  BY DEF Inductive
<1>2. TypeOK'
  BY <1>1, TypeStep
<1>3. RoomForBeat'
  BY <1>1, PipeEdge, BeatType
<1>4. StreamLinked'
  BY <1>1, StreamStep
<1>5. StatePlace' /\ FullAtMaximum'
  BY <1>1, PlaceStep, FullStep
<1>6. RoundFindsWord' /\ TurnOfChannel'
  BY <1>1, RoundStep, TurnStep
<1>7. \A c \in Chan : NumbersInOrder(c)'
  BY <1>1, NumbersStep
<1>8. EveryWordAccounted'
  <2>1. ASSUME NEW c \in Chan
        PROVE  /\ received'[c] = lost'[c] + OnTheWay(c)' + Len(taken'[c])
               /\ \A i, j \in DOMAIN taken'[c] : i < j => taken'[c][i] < taken'[c][j]
    <3>1. /\ received[c] = lost[c] + OnTheWay(c) + Len(taken[c])
          /\ \A i, j \in DOMAIN taken[c] : i < j => taken[c][i] < taken[c][j]
      BY <1>1 DEF EveryWordAccounted
    <3>2. received'[c] = lost'[c] + OnTheWay(c)' + Len(taken'[c])
      BY <1>1, <3>1, AccountStep
    <3>3. QED
      BY <1>1, <3>1, <3>2, TakenStep
  <2>2. QED
    BY <2>1 DEF EveryWordAccounted
<1>9. RoundsFit => ReadyInTime'
  BY <1>1, <1>2, InTimeStep DEF Inductive
<1>10. RoundsFit' <=> RoundsFit
  BY DEF RoundsFit
<1>11. QED
  BY <1>2, <1>3, <1>4, <1>5, <1>6, <1>7, <1>8, <1>9, <1>10 DEF Inductive

\* Stuttering keeps it, since it speaks of the variables only.
LEMMA StutterInv ==
  ASSUME Inductive, UNCHANGED vars
  PROVE  Inductive'
<1> USE DEF vars, axisVars, chanVars, inputVars, fsmVars, outVars, takeVars
<1>1. TypeOK' /\ RoomForBeat'
  BY DEF Inductive, TypeOK, RoomForBeat
<1>2. Pipe' = Pipe
  BY DEF Pipe
<1>3. LastPut' = LastPut
  BY <1>2 DEF LastPut, LastOf
<1>4. StreamLinked'
  BY <1>2 DEF Inductive, StreamLinked, Chain, WordsAfter
<1>5. StatePlace'
  BY <1>3 DEF Inductive, StatePlace, BetweenWords, WordsAfter
<1>6. FullAtMaximum'
  BY DEF Inductive, FullAtMaximum
<1>7. RoundFindsWord' /\ TurnOfChannel'
  BY DEF Inductive, RoundFindsWord, TurnOfChannel, Pending
<1>8. ASSUME NEW c \in Chan
      PROVE  /\ Pending(c)' <=> Pending(c)
             /\ Waiting(c)' <=> Waiting(c)
             /\ Headers(c, Pipe)' = Headers(c, Pipe)
  BY <1>2 DEF Pending, Waiting, Headers
<1>9. ASSUME NEW c \in Chan PROVE NumbersInOrder(c)'
  <2>1. NumbersInOrder(c)
    BY DEF Inductive
  <2>2. QED
    BY <1>2, <1>8, <2>1 DEF NumbersInOrder, Below, PutBelow
<1>10. EveryWordAccounted'
  BY <1>8 DEF Inductive, EveryWordAccounted, OnTheWay, OneIf
<1>11. ReadyInTime => ReadyInTime'
  <2>1. ASSUME NEW c \in Chan PROVE Due(c)' = Due(c)
    BY DEF Due, Place, TurnAhead, NotCut
  <2>2. QED
    BY <1>8, <2>1 DEF ReadyInTime
<1>12. RoundsFit' <=> RoundsFit
  BY DEF RoundsFit
<1>13. QED
  BY <1>1, <1>4, <1>5, <1>6, <1>7, <1>9, <1>10, <1>11, <1>12 DEF Inductive

\* The inductive invariant: stream, state machine, turns and the words of each
\* channel agree at every edge, however the FIFO stalls and packets time out.
THEOREM RxStreamCorrect == Spec => []RxStreamInv
<1>1. Inductive /\ [Next]_vars => Inductive'
  BY EdgeInv, StutterInv DEF Next
<1>2. Inductive => RxStreamInv
  BY ChainWellFormed DEF Inductive, RxStreamInv
<1>3. QED
  BY InitInv, <1>1, <1>2, PTL DEF Spec

\* Each word a UART completes is on its way, was taken by the FIFO, or was noted
\* as lost, just once, and the FIFO takes each channel's words in order.
THEOREM WordsAccounted == Spec => []EveryWordAccounted
<1>1. RxStreamInv => EveryWordAccounted
  BY DEF RxStreamInv
<1>2. QED
  BY <1>1, RxStreamCorrect, PTL

\* The stream is packets of whole words, none empty, none above the maximum, and
\* each with its true count.
THEOREM WellFormed == Spec => []PacketsWellFormed
<1>1. RxStreamInv => PacketsWellFormed
  BY DEF RxStreamInv
<1>2. QED
  BY <1>1, RxStreamCorrect, PTL

\* While the FIFO takes each beat at once, no word is lost: a channel gets its
\* ready within two rounds, and its UART needs longer for the next word, if a
\* packet may hold a word of each channel.
THEOREM NothingLost ==
  ASSUME RoundsFit
  PROVE  Spec => []NothingLostUnstalled
<1>1. RxStreamInv => NothingLostUnstalled
  BY DEF RxStreamInv, ReadyInTime, NothingLostUnstalled
<1>2. QED
  BY <1>1, RxStreamCorrect, PTL

=============================================================================
