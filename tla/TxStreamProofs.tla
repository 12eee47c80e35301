--------------------------- MODULE TxStreamProofs ---------------------------
(***************************************************************************)
(* TxStreamInv is an inductive invariant of TxStream for any number of     *)
(* channels, all modes and delays, every phase of the ASIC clock and words *)
(* that take two edges or more to shift out.                               *)
(***************************************************************************)
EXTENDS TxStream, SequenceTheorems, WellFoundedInduction, TLAPS

-----------------------------------------------------------------------------
\* A nonempty set of naturals has a least element.
LEMMA LeastElement ==
  ASSUME NEW S \in SUBSET Nat, S # {}
  PROVE  \E m \in S : \A y \in S : m <= y
<1>1. PICK m \in S : \A y \in S : <<y, m>> \notin OpToRel(<, Nat)
  BY NatLessThanWellFounded, WFMin, Zenon
<1>2. \A y \in S : ~(y < m)
  <2> SUFFICES ASSUME NEW y \in S, y < m PROVE FALSE
    OBVIOUS
  <2>1. <<y, m>> \in Nat \X Nat /\ <<y, m>>[1] = y /\ <<y, m>>[2] = m
    OBVIOUS
  <2>2. <<y, m>> \in OpToRel(<, Nat)
    BY <2>1, Zenon DEF OpToRel
  <2>3. QED
    BY <1>1, <2>2
<1>3. QED
  BY <1>2

\* MaxDelay is the longest of the delays.
LEMMA MaxDelayFacts ==
  MaxDelay \in Delays /\ MaxDelay \in Nat /\ \A d \in Delays : d <= MaxDelay
<1>1. \A d \in Delays : d \in Nat /\ d <= 65535
  BY DelaysAssumption
<1> DEFINE Room == {n \in Nat : \E d \in Delays : n = 65535 - d}
<1>2. Room \in SUBSET Nat
  OBVIOUS
<1>3. \A d \in Delays : 65535 - d \in Room
  BY <1>1
<1>4. Room # {}
  BY <1>3, DelaysAssumption
<1>5. PICK r \in Room : \A s \in Room : r <= s
  <2> HIDE DEF Room
  <2>1. QED
    BY <1>2, <1>4, LeastElement
<1>6. PICK d \in Delays : r = 65535 - d
  OBVIOUS
<1>7. \A e \in Delays : r <= 65535 - e
  BY <1>3, <1>5
<1>8. \A e \in Delays : e <= d
  <2> HIDE DEF Room
  <2>1. QED
    BY <1>1, <1>6, <1>7
<1>9. MaxDelay \in Delays /\ \A e \in Delays : e <= MaxDelay
  BY <1>8 DEF MaxDelay
<1>10. QED
  BY <1>1, <1>9

\* What a step is: one edge of the clock with some inputs.
LEMMA StepIsTick ==
  ASSUME Next
  PROVE  \E offered \in BOOLEAN, mask \in SUBSET Uart, rise \in BOOLEAN :
           (offered => MayOffer) /\ Tick(offered, mask, rise)
BY DEF Next

-----------------------------------------------------------------------------
\* One edge as one channel sees it.
LEMMA ChanFacts ==
  ASSUME TypeOK, NEW offered \in BOOLEAN, NEW mask \in SUBSET Uart,
         NEW rise \in BOOLEAN, Tick(offered, mask, rise), NEW c \in Uart
  PROVE  /\ mode'[c] = mode[c] /\ delay'[c] = delay[c]
         /\ rests'[c] = RestsAfter(c)
         /\ valid'[c] = (c \in uart_valid /\ (RestsAfter(c) >= delay[c] \/ valid[c]))
         /\ busy_z'[c] = busy[c]
         /\ ready'[c] = Accepts(c)
         /\ ustate'[c] = UartState(c, rise) /\ left'[c] = UartLeft(c)
         /\ srg'[c] = (IF ustate[c] = "IDLE" THEN uart_data[c] ELSE srg[c])
         /\ busy'[c] = (ustate[c] # "IDLE")
         /\ beats'[c] = (IF c \in uart_valid /\ ready[c] THEN beats[c] + 1 ELSE beats[c])
         /\ sent'[c] = (IF Finishes(c) /\ ~Stuck(c) THEN Append(sent[c], srg[c])
                                                    ELSE sent[c])
BY DEF Tick, ChanEdge, UartEdge, BeatsEdge, History, configVars

\* The state of one channel, by type.
LEMMA ChanTypes ==
  ASSUME TypeOK, NEW c \in Uart
  PROVE  /\ mode[c] \in Modes /\ delay[c] \in Delays /\ delay[c] \in Nat
         /\ pdata.word[c] \in Word /\ uart_data[c] \in Word /\ srg[c] \in Word
         /\ rests[c] \in Nat /\ gap[c] \in Nat /\ beats[c] \in Nat
         /\ valid[c] \in BOOLEAN /\ busy_z[c] \in BOOLEAN
         /\ ready[c] \in BOOLEAN /\ busy[c] \in BOOLEAN
         /\ ustate[c] \in {"IDLE", "WT", "DELAY", "SHIFT"} /\ left[c] \in 0..MaxLeft
         /\ due[c] \in Seq(Word) /\ sent[c] \in Seq(Word)
<1>1. mode[c] \in Modes /\ delay[c] \in Delays
  BY DEF TypeOK
<1>2. pdata.word[c] \in Word
  BY DEF TypeOK
<1>3. rests[c] \in Nat /\ gap[c] \in Nat
  BY MaxDelayFacts DEF TypeOK
<1>4. beats[c] \in Nat
  BY MaxPacketsAssumption DEF TypeOK, Word
<1>5. delay[c] \in Nat
  BY <1>1, DelaysAssumption
<1>6. QED
  BY <1>1, <1>2, <1>3, <1>4, <1>5 DEF TypeOK

\* The packet axis_read holds, by type.
LEMMA ReadTypes ==
  ASSUME TypeOK
  PROVE  /\ packets \in Word /\ packets \in Nat
         /\ beat \in 0..NumUart /\ NumUart \in Nat \ {0} /\ pvalid \in BOOLEAN
         /\ pdata \in [mask : SUBSET Uart, word : [Uart -> Word]]
         /\ uart_valid \in SUBSET Uart /\ uart_data \in [Uart -> Word]
<1>1. packets \in Word
  BY DEF TypeOK
<1>2. packets \in Nat
  BY <1>1, MaxPacketsAssumption DEF Word
<1>3. beat \in 0..NumUart /\ pvalid \in BOOLEAN
  BY DEF TypeOK
<1>4. pdata \in [mask : SUBSET Uart, word : [Uart -> Word]]
  BY DEF TypeOK
<1>5. uart_valid \in SUBSET Uart /\ uart_data \in [Uart -> Word]
  BY DEF TypeOK
<1>6. QED
  BY <1>1, <1>2, <1>3, <1>4, <1>5, NumUartAssumption

\* MaxLeft is as long as any count of the UART.
LEMMA MaxLeftFacts ==
  MaxLeft \in Nat /\ Phase \in 0..MaxLeft /\ WordEdges - 1 \in 0..MaxLeft
BY PhaseAssumption, WordEdgesAssumption DEF MaxLeft

\* What a channel's UART and its count of edges do, by the state of the UART.
LEMMA UartFacts ==
  ASSUME TypeOK, NEW offered \in BOOLEAN, NEW mask \in SUBSET Uart,
         NEW rise \in BOOLEAN, Tick(offered, mask, rise), NEW c \in Uart
  PROVE  /\ ustate[c] = "IDLE" => ustate'[c] = IF valid[c] THEN "WT" ELSE "IDLE"
         /\ ustate[c] = "WT" => ustate'[c] \in {"WT", "DELAY"}
         /\ ustate[c] = "DELAY" =>
              \/ ustate'[c] = "DELAY"
              \/ ustate'[c] = "SHIFT" /\ left'[c] = WordEdges - 1
         /\ ustate[c] = "SHIFT" /\ left[c] = 0 => ustate'[c] = "IDLE"
         /\ ustate[c] = "SHIFT" /\ left[c] # 0 => ustate'[c] = "SHIFT"
         /\ ustate[c] # "IDLE" => gap'[c] = 0
         /\ ustate[c] = "IDLE" =>
              gap'[c] = IF gap[c] < delay[c] THEN gap[c] + 1 ELSE gap[c]
         /\ left'[c] \in 0..MaxLeft
<1>1. ustate[c] \in {"IDLE", "WT", "DELAY", "SHIFT"} /\ left[c] \in 0..MaxLeft
      /\ gap[c] \in Nat /\ delay[c] \in Nat /\ WordEdges \in Nat /\ WordEdges >= 2
  BY ChanTypes, WordEdgesAssumption
<1>2. ustate'[c] = UartState(c, rise) /\ left'[c] = UartLeft(c)
  BY ChanFacts
<1>3. gap'[c] = CASE ustate[c] # "IDLE" -> 0
                  [] ustate[c] = "IDLE" /\ gap[c] < delay[c] -> gap[c] + 1
                  [] ustate[c] = "IDLE" /\ gap[c] >= delay[c] -> gap[c]
  BY DEF Tick, History
<1>4. Phase \in 0..MaxLeft /\ WordEdges - 1 \in 0..MaxLeft
  BY MaxLeftFacts
<1>5. /\ ustate[c] # "IDLE" => gap'[c] = 0
      /\ ustate[c] = "IDLE" =>
           gap'[c] = IF gap[c] < delay[c] THEN gap[c] + 1 ELSE gap[c]
  BY <1>1, <1>3
<1>6. CASE ustate[c] = "IDLE"
  BY <1>1, <1>2, <1>4, <1>5, <1>6 DEF UartState, UartLeft
<1>7. CASE ustate[c] = "WT"
  BY <1>1, <1>2, <1>5, <1>7 DEF UartState, UartLeft
<1>8. CASE ustate[c] = "DELAY"
  <2>1. left[c] = 0 => ustate'[c] = "SHIFT" /\ left'[c] = WordEdges - 1
    BY <1>2, <1>8 DEF UartState, UartLeft
  <2>2. left[c] > 0 => ustate'[c] = "DELAY" /\ left'[c] = left[c] - 1
    BY <1>2, <1>8 DEF UartState, UartLeft
  <2>3. QED
    BY <1>1, <1>4, <1>5, <1>8, <2>1, <2>2, MaxLeftFacts
<1>9. CASE ustate[c] = "SHIFT"
  <2>1. left[c] = 0 => ustate'[c] = "IDLE" /\ left'[c] = 0
    BY <1>2, <1>9 DEF UartState, UartLeft
  <2>2. left[c] > 0 => ustate'[c] = "SHIFT" /\ left'[c] = left[c] - 1
    BY <1>2, <1>9 DEF UartState, UartLeft
  <2>3. QED
    BY <1>1, <1>4, <1>5, <1>9, <2>1, <2>2, MaxLeftFacts
<1>10. QED
  BY <1>1, <1>6, <1>7, <1>8, <1>9

\* What the rest of a channel's count does, by the delay and the UART's busy.
LEMMA RestFacts ==
  ASSUME TypeOK, NEW c \in Uart, rests[c] <= delay[c]
  PROVE  /\ busy[c] => RestsAfter(c) = 0
         /\ ~busy[c] => RestsAfter(c) = IF rests[c] < delay[c] THEN rests[c] + 1 ELSE delay[c]
         /\ RestsAfter(c) \in 0..delay[c]
BY ChanTypes DEF RestsAfter

\* What tx_buffer does in each of its states.
LEMMA BufferFacts ==
  ASSUME TypeOK, NEW offered \in BOOLEAN, NEW mask \in SUBSET Uart,
         NEW rise \in BOOLEAN, Tick(offered, mask, rise)
  PROVE  /\ state = "IDLE" => state' = (IF pvalid THEN "START_TX" ELSE "IDLE")
                              /\ uart_valid' = {}
         /\ state = "START_TX" => state' = "TX" /\ uart_valid' = pdata.mask
                                  /\ uart_data' = pdata.word
         /\ state = "TX" => state' = (IF uart_valid = {} THEN "IDLE" ELSE "TX")
                            /\ uart_valid' = {c \in uart_valid : ~ready[c]}
         /\ state # "START_TX" => uart_data' = uart_data
         /\ packet_ready' = (state = "START_TX")
         /\ state \in {"IDLE", "START_TX", "TX"}
<1>1. state \in {"IDLE", "START_TX", "TX"}
  BY DEF TypeOK
<1>2. QED
  BY <1>1 DEF Tick, BufferEdge

\* What axis_read does: it takes the mask, a word, the last word, or nothing.
LEMMA ReadFacts ==
  ASSUME TypeOK, NEW offered \in BOOLEAN, NEW mask \in SUBSET Uart,
         NEW rise \in BOOLEAN, Tick(offered, mask, rise)
  PROVE  /\ ~(offered /\ ~pvalid) =>
              UNCHANGED <<beat, pdata, packets, due>> /\ pvalid' = (pvalid /\ ~packet_ready)
         /\ offered /\ ~pvalid =>
              /\ beat' = IF beat = NumUart THEN 0 ELSE beat + 1
              /\ pvalid' = (beat = NumUart)
              /\ packets' = IF beat = NumUart THEN packets + 1 ELSE packets
              /\ beat = 0 => pdata' = [pdata EXCEPT !.mask = mask]
              /\ beat > 0 => pdata' = [pdata EXCEPT !.word[beat - 1] = packets + 1]
              /\ due' = [c \in Uart |-> IF beat = NumUart /\ c \in pdata.mask
                                          THEN Append(due[c], packets + 1) ELSE due[c]]
<1>1. beat \in 0..NumUart /\ pvalid \in BOOLEAN
      /\ due = [c \in Uart |-> due[c]] /\ NumUart \in Nat
  BY NumUartAssumption DEF TypeOK
<1>2. beat = 0 \/ beat > 0
  BY <1>1
<1>3. CASE ~(offered /\ ~pvalid)
  BY <1>1, <1>2, <1>3 DEF Tick, ReadEdge, History, TReady
<1>4. CASE offered /\ ~pvalid
  BY <1>1, <1>2, <1>4 DEF Tick, ReadEdge, History, TReady, LastBeat
<1>5. QED
  BY <1>3, <1>4

-----------------------------------------------------------------------------
\* axis_read and tx_buffer hand a packet over without losing or repeating it.
LEMMA PacketHeldStep ==
  ASSUME TypeOK, PacketHeld, NEW offered \in BOOLEAN, NEW mask \in SUBSET Uart,
         NEW rise \in BOOLEAN, Tick(offered, mask, rise)
  PROVE  PacketHeld'
<1>1. /\ beat \in 0..NumUart /\ NumUart \in Nat \ {0} /\ packets \in Nat
      /\ pvalid \in BOOLEAN /\ packet_ready \in BOOLEAN
      /\ pdata \in [mask : SUBSET Uart, word : [Uart -> Word]]
  BY NumUartAssumption, MaxPacketsAssumption DEF TypeOK, Word
<1>2. pvalid' => beat' = 0 /\ \A c \in Uart : pdata'.word[c] = packets'
  <2>1. CASE ~(offered /\ ~pvalid)
    BY <2>1, ReadFacts DEF PacketHeld
  <2>2. CASE offered /\ ~pvalid /\ beat = NumUart
    <3>0. beat > 0
      BY <1>1, <2>2
    <3>1. pdata' = [pdata EXCEPT !.word[NumUart - 1] = packets + 1]
          /\ packets' = packets + 1 /\ beat' = 0
      BY <2>2, <3>0, ReadFacts
    <3>2. \A c \in Uart : c = NumUart - 1 \/ c + 1 < NumUart
      BY <1>1 DEF Uart
    <3>3. QED
      BY <1>1, <2>2, <3>1, <3>2 DEF PacketHeld
  <2>3. CASE offered /\ ~pvalid /\ beat # NumUart
    BY <2>3, ReadFacts
  <2>4. QED
    BY <2>1, <2>2, <2>3
<1>3. \A c \in Uart : c + 1 < beat' => pdata'.word[c] = packets' + 1
  <2> SUFFICES ASSUME NEW c \in Uart, c + 1 < beat'
               PROVE  pdata'.word[c] = packets' + 1
    OBVIOUS
  <2>0. c \in Nat
    BY <1>1 DEF Uart
  <2>1. CASE ~(offered /\ ~pvalid)
    BY <2>1, ReadFacts DEF PacketHeld
  <2>2. CASE offered /\ ~pvalid /\ beat = NumUart
    <3>1. beat' = 0
      BY <2>2, ReadFacts
    <3>2. QED
      BY <2>0, <3>1
  <2>3. CASE offered /\ ~pvalid /\ beat # NumUart
    <3>1. beat' = beat + 1 /\ packets' = packets
      BY <2>3, ReadFacts
    <3>2. beat > 0
      BY <1>1, <2>0, <3>1
    <3>3. pdata' = [pdata EXCEPT !.word[beat - 1] = packets + 1]
      BY <2>3, <3>2, ReadFacts
    <3>4. c = beat - 1 \/ c + 1 < beat
      BY <1>1, <2>0, <3>1
    <3>5. QED
      BY <1>1, <3>1, <3>3, <3>4 DEF PacketHeld
  <2>4. QED
    BY <2>1, <2>2, <2>3
<1>4. packet_ready' => state' = "TX" /\ pvalid'
  BY BufferFacts, ReadFacts DEF PacketHeld
<1>5. state' = "START_TX" => pvalid' /\ ~packet_ready'
  BY BufferFacts, ReadFacts DEF PacketHeld
<1>6. state' # "TX" => uart_valid' = {}
  BY BufferFacts
<1>7. \A c \in Uart : mode'[c] = 0 /\ ~ready'[c] => state' = "IDLE" /\ ~pvalid'
  BY ChanFacts DEF Accepts
<1>8. QED
  BY <1>2, <1>3, <1>4, <1>5, <1>6, <1>7 DEF PacketHeld

\* The count of the words taken goes up with ready.
LEMMA BeatsFacts ==
  ASSUME TypeOK, NEW offered \in BOOLEAN, NEW mask \in SUBSET Uart,
         NEW rise \in BOOLEAN, Tick(offered, mask, rise), NEW c \in Uart
  PROVE  /\ beats[c] \in Nat /\ beats'[c] \in Nat
         /\ c \in uart_valid /\ ready[c] => beats'[c] = beats[c] + 1
         /\ ~(c \in uart_valid /\ ready[c]) => beats'[c] = beats[c]
<1>1. beats[c] \in Nat
  BY ChanTypes
<1>2. /\ c \in uart_valid /\ ready[c] => beats'[c] = beats[c] + 1
      /\ ~(c \in uart_valid /\ ready[c]) => beats'[c] = beats[c]
  BY ChanFacts
<1>3. QED
  BY <1>1, <1>2

\* Outside START_TX a word that is offered stays so until it is taken.
LEMMA TakenOnce ==
  ASSUME TypeOK, PacketHeld, NEW offered \in BOOLEAN, NEW mask \in SUBSET Uart,
         NEW rise \in BOOLEAN, Tick(offered, mask, rise), NEW c \in Uart,
         state # "START_TX"
  PROVE  /\ beats'[c] + OneIf(c \in uart_valid') = beats[c] + OneIf(c \in uart_valid)
         /\ c \in uart_valid' => c \in uart_valid /\ ~ready[c] /\ beats'[c] = beats[c]
         /\ c \in uart_valid /\ ~ready[c] => c \in uart_valid'
         /\ uart_data' = uart_data
<1>1. beats[c] \in Nat
  BY ChanTypes
<1>2. c \in uart_valid' <=> c \in uart_valid /\ ~ready[c]
  BY BufferFacts DEF PacketHeld
<1>3. beats'[c] = IF c \in uart_valid /\ ready[c] THEN beats[c] + 1 ELSE beats[c]
  BY ChanFacts
<1>4. QED
  BY <1>1, <1>2, <1>3, BufferFacts DEF OneIf

\* The balance of beats and words due is kept by every edge: the edge that ends
\* a packet and the one that gives a word away each move one word.
LEMMA DueWordsStep ==
  ASSUME TypeOK, PacketHeld, NEW offered \in BOOLEAN, NEW mask \in SUBSET Uart,
         NEW rise \in BOOLEAN, Tick(offered, mask, rise), NEW c \in Uart,
         DueWords(c)
  PROVE  DueWords(c)'
<1>1. /\ beats[c] \in Nat /\ due[c] \in Seq(Word) /\ packets \in Nat
      /\ NumUart \in Nat \ {0} /\ Len(due[c]) \in Nat
      /\ pdata \in [mask : SUBSET Uart, word : [Uart -> Word]]
  <2>1. beats[c] \in Nat /\ due[c] \in Seq(Word)
    BY ChanTypes
  <2>2. Len(due[c]) \in Nat
    BY <2>1
  <2>3. QED
    BY <2>1, <2>2, ReadTypes
<1>2. CASE offered /\ ~pvalid /\ beat = NumUart
  <2>1. /\ ~NotStarted(c) /\ state # "START_TX" /\ packet_ready' = FALSE
        /\ pvalid' = TRUE /\ packets' = packets + 1
        /\ due'[c] = IF c \in pdata.mask THEN Append(due[c], packets + 1) ELSE due[c]
        /\ pdata'.mask = pdata.mask
    <3>1. beat > 0
      BY <1>1, <1>2
    <3>2. pdata' = [pdata EXCEPT !.word[beat - 1] = packets + 1]
      BY <1>2, <3>1, ReadFacts
    <3>3. pdata'.mask = pdata.mask
      BY <1>1, <3>2
    <3>4. ~NotStarted(c) /\ state # "START_TX"
      BY <1>2 DEF PacketHeld, NotStarted
    <3>5. packet_ready' = FALSE
      BY <3>4, BufferFacts
    <3>6. /\ pvalid' = TRUE /\ packets' = packets + 1
          /\ due'[c] = IF c \in pdata.mask THEN Append(due[c], packets + 1) ELSE due[c]
      BY <1>2, ReadFacts
    <3>7. QED
      BY <3>3, <3>4, <3>5, <3>6
  <2>2. NotStarted(c)' <=> c \in pdata.mask
    BY <2>1 DEF NotStarted
  <2>3. Len(due[c]) = beats[c] + OneIf(c \in uart_valid)
    BY <1>1, <2>1 DEF DueWords, OneIf
  <2>4. beats'[c] + OneIf(c \in uart_valid') = Len(due[c])
        /\ (c \in uart_valid' => /\ beats'[c] + 1 = Len(due[c])
                                 /\ uart_data'[c] = due[c][Len(due[c])])
    BY <1>1, <2>1, <2>3, TakenOnce DEF OneIf, DueWords
  <2>5. beats'[c] \in Nat
    BY BeatsFacts
  <2>6. CASE c \in pdata.mask
    <3>1. /\ Len(due'[c]) = Len(due[c]) + 1 /\ due'[c][Len(due[c]) + 1] = packets + 1
          /\ \A k \in 1..Len(due[c]) : due'[c][k] = due[c][k]
      BY <1>1, <2>1, <2>6
    <3>2. Len(due[c]) <= packets
      BY DEF DueWords
    <3>3. c \in uart_valid' => Len(due[c]) \in 1..Len(due[c])
      BY <1>1, <2>4, <2>5
    <3>4. QED
      BY <1>1, <2>1, <2>2, <2>4, <2>5, <2>6, <3>1, <3>2, <3>3 DEF DueWords, OneIf
  <2>7. CASE c \notin pdata.mask
    BY <1>1, <2>1, <2>2, <2>4, <2>5, <2>7 DEF DueWords, OneIf
  <2>8. QED
    BY <2>6, <2>7
<1>3. CASE ~(offered /\ ~pvalid /\ beat = NumUart) /\ state # "START_TX"
  <2>1. /\ due'[c] = due[c] /\ packets' = packets /\ ~packet_ready'
        /\ pvalid' = (pvalid /\ ~packet_ready)
        /\ pvalid => pdata' = pdata
    <3>1. CASE ~(offered /\ ~pvalid)
      BY <1>3, <3>1, ReadFacts, BufferFacts
    <3>2. CASE offered /\ ~pvalid
      <4>1. beat # NumUart
        BY <1>3, <3>2
      <4>2. /\ due'[c] = due[c] /\ packets' = packets /\ pvalid' = FALSE
        BY <3>2, <4>1, ReadFacts DEF TypeOK
      <4>3. QED
        BY <1>3, <3>2, <4>2, BufferFacts
    <3>3. QED
      BY <3>1, <3>2
  <2>2. NotStarted(c)' <=> NotStarted(c)
    BY <2>1 DEF NotStarted
  <2>3. beats'[c] \in Nat
    BY BeatsFacts
  <2>4. /\ Len(due'[c]) = beats'[c] + OneIf(c \in uart_valid') + OneIf(NotStarted(c)')
        /\ Len(due'[c]) <= packets'
        /\ NotStarted(c)' => due'[c][Len(due'[c])] = packets'
    <3>1. beats'[c] + OneIf(c \in uart_valid') = beats[c] + OneIf(c \in uart_valid)
      BY <1>3, TakenOnce
    <3>2. OneIf(NotStarted(c)') = OneIf(NotStarted(c))
      BY <2>2 DEF OneIf
    <3>3. QED
      BY <2>1, <2>2, <3>1, <3>2 DEF DueWords
  <2>5. c \in uart_valid' => uart_data'[c] = due'[c][beats'[c] + 1]
    BY <1>3, <2>1, TakenOnce DEF DueWords
  <2>6. QED
    BY <2>4, <2>5 DEF DueWords
<1>4. CASE state = "START_TX"
  <2>1. /\ pvalid /\ ~packet_ready /\ uart_valid = {}
        /\ due' = due /\ packets' = packets /\ packet_ready'
        /\ uart_valid' = pdata.mask /\ uart_data' = pdata.word
        /\ beats'[c] = beats[c]
    <3>1. pvalid /\ ~packet_ready /\ uart_valid = {}
      BY <1>4 DEF PacketHeld
    <3>2. due' = due /\ packets' = packets
      BY <3>1, ReadFacts
    <3>3. packet_ready' /\ uart_valid' = pdata.mask /\ uart_data' = pdata.word
      BY <1>4, BufferFacts
    <3>4. beats'[c] = beats[c]
      BY <3>1, ChanFacts
    <3>5. QED
      BY <3>1, <3>2, <3>3, <3>4
  <2>2. ~NotStarted(c)' /\ (NotStarted(c) <=> c \in pdata.mask)
    BY <2>1 DEF NotStarted
  <2>3. Len(due[c]) = beats[c] + OneIf(c \in pdata.mask)
    BY <1>1, <2>1, <2>2 DEF DueWords, OneIf
  <2>4. c \in pdata.mask => pdata.word[c] = due[c][beats[c] + 1]
    BY <1>1, <2>1, <2>2, <2>3 DEF DueWords, PacketHeld, OneIf
  <2>5. QED
    BY <1>1, <2>1, <2>2, <2>3, <2>4 DEF DueWords, OneIf
<1>5. QED
  BY <1>2, <1>3, <1>4

-----------------------------------------------------------------------------
\* No word is offered to an idle UART before it has rested.
LEMMA RestedStep ==
  ASSUME TypeOK, PacketHeld, NEW offered \in BOOLEAN, NEW mask \in SUBSET Uart,
         NEW rise \in BOOLEAN, Tick(offered, mask, rise), NEW c \in Uart,
         Rested(c), mode[c] = 1 => ReadyFollowsBusy(c)
  PROVE  Rested(c)'
<1>1. /\ rests[c] \in Nat /\ gap[c] \in Nat /\ delay[c] \in Nat
      /\ mode'[c] = mode[c] /\ delay'[c] = delay[c]
      /\ rests[c] <= delay[c] /\ gap[c] <= delay[c]
      /\ rests'[c] = RestsAfter(c) /\ busy'[c] = (ustate[c] # "IDLE")
      /\ valid'[c] = (c \in uart_valid /\ (RestsAfter(c) >= delay[c] \/ valid[c]))
      /\ ustate[c] \in {"IDLE", "WT", "DELAY", "SHIFT"}
  BY ChanTypes, ChanFacts DEF Rested
<1>2. rests'[c] <= delay'[c] /\ gap'[c] <= delay'[c]
  BY <1>1, RestFacts, UartFacts
<1>3. ustate'[c] = "IDLE" /\ ~busy'[c] => rests'[c] <= gap'[c]
  BY <1>1, RestFacts, UartFacts DEF Rested
<1>4. ustate'[c] = "SHIFT" => busy'[c]
  BY <1>1, UartFacts
<1>5. ASSUME mode[c] = 0, c \in uart_valid' PROVE ready'[c] /\ ~valid'[c]
  <2>1. ready'[c]
    BY <1>5, ChanFacts DEF Accepts
  <2>2. state = "START_TX"
    BY <1>5, TakenOnce DEF Rested
  <2>3. QED
    BY <1>1, <2>1, <2>2 DEF PacketHeld
<1>6. ASSUME ~Stuck(c), ustate'[c] = "IDLE", valid'[c]
      PROVE  gap'[c] >= delay'[c]
  <2>1. CASE ustate[c] = "IDLE"
    <3>1. ~valid[c] /\ RestsAfter(c) >= delay[c]
      BY <1>1, <1>6, <2>1, UartFacts
    <3>2. QED
      BY <1>1, <2>1, <3>1, RestFacts, UartFacts DEF Rested
  <2>2. CASE ustate[c] # "IDLE"
    <3>1. ustate[c] = "SHIFT" /\ left[c] = 0 /\ busy[c]
      BY <1>1, <1>6, <2>2, UartFacts DEF Rested
    <3>2. gap'[c] = 0 /\ RestsAfter(c) = 0
      BY <1>1, <2>2, <3>1, UartFacts, RestFacts
    <3>3. c \in uart_valid
      BY <1>1, <1>6
    <3>4. delay[c] = 0 \/ valid[c]
      <4>1. 0 >= delay[c] \/ valid[c]
        BY <1>1, <1>6, <3>2, Zenon
      <4>2. QED
        BY <1>1, <4>1
    <3>5. mode[c] \in {0, 1}
      BY <1>6, ChanTypes, ModesAssumption DEF Stuck
    <3>6. CASE mode[c] = 0
      BY <1>1, <3>2, <3>3, <3>4, <3>6 DEF Rested
    <3>7. CASE mode[c] = 1
      <4>1. ~Current(c)
        BY <3>1, <3>7 DEF ReadyFollowsBusy, Current
      <4>2. QED
        BY <1>1, <2>2, <3>2, <3>3, <3>4, <3>7, <4>1 DEF ReadyFollowsBusy
    <3>8. QED
      BY <3>5, <3>6, <3>7
  <2>3. QED
    BY <2>1, <2>2
<1>7. Stuck(c)' = Stuck(c)
  BY <1>1 DEF Stuck
<1>8. QED
  BY <1>1, <1>2, <1>3, <1>4, <1>5, <1>6, <1>7 DEF Rested

-----------------------------------------------------------------------------
\* One edge of a channel in mode 1, with what the invariant knows before it.
LEMMA HandshakeFacts ==
  ASSUME TypeOK, PacketHeld, NEW offered \in BOOLEAN, NEW mask \in SUBSET Uart,
         NEW rise \in BOOLEAN, Tick(offered, mask, rise), NEW c \in Uart,
         mode[c] = 1, Rested(c), ReadyFollowsBusy(c)
  PROVE  /\ busy'[c] = (ustate[c] # "IDLE") /\ busy_z'[c] = busy[c]
         /\ ready'[c] <=> valid[c] /\ busy[c] /\ ~busy_z[c]
         /\ valid'[c] => c \in uart_valid /\ (valid[c] \/ delay[c] = 0 \/ ~busy[c])
         /\ c \in uart_valid /\ valid[c] => valid'[c]
         /\ state = "START_TX" => uart_valid = {}
         /\ state # "START_TX" => (c \in uart_valid' <=> c \in uart_valid /\ ~ready[c])
         /\ uart_valid # {} => state' = "TX"
<1>1. busy'[c] = (ustate[c] # "IDLE") /\ busy_z'[c] = busy[c]
  BY ChanFacts
<1>2. ready'[c] <=> valid[c] /\ busy[c] /\ ~busy_z[c]
  <2>1. ready'[c] = Accepts(c)
    BY ChanFacts
  <2>2. Accepts(c) <=> valid[c] /\ busy[c] /\ ~busy_z[c]
    BY DEF Accepts
  <2>3. QED
    BY <2>1, <2>2
<1>3. valid'[c] = (c \in uart_valid /\ (RestsAfter(c) >= delay[c] \/ valid[c]))
  BY ChanFacts
<1>4. busy[c] /\ RestsAfter(c) >= delay[c] => delay[c] = 0
  BY RestFacts, ChanTypes DEF Rested
<1>5. /\ valid'[c] => c \in uart_valid /\ (valid[c] \/ delay[c] = 0 \/ ~busy[c])
      /\ c \in uart_valid /\ valid[c] => valid'[c]
  BY <1>3, <1>4, Zenon
<1>6. /\ state = "START_TX" => uart_valid = {}
      /\ state # "START_TX" => (c \in uart_valid' <=> c \in uart_valid /\ ~ready[c])
      /\ uart_valid # {} => state' = "TX"
  BY BufferFacts DEF PacketHeld
<1>7. QED
  BY <1>1, <1>2, <1>5, <1>6

\* valid and ready against the UART's busy, one edge on.
LEMMA ReadyFollowsBusyStep ==
  ASSUME TypeOK, PacketHeld, NEW offered \in BOOLEAN, NEW mask \in SUBSET Uart,
         NEW rise \in BOOLEAN, Tick(offered, mask, rise), NEW c \in Uart,
         mode[c] = 1, Rested(c), ReadyFollowsBusy(c)
  PROVE  ReadyFollowsBusy(c)'
<1>1. /\ busy'[c] = (ustate[c] # "IDLE") /\ busy_z'[c] = busy[c]
      /\ ready'[c] <=> valid[c] /\ busy[c] /\ ~busy_z[c]
      /\ valid'[c] => c \in uart_valid /\ (valid[c] \/ delay[c] = 0 \/ ~busy[c])
      /\ c \in uart_valid /\ valid[c] => valid'[c]
      /\ state = "START_TX" => uart_valid = {}
      /\ state # "START_TX" => (c \in uart_valid' <=> c \in uart_valid /\ ~ready[c])
      /\ uart_valid # {} => state' = "TX"
  BY HandshakeFacts
<1>2. /\ ustate[c] = "IDLE" => ustate'[c] = IF valid[c] THEN "WT" ELSE "IDLE"
      /\ ustate[c] = "WT" => ustate'[c] \in {"WT", "DELAY"}
      /\ ustate[c] = "DELAY" =>
           ustate'[c] = "DELAY" \/ (ustate'[c] = "SHIFT" /\ left'[c] > 0)
      /\ ustate[c] = "SHIFT" /\ left[c] = 0 => ustate'[c] = "IDLE"
      /\ ustate[c] = "SHIFT" /\ left[c] > 0 => ustate'[c] = "SHIFT"
      /\ ustate[c] \in {"IDLE", "WT", "DELAY", "SHIFT"}
      /\ left[c] = 0 \/ left[c] > 0
  <2>1. WordEdges - 1 > 0 /\ left[c] \in Nat
    BY WordEdgesAssumption, ChanTypes, MaxLeftFacts
  <2>2. left[c] # 0 <=> left[c] > 0
    BY <2>1
  <2>3. QED
    BY <2>1, <2>2, UartFacts, ChanTypes
<1>3. delay'[c] = delay[c] /\ delay[c] \in Nat
  BY ChanFacts, ChanTypes
<1>4. ustate'[c] # "IDLE" /\ ~busy'[c] =>
        ustate'[c] = "WT" /\ valid'[c] /\ c \in uart_valid' /\ ~ready'[c]
  BY <1>1, <1>2 DEF ReadyFollowsBusy
<1>5. busy'[c] /\ ~busy_z'[c] =>
        ustate'[c] \in {"WT", "DELAY"} /\ valid'[c] /\ c \in uart_valid' /\ ~ready'[c]
  BY <1>1, <1>2 DEF ReadyFollowsBusy
<1>6. ready'[c] =>
        /\ ustate'[c] \in {"WT", "DELAY"} \/ (ustate'[c] = "SHIFT" /\ left'[c] > 0)
        /\ busy'[c] /\ busy_z'[c] /\ valid'[c] /\ c \in uart_valid'
  BY <1>1, <1>2 DEF ReadyFollowsBusy
<1>7. valid'[c] /\ c \notin uart_valid' => ustate'[c] # "IDLE" /\ state' = "TX"
  BY <1>1, <1>2 DEF ReadyFollowsBusy
<1>8. ASSUME delay'[c] > 0, valid'[c], c \in uart_valid', ustate'[c] # "IDLE"
      PROVE  Current(c)'
  <2>1. c \in uart_valid /\ state # "START_TX" /\ ~ready[c] /\ delay[c] # 0
    BY <1>1, <1>3, <1>8
  <2>2. CASE ~valid[c]
    BY <1>1, <1>2, <1>8, <2>1, <2>2 DEF ReadyFollowsBusy
  <2>3. CASE valid[c] /\ ustate[c] = "IDLE"
    BY <1>1, <1>8, <2>3 DEF Current
  <2>4. CASE valid[c] /\ ustate[c] # "IDLE"
    <3>1. ~busy[c] \/ ~busy_z[c]
      BY <1>3, <2>1, <2>4 DEF ReadyFollowsBusy, Current
    <3>2. QED
      BY <1>1, <1>8, <2>4, <3>1 DEF Current
  <2>5. QED
    BY <2>2, <2>3, <2>4
<1>9. QED
  BY <1>4, <1>5, <1>6, <1>7, <1>8 DEF ReadyFollowsBusy

\* The words begun are the words taken and, if it is begun, the one offered.
LEMMA CurrentStep ==
  ASSUME TypeOK, PacketHeld, NEW offered \in BOOLEAN, NEW mask \in SUBSET Uart,
         NEW rise \in BOOLEAN, Tick(offered, mask, rise), NEW c \in Uart,
         mode[c] = 1, Rested(c), ReadyFollowsBusy(c)
  PROVE  /\ ustate[c] = "IDLE" /\ valid[c] =>
              ~Current(c) /\ Current(c)' /\ c \in uart_valid /\ beats'[c] = beats[c]
         /\ ~(ustate[c] = "IDLE" /\ valid[c]) =>
              beats'[c] + OneIf(Current(c)') = beats[c] + OneIf(Current(c))
<1>1. /\ busy'[c] = (ustate[c] # "IDLE") /\ busy_z'[c] = busy[c]
      /\ ready'[c] <=> valid[c] /\ busy[c] /\ ~busy_z[c]
      /\ state = "START_TX" => uart_valid = {}
      /\ state # "START_TX" => (c \in uart_valid' <=> c \in uart_valid /\ ~ready[c])
  BY HandshakeFacts
<1>2. /\ ustate[c] = "IDLE" /\ ~valid[c] => ustate'[c] = "IDLE"
      /\ ustate[c] = "IDLE" /\ valid[c] => ustate'[c] = "WT"
      /\ ustate'[c] = "IDLE" =>
           (ustate[c] = "IDLE" /\ ~valid[c]) \/ (ustate[c] = "SHIFT" /\ left[c] = 0)
  BY UartFacts, ChanTypes
<1>3. /\ beats[c] \in Nat /\ beats'[c] \in Nat
      /\ c \in uart_valid /\ ready[c] => beats'[c] = beats[c] + 1
      /\ ~(c \in uart_valid /\ ready[c]) => beats'[c] = beats[c]
  BY BeatsFacts
<1>4. CASE ustate[c] = "IDLE" /\ valid[c]
  <2>1. c \in uart_valid /\ ~ready[c] /\ (busy[c] => busy_z[c])
    BY <1>4 DEF ReadyFollowsBusy
  <2>2. QED
    BY <1>1, <1>2, <1>3, <1>4, <2>1 DEF Current
<1>5. CASE ustate[c] = "IDLE" /\ ~valid[c]
  <2>1. ~ready[c] /\ ~Current(c) /\ ~Current(c)'
    BY <1>2, <1>5 DEF ReadyFollowsBusy, Current
  <2>2. QED
    BY <1>3, <1>5, <2>1 DEF OneIf
<1>6. CASE ustate[c] # "IDLE" /\ c \notin uart_valid
  <2>1. busy[c] /\ busy_z[c] /\ ~ready[c] /\ ~ready'[c]
    BY <1>1, <1>6 DEF ReadyFollowsBusy
  <2>2. ~Current(c) /\ ~Current(c)'
    BY <1>1, <1>6, <2>1 DEF Current
  <2>3. QED
    BY <1>3, <1>6, <2>2 DEF OneIf
<1>7. CASE ustate[c] # "IDLE" /\ c \in uart_valid
  <2>1. state # "START_TX"
    BY <1>1, <1>7
  <2>2. CASE ready[c]
    <3>1. Current(c) /\ ~Current(c)'
      BY <1>1, <1>7, <2>1, <2>2 DEF Current
    <3>2. QED
      BY <1>3, <1>7, <2>2, <3>1 DEF OneIf
  <2>3. CASE ~ready[c] /\ ~(busy[c] /\ busy_z[c])
    <3>1. ustate[c] \in {"WT", "DELAY"} /\ valid[c]
      BY <1>7, <2>3 DEF ReadyFollowsBusy
    <3>2. Current(c) /\ Current(c)'
      BY <1>1, <1>2, <1>7, <2>1, <2>3, <3>1 DEF Current
    <3>3. QED
      BY <1>3, <1>7, <2>3, <3>2 DEF OneIf
  <2>4. CASE ~ready[c] /\ busy[c] /\ busy_z[c]
    <3>1. ~Current(c) /\ ~Current(c)'
      BY <1>1, <1>7, <2>4 DEF Current
    <3>2. QED
      BY <1>3, <1>7, <2>4, <3>1 DEF OneIf
  <2>5. QED
    BY <2>2, <2>3, <2>4
<1>8. QED
  BY <1>4, <1>5, <1>6, <1>7

\* What is due only grows.
LEMMA DueGrows ==
  ASSUME TypeOK, NEW offered \in BOOLEAN, NEW mask \in SUBSET Uart,
         NEW rise \in BOOLEAN, Tick(offered, mask, rise), NEW c \in Uart
  PROVE  /\ Len(due'[c]) >= Len(due[c])
         /\ \A k \in 1..Len(due[c]) : due'[c][k] = due[c][k]
<1>1. due[c] \in Seq(Word)
  BY ChanTypes
<1>2. due'[c] = due[c] \/ due'[c] = Append(due[c], packets + 1)
  <2>1. CASE ~(offered /\ ~pvalid)
    BY <2>1, ReadFacts
  <2>2. CASE offered /\ ~pvalid
    BY <2>2, ReadFacts
  <2>3. QED
    BY <2>1, <2>2
<1>3. QED
  BY <1>1, <1>2

\* A UART begins with the word that is due next and keeps it until it is sent.
LEMMA BegunWordsStep ==
  ASSUME TypeOK, PacketHeld, NEW offered \in BOOLEAN, NEW mask \in SUBSET Uart,
         NEW rise \in BOOLEAN, Tick(offered, mask, rise), NEW c \in Uart,
         mode[c] = 1, Rested(c), ReadyFollowsBusy(c), DueWords(c), BegunWords(c)
  PROVE  BegunWords(c)'
<1>1. /\ sent[c] \in Seq(Word) /\ srg[c] \in Word /\ due[c] \in Seq(Word)
      /\ uart_data[c] \in Word /\ beats[c] \in Nat
      /\ ustate[c] \in {"IDLE", "WT", "DELAY", "SHIFT"} /\ left[c] \in Nat
  BY ChanTypes, MaxLeftFacts
<1>2. /\ srg'[c] = (IF ustate[c] = "IDLE" THEN uart_data[c] ELSE srg[c])
      /\ sent'[c] = (IF Finishes(c) THEN Append(sent[c], srg[c]) ELSE sent[c])
  <2>1. ~Stuck(c)
    BY DEF Stuck
  <2>2. QED
    BY <2>1, ChanFacts
<1>3. /\ ustate[c] = "IDLE" => ustate'[c] = IF valid[c] THEN "WT" ELSE "IDLE"
      /\ Finishes(c) => ustate[c] = "SHIFT" /\ ustate'[c] = "IDLE"
      /\ ustate[c] # "IDLE" /\ ~Finishes(c) => ustate'[c] # "IDLE"
  BY <1>1, UartFacts DEF Finishes
<1>4. Len(Begun(c)) = beats[c] + OneIf(Current(c)) /\ Len(Begun(c)) <= Len(due[c])
      /\ \A k \in 1..Len(Begun(c)) : Begun(c)[k] = due[c][k]
  <2>1. Current(c) => c \in uart_valid
    BY DEF Current
  <2>2. Len(due[c]) >= beats[c] + OneIf(c \in uart_valid)
    BY <1>1 DEF DueWords, OneIf
  <2>3. QED
    BY <1>1, <2>1, <2>2 DEF BegunWords, OneIf
<1>5. Begun(c) \in Seq(Word)
  BY <1>1 DEF Begun
<1>6. CASE ustate[c] = "IDLE" /\ valid[c]
  <2>1. ~Current(c) /\ Current(c)' /\ c \in uart_valid /\ beats'[c] = beats[c]
    BY <1>6, CurrentStep
  <2>2. Begun(c) = sent[c] /\ Begun(c)' = Append(sent[c], uart_data[c])
    BY <1>2, <1>3, <1>6 DEF Begun
  <2>3. uart_data[c] = due[c][beats[c] + 1] /\ beats[c] + 1 <= Len(due[c])
    BY <1>1, <2>1 DEF DueWords, OneIf
  <2>4. Len(sent[c]) = beats[c]
    BY <1>1, <1>4, <2>1, <2>2 DEF OneIf
  <2>5. Len(Begun(c)') = beats'[c] + OneIf(Current(c)')
    BY <1>1, <2>1, <2>2, <2>4 DEF OneIf
  <2>6. \A k \in 1..Len(Begun(c)') : Begun(c)'[k] = due'[c][k]
    <3>1. \A k \in 1..Len(sent[c]) + 1 : k \in 1..Len(sent[c]) \/ k = Len(sent[c]) + 1
      BY <1>1
    <3>2. \A k \in 1..Len(sent[c]) + 1 : k \in 1..Len(due[c])
      BY <1>1, <2>3, <2>4
    <3>3. \A k \in 1..Len(sent[c]) + 1 : due'[c][k] = due[c][k]
      BY <3>2, DueGrows
    <3>4. Begun(c)'[Len(sent[c]) + 1] = due[c][Len(sent[c]) + 1]
      BY <1>1, <2>2, <2>3, <2>4
    <3>5. \A k \in 1..Len(sent[c]) : Begun(c)'[k] = due[c][k]
      BY <1>1, <1>4, <2>2
    <3>6. Len(Begun(c)') = Len(sent[c]) + 1
      BY <1>1, <2>2
    <3>7. QED
      BY <3>1, <3>3, <3>4, <3>5, <3>6
  <2>7. QED
    BY <2>5, <2>6 DEF BegunWords
<1>7. CASE ~(ustate[c] = "IDLE" /\ valid[c])
  <2>1. Begun(c)' = Begun(c)
    BY <1>2, <1>3, <1>7 DEF Begun, Finishes
  <2>2. beats'[c] + OneIf(Current(c)') = beats[c] + OneIf(Current(c))
    BY <1>7, CurrentStep
  <2>3. \A k \in 1..Len(Begun(c)) : Begun(c)[k] = due'[c][k]
    <3>1. \A k \in 1..Len(Begun(c)) : k \in 1..Len(due[c])
      BY <1>1, <1>4, <1>5
    <3>2. QED
      BY <1>4, <3>1, DueGrows
  <2>4. QED
    BY <1>4, <2>1, <2>2, <2>3 DEF BegunWords
<1>8. QED
  BY <1>6, <1>7

-----------------------------------------------------------------------------
\* Every register keeps its type.
LEMMA TypeStep ==
  ASSUME TypeOK, PacketHeld, NEW offered \in BOOLEAN, NEW mask \in SUBSET Uart,
         NEW rise \in BOOLEAN, offered => MayOffer, Tick(offered, mask, rise),
         \A c \in Uart : Rested(c) /\ Rested(c)' /\ DueWords(c)'
  PROVE  TypeOK'
<1>1. mode' \in [Uart -> Modes] /\ delay' \in [Uart -> Delays]
  BY DEF TypeOK, Tick, configVars
<1>2. packets' \in Word /\ (offered => packets + 1 \in Word)
  <2>1. packets \in Word /\ (offered => packets + 1 \in Word)
    BY MaxPacketsAssumption DEF TypeOK, Word, MayOffer
  <2>2. QED
    BY <2>1, ReadFacts
<1>3. beat' \in 0..NumUart /\ pvalid' \in BOOLEAN
  <2>1. beat \in 0..NumUart /\ NumUart \in Nat /\ pvalid \in BOOLEAN
    BY NumUartAssumption DEF TypeOK
  <2>2. beat' = beat \/ beat' = 0 \/ (beat # NumUart /\ beat' = beat + 1)
    BY ReadFacts
  <2>3. pvalid' \in BOOLEAN
    BY <2>1, ReadFacts
  <2>4. QED
    BY <2>1, <2>2, <2>3
<1>4. pdata' \in [mask : SUBSET Uart, word : [Uart -> Word]]
  <2>1. pdata \in [mask : SUBSET Uart, word : [Uart -> Word]] /\ beat \in 0..NumUart
        /\ NumUart \in Nat
    BY ReadTypes
  <2>2. beat = 0 \/ beat > 0
    BY <2>1
  <2>3. \/ pdata' = pdata
        \/ pdata' = [pdata EXCEPT !.mask = mask]
        \/ offered /\ pdata' = [pdata EXCEPT !.word[beat - 1] = packets + 1]
    BY <2>2, ReadFacts
  <2>4. offered => [pdata.word EXCEPT ![beat - 1] = packets + 1] \in [Uart -> Word]
    BY <1>2, <2>1
  <2>5. QED
    BY <2>1, <2>3, <2>4
<1>5. state' \in {"IDLE", "START_TX", "TX"} /\ packet_ready' \in BOOLEAN
  BY BufferFacts
<1>6. uart_valid' \in SUBSET Uart /\ uart_data' \in [Uart -> Word]
  <2>1. /\ uart_valid \in SUBSET Uart /\ uart_data \in [Uart -> Word]
        /\ pdata.mask \in SUBSET Uart /\ pdata.word \in [Uart -> Word]
    BY ReadTypes
  <2>2. uart_data' = uart_data \/ uart_data' = pdata.word
    BY BufferFacts
  <2>3. \/ uart_valid' = {} \/ uart_valid' = pdata.mask
        \/ uart_valid' = {c \in uart_valid : ~ready[c]}
    BY BufferFacts
  <2>4. QED
    BY <2>1, <2>2, <2>3
<1>7. rests' \in [Uart -> 0..MaxDelay] /\ gap' \in [Uart -> 0..MaxDelay]
  <2>1. ASSUME NEW c \in Uart
        PROVE  RestsAfter(c) \in 0..MaxDelay /\ gap'[c] \in 0..MaxDelay
    <3>1. delay[c] \in Nat /\ delay[c] <= MaxDelay /\ MaxDelay \in Nat
      BY <2>1, MaxDelayFacts, ChanTypes
    <3>2. RestsAfter(c) \in 0..delay[c]
      BY <2>1, RestFacts DEF Rested
    <3>3. gap'[c] \in Nat
      BY <2>1, UartFacts, ChanTypes
    <3>4. gap'[c] <= delay[c]
      BY <2>1, ChanFacts DEF Rested
    <3>5. QED
      BY <3>1, <3>2, <3>3, <3>4
  <2>2. rests' = [c \in Uart |-> RestsAfter(c)]
    BY DEF Tick, ChanEdge
  <2>3. gap' = [c \in Uart |-> gap'[c]]
    <3> DEFINE next(c) == CASE ustate[c] # "IDLE" -> 0
                            [] ustate[c] = "IDLE" /\ gap[c] < delay[c] -> gap[c] + 1
                            [] ustate[c] = "IDLE" /\ gap[c] >= delay[c] -> gap[c]
    <3>1. gap' = [c \in Uart |-> next(c)]
      BY DEF Tick, History
    <3> HIDE DEF next
    <3>2. QED
      BY <3>1
  <2>4. QED
    BY <2>1, <2>2, <2>3
<1>8. /\ valid' \in [Uart -> BOOLEAN] /\ busy_z' \in [Uart -> BOOLEAN]
      /\ ready' \in [Uart -> BOOLEAN] /\ busy' \in [Uart -> BOOLEAN]
  <2>1. \A c \in Uart : Accepts(c) \in BOOLEAN
    BY DEF Accepts
  <2>2. \A c \in Uart :
          (c \in uart_valid /\ (RestsAfter(c) >= delay[c] \/ valid[c])) \in BOOLEAN
    OBVIOUS
  <2>3. valid' \in [Uart -> BOOLEAN]
    BY <2>2 DEF Tick, ChanEdge
  <2>4. ready' \in [Uart -> BOOLEAN]
    BY <2>1 DEF Tick, ChanEdge
  <2>5. QED
    BY <2>3, <2>4 DEF TypeOK, Tick, ChanEdge, UartEdge
<1>9. /\ ustate' \in [Uart -> {"IDLE", "WT", "DELAY", "SHIFT"}]
      /\ left' \in [Uart -> 0..MaxLeft]
  <2>1. \A c \in Uart : ustate'[c] \in {"IDLE", "WT", "DELAY", "SHIFT"}
                        /\ left'[c] \in 0..MaxLeft
    BY UartFacts, ChanTypes
  <2>2. ustate' = [c \in Uart |-> ustate'[c]] /\ left' = [c \in Uart |-> left'[c]]
    BY DEF Tick, UartEdge
  <2>3. QED
    BY <2>1, <2>2
<1>10. srg' \in [Uart -> Word]
  BY DEF TypeOK, Tick, UartEdge
<1>11. due' \in [Uart -> Seq(Word)] /\ sent' \in [Uart -> Seq(Word)]
  <2>1. due' \in [Uart -> Seq(Word)]
    <3>1. due \in [Uart -> Seq(Word)]
      BY DEF TypeOK
    <3>2. CASE ~(offered /\ ~pvalid)
      BY <3>1, <3>2, ReadFacts
    <3>3. CASE offered /\ ~pvalid
      <4>1. packets + 1 \in Word
        BY <1>2, <3>3
      <4>2. due' = [c \in Uart |-> IF beat = NumUart /\ c \in pdata.mask
                                     THEN Append(due[c], packets + 1) ELSE due[c]]
        BY <3>3, ReadFacts
      <4>3. QED
        BY <3>1, <4>1, <4>2
    <3>4. QED
      BY <3>2, <3>3
  <2>2. sent' \in [Uart -> Seq(Word)]
    BY DEF TypeOK, Tick, History
  <2>3. QED
    BY <2>1, <2>2
<1>12. beats' \in [Uart -> Word]
  <2>1. ASSUME NEW c \in Uart PROVE beats'[c] \in Word
    <3>1. beats'[c] \in Nat
      BY <2>1, BeatsFacts
    <3>2. Len(due'[c]) = beats'[c] + OneIf(c \in uart_valid') + OneIf(NotStarted(c)')
          /\ Len(due'[c]) <= packets'
      BY <2>1 DEF DueWords
    <3>3. beats'[c] <= packets' /\ packets' \in 0..MaxPackets
      BY <1>2, <3>1, <3>2, MaxPacketsAssumption DEF OneIf, Word
    <3>4. QED
      BY <3>1, <3>3, MaxPacketsAssumption DEF Word
  <2>2. beats' = [c \in Uart |-> beats'[c]]
    BY DEF Tick, BeatsEdge
  <2>3. QED
    BY <2>1, <2>2
<1>13. QED
  BY <1>1, <1>2, <1>3, <1>4, <1>5, <1>6, <1>7, <1>8, <1>9, <1>10, <1>11, <1>12
  DEF TypeOK

-----------------------------------------------------------------------------
\* The history a reader compares, from the parts that say what is begun.
LEMMA SentOnce ==
  ASSUME TypeOK, \A c \in Uart : DueWords(c) /\ (mode[c] = 1 => BegunWords(c))
  PROVE  EveryWordSentOnce
<1> SUFFICES ASSUME NEW c \in Uart
    PROVE  /\ Len(due[c]) = beats[c] + OneIf(c \in uart_valid) + OneIf(NotStarted(c))
           /\ mode[c] = 1 =>
                /\ IsPrefix(Begun(c), due[c])
                /\ Len(Begun(c)) \in beats[c] .. beats[c] + OneIf(c \in uart_valid)
  BY DEF EveryWordSentOnce
<1>1. /\ beats[c] \in Nat /\ due[c] \in Seq(Word)
      /\ sent[c] \in Seq(Word) /\ srg[c] \in Word
  BY ChanTypes
<1>2. Len(due[c]) = beats[c] + OneIf(c \in uart_valid) + OneIf(NotStarted(c))
  BY DEF DueWords
<1>3. ASSUME mode[c] = 1
      PROVE  /\ IsPrefix(Begun(c), due[c])
             /\ Len(Begun(c)) \in beats[c] .. beats[c] + OneIf(c \in uart_valid)
  <2>1. Begun(c) \in Seq(Word)
    BY <1>1 DEF Begun
  <2>2. Len(Begun(c)) = beats[c] + OneIf(Current(c))
        /\ \A k \in 1..Len(Begun(c)) : Begun(c)[k] = due[c][k]
    BY <1>3 DEF BegunWords
  <2>3. Current(c) => c \in uart_valid
    BY DEF Current
  <2>4. Len(Begun(c)) \in beats[c] .. beats[c] + OneIf(c \in uart_valid)
    BY <1>1, <2>2, <2>3 DEF OneIf
  <2>5. Len(Begun(c)) \in Nat /\ Len(due[c]) \in Nat /\ Len(Begun(c)) <= Len(due[c])
    BY <1>1, <1>2, <2>1, <2>2, <2>3 DEF OneIf
  <2>6. SubSeq(Begun(c), 1, Len(Begun(c))) = SubSeq(due[c], 1, Len(Begun(c)))
    BY <1>1, <2>1, <2>2, <2>5
  <2>7. QED
    BY <2>4, <2>5, <2>6 DEF IsPrefix
<1>4. QED
  BY <1>2, <1>3

\* Power-up is a state of the invariant.
LEMMA InitInv == Init => TxStreamInv
<1> SUFFICES ASSUME Init PROVE TxStreamInv
  OBVIOUS
<1>1. TypeOK
  <2>1. 0 \in Word /\ 0 \in 0..NumUart /\ 0 \in 0..MaxDelay /\ 0 \in 0..MaxLeft
    BY MaxPacketsAssumption, NumUartAssumption, MaxDelayFacts, MaxLeftFacts DEF Word
  <2>2. \A c \in Uart : <<>> \in Seq(Word)
    OBVIOUS
  <2>3. /\ mode \in [Uart -> Modes] /\ delay \in [Uart -> Delays]
        /\ beat \in 0..NumUart /\ pvalid \in BOOLEAN
        /\ pdata \in [mask : SUBSET Uart, word : [Uart -> Word]]
        /\ state \in {"IDLE", "START_TX", "TX"} /\ packet_ready \in BOOLEAN
        /\ uart_valid \in SUBSET Uart /\ uart_data \in [Uart -> Word]
    BY <2>1 DEF Init
  <2>4. /\ rests \in [Uart -> 0..MaxDelay] /\ valid \in [Uart -> BOOLEAN]
        /\ busy_z \in [Uart -> BOOLEAN] /\ ready \in [Uart -> BOOLEAN]
        /\ ustate \in [Uart -> {"IDLE", "WT", "DELAY", "SHIFT"}]
        /\ left \in [Uart -> 0..MaxLeft]
    BY <2>1 DEF Init
  <2>5. /\ srg \in [Uart -> Word] /\ busy \in [Uart -> BOOLEAN]
        /\ beats \in [Uart -> Word] /\ packets \in Word
        /\ gap \in [Uart -> 0..MaxDelay]
        /\ due \in [Uart -> Seq(Word)] /\ sent \in [Uart -> Seq(Word)]
    BY <2>1, <2>2 DEF Init
  <2>6. QED
    BY <2>3, <2>4, <2>5 DEF TypeOK
<1>2. PacketHeld
  <2>1. \A c \in Uart : ~(c + 1 < 0)
    BY NumUartAssumption DEF Uart
  <2>2. QED
    BY <2>1 DEF Init, PacketHeld
<1>3. ASSUME NEW c \in Uart
      PROVE  /\ DueWords(c) /\ Rested(c)
             /\ mode[c] = 1 => ReadyFollowsBusy(c) /\ BegunWords(c)
  <2>1. delay[c] \in Nat
    BY <1>1, <1>3, ChanTypes
  <2>2. DueWords(c)
    BY <1>3 DEF Init, DueWords, NotStarted, OneIf
  <2>3. Rested(c)
    BY <1>3, <2>1 DEF Init, Rested
  <2>4. ReadyFollowsBusy(c)
    BY <1>3 DEF Init, ReadyFollowsBusy
  <2>5. BegunWords(c)
    BY <1>3 DEF Init, BegunWords, Begun, Current, OneIf
  <2>6. QED
    BY <2>2, <2>3, <2>4, <2>5
<1>4. QED
  BY <1>1, <1>2, <1>3 DEF TxStreamInv

\* Every edge of the clock keeps the invariant.
LEMMA TickInv == TxStreamInv /\ Next => TxStreamInv'
<1> SUFFICES ASSUME TxStreamInv, Next PROVE TxStreamInv'
  OBVIOUS
<1>1. PICK offered \in BOOLEAN, mask \in SUBSET Uart, rise \in BOOLEAN :
        (offered => MayOffer) /\ Tick(offered, mask, rise)
  BY StepIsTick
<1>2. TypeOK /\ PacketHeld
  BY DEF TxStreamInv
<1>3. PacketHeld'
  BY <1>1, <1>2, PacketHeldStep
<1>4. ASSUME NEW c \in Uart
      PROVE  /\ Rested(c) /\ DueWords(c)' /\ Rested(c)'
             /\ mode'[c] = 1 => ReadyFollowsBusy(c)' /\ BegunWords(c)'
  <2>1. /\ DueWords(c) /\ Rested(c)
        /\ mode[c] = 1 => ReadyFollowsBusy(c) /\ BegunWords(c)
    BY <1>4 DEF TxStreamInv
  <2>2. DueWords(c)'
    BY <1>1, <1>2, <1>4, <2>1, DueWordsStep
  <2>3. Rested(c)'
    BY <1>1, <1>2, <1>4, <2>1, RestedStep
  <2>4. mode'[c] = mode[c]
    BY <1>1, <1>2, <1>4, ChanFacts
  <2>5. mode[c] = 1 => ReadyFollowsBusy(c)'
    BY <1>1, <1>2, <1>4, <2>1, ReadyFollowsBusyStep
  <2>6. mode[c] = 1 => BegunWords(c)'
    BY <1>1, <1>2, <1>4, <2>1, BegunWordsStep
  <2>7. QED
    BY <2>1, <2>2, <2>3, <2>4, <2>5, <2>6
<1>5. TypeOK'
  BY <1>1, <1>2, <1>4, TypeStep
<1>6. QED
  BY <1>3, <1>4, <1>5 DEF TxStreamInv

\* For any number of channels, in any modes and with any delays, tx_buffer,
\* tx_chan and uart_tx keep their registers in step: every packet is handed
\* over once, and the words a UART has begun with are the words due to it.
THEOREM TxStreamCorrect == Spec => []TxStreamInv
<1>1. TxStreamInv /\ [Next]_vars => TxStreamInv'
  <2> SUFFICES ASSUME TxStreamInv, UNCHANGED vars PROVE TxStreamInv'
    BY TickInv
  <2>1. UNCHANGED <<mode, delay, beat, pdata, pvalid, state, packet_ready,
                    uart_valid, uart_data, rests, valid, busy_z, ready, ustate,
                    left, srg, busy, beats, packets, due, sent, gap>>
    BY DEF vars, configVars, readVars, bufferVars, chanVars, uartVars, historyVars
  <2>2. TypeOK' /\ PacketHeld'
    BY <2>1 DEF TxStreamInv, TypeOK, PacketHeld
  <2>3. \A c \in Uart : DueWords(c)' /\ Rested(c)'
    BY <2>1 DEF TxStreamInv, DueWords, Rested, NotStarted, Stuck
  <2>4. \A c \in Uart : mode'[c] = 1 => ReadyFollowsBusy(c)' /\ BegunWords(c)'
    BY <2>1 DEF TxStreamInv, ReadyFollowsBusy, BegunWords, Begun, Current
  <2>5. QED
    BY <2>2, <2>3, <2>4 DEF TxStreamInv
<1>2. QED
  BY InitInv, <1>1, PTL DEF Spec

\* Each word of each packet is taken and sent exactly once, in order.
THEOREM SentExactlyOnce == Spec => []EveryWordSentOnce
<1>1. TxStreamInv => EveryWordSentOnce
  BY SentOnce DEF TxStreamInv
<1>2. QED
  BY TxStreamCorrect, <1>1, PTL

\* A UART never starts before the rest its configuration asks for is over.
THEOREM SentAsConfigured == Spec => WordsSentAsConfigured
<1>1. TxStreamInv /\ [Next]_vars =>
        [\A c \in Uart : Starts(c) /\ ~Stuck(c) => gap[c] >= delay[c]]_vars
  BY DEF TxStreamInv, Rested, Starts
<1>2. /\ TxStreamInv' /\ EveryWordSentOnce'
      /\ [\A c \in Uart : Starts(c) /\ ~Stuck(c) => gap[c] >= delay[c]]_vars
      => [/\ TxStreamInv' /\ EveryWordSentOnce'
          /\ \A c \in Uart : Starts(c) /\ ~Stuck(c) => gap[c] >= delay[c]]_vars
  OBVIOUS
<1>3. QED
  BY TxStreamCorrect, SentExactlyOnce, <1>1, <1>2, PTL DEF Spec, WordsSentAsConfigured
=============================================================================
