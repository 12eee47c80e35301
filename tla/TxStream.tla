------------------------------ MODULE TxStream -----------------------------
(***************************************************************************)
(* The transmit path of the firmware: axis_read, which gathers the beats   *)
(* of a packet from the DMA engine, tx_buffer, which hands its words to    *)
(* the channels of its mask, and for each channel tx_chan around uart_tx.  *)
(* One clock drives all of them, so a step is one edge; its inputs are the *)
(* beat the engine offers and the rising edges of the ASIC clock UCLK.     *)
(*                                                                         *)
(* A word is the number of its packet; the mask of a packet is a set of    *)
(* channels.  Every packet has the full number of beats, as the buffers of *)
(* the driver have.                                                        *)
(***************************************************************************)
EXTENDS Integers, SequencesExt

CONSTANTS
  NumUart,    \* C_NUM_UART
  Modes,      \* CONFIG_I(13 downto 12), the modes channels are configured in
  Delays,     \* CONFIG_I(31 downto 16)
  Phase,      \* CLKOUT_PHASE
  WordEdges,  \* edges uart_tx needs to shift a word out
  MaxPackets  \* packets the engine streams, a bound for model checking

ASSUME NumUartAssumption    == NumUart \in Nat \ {0}
ASSUME ModesAssumption      == Modes # {} /\ Modes \subseteq 0..3
ASSUME DelaysAssumption     == Delays # {} /\ \A d \in Delays : d \in Nat /\ d <= 65535
ASSUME PhaseAssumption      == Phase \in 0..15
ASSUME WordEdgesAssumption  == WordEdges \in Nat /\ WordEdges >= 2
ASSUME MaxPacketsAssumption == MaxPackets \in Nat

VARIABLES
  mode, delay,          \* tx_registers: UART_CONFIG_O of each channel
  beat, pdata, pvalid,  \* axis_read
  state, packet_ready, uart_valid, uart_data,   \* tx_buffer
  rests, valid, busy_z, ready,                  \* tx_chan
  ustate, left, srg, busy,                      \* uart_tx
  beats,                \* tx_registers: the count of each channel's words
  packets, due, sent, gap   \* history, see History

configVars == <<mode, delay>>
readVars   == <<beat, pdata, pvalid>>
bufferVars == <<state, packet_ready, uart_valid, uart_data>>
chanVars   == <<rests, valid, busy_z, ready>>
uartVars   == <<ustate, left, srg, busy>>
historyVars == <<beats, packets, due, sent, gap>>
vars == <<configVars, readVars, bufferVars, chanVars, uartVars, historyVars>>

Uart == 0 .. NumUart - 1
Word == 0 .. MaxPackets
MaxDelay == CHOOSE d \in Delays : \A e \in Delays : e <= d
MaxLeft == IF Phase > WordEdges THEN Phase ELSE WordEdges

TypeOK ==
  /\ mode \in [Uart -> Modes] /\ delay \in [Uart -> Delays]
  /\ beat \in 0..NumUart /\ pvalid \in BOOLEAN
  /\ pdata \in [mask : SUBSET Uart, word : [Uart -> Word]]
  /\ state \in {"IDLE", "START_TX", "TX"} /\ packet_ready \in BOOLEAN
  /\ uart_valid \in SUBSET Uart /\ uart_data \in [Uart -> Word]
  /\ rests \in [Uart -> 0..MaxDelay] /\ valid \in [Uart -> BOOLEAN]
  /\ busy_z \in [Uart -> BOOLEAN] /\ ready \in [Uart -> BOOLEAN]
  /\ ustate \in [Uart -> {"IDLE", "WT", "DELAY", "SHIFT"}]
  /\ left \in [Uart -> 0..MaxLeft]
  /\ srg \in [Uart -> Word] /\ busy \in [Uart -> BOOLEAN]
  /\ beats \in [Uart -> Word] /\ packets \in Word
  /\ gap \in [Uart -> 0..MaxDelay]
  /\ due \in [Uart -> Seq(Word)] /\ sent \in [Uart -> Seq(Word)]

Init ==
  /\ mode \in [Uart -> Modes] /\ delay \in [Uart -> Delays]
  /\ beat = 0 /\ pvalid = FALSE
  /\ pdata = [mask |-> {}, word |-> [c \in Uart |-> 0]]
  /\ state = "IDLE" /\ packet_ready = FALSE
  /\ uart_valid = {} /\ uart_data = [c \in Uart |-> 0]
  /\ rests = [c \in Uart |-> 0] /\ valid = [c \in Uart |-> FALSE]
  /\ busy_z = [c \in Uart |-> FALSE] /\ ready = [c \in Uart |-> FALSE]
  /\ ustate = [c \in Uart |-> "IDLE"] /\ left = [c \in Uart |-> 0]
  /\ srg = [c \in Uart |-> 0] /\ busy = [c \in Uart |-> FALSE]
  /\ beats = [c \in Uart |-> 0] /\ packets = 0 /\ gap = [c \in Uart |-> 0]
  /\ due = [c \in Uart |-> <<>>] /\ sent = [c \in Uart |-> <<>>]

-----------------------------------------------------------------------------
(***************************************************************************)
(* axis_read: beat 0 is the mask, beat c + 1 the word of channel c.  It is *)
(* ready for a beat while it holds no packet.                              *)
(***************************************************************************)
TReady == ~pvalid

LastBeat == beat = NumUart

ReadEdge(offered, mask) ==
  LET taken == offered /\ TReady
  IN /\ beat' = IF taken THEN (IF LastBeat THEN 0 ELSE beat + 1) ELSE beat
     /\ pdata' = CASE taken /\ beat = 0 -> [pdata EXCEPT !.mask = mask]
                   [] taken /\ beat > 0 -> [pdata EXCEPT !.word[beat - 1] = packets + 1]
                   [] ~taken            -> pdata
     /\ pvalid' = ((taken /\ LastBeat) \/ (pvalid /\ ~packet_ready))

(***************************************************************************)
(* tx_buffer.                                                              *)
(***************************************************************************)
BufferEdge ==
  /\ state' = CASE state = "IDLE"     -> IF pvalid THEN "START_TX" ELSE "IDLE"
                [] state = "START_TX" -> "TX"
                [] state = "TX"       -> IF uart_valid = {} THEN "IDLE" ELSE "TX"
  /\ packet_ready' = (state = "START_TX")
  /\ uart_valid' = CASE state = "IDLE"     -> {}
                     [] state = "START_TX" -> pdata.mask
                     [] state = "TX"       -> {c \in uart_valid : ~ready[c]}
  /\ uart_data' = IF state = "START_TX" THEN pdata.word ELSE uart_data

(***************************************************************************)
(* tx_chan: valid, held back until the UART has rested, and ready, given   *)
(* when the UART has begun with the word.                                  *)
(***************************************************************************)
\* A bug to test against: the count stops one short of the delay.
RestsAfterStopsShort(c) ==
  CASE busy[c]                              -> 0
    [] ~busy[c] /\ rests[c] < delay[c] - 1  -> rests[c] + 1
    [] ~busy[c] /\ rests[c] >= delay[c] - 1 -> rests[c]

RestsAfter(c) ==
  CASE busy[c]                          -> 0
    [] ~busy[c] /\ rests[c] < delay[c]  -> rests[c] + 1
    [] ~busy[c] /\ rests[c] >= delay[c] -> rests[c]

\* A bug to test against: ready follows busy and not its rising edge.
AcceptsWhileBusy(c) == mode[c] = 0 \/ (mode[c] = 1 /\ valid[c] /\ busy[c])

Accepts(c) == mode[c] = 0 \/ (mode[c] = 1 /\ valid[c] /\ busy[c] /\ ~busy_z[c])

ChanEdge ==
  /\ rests' = [c \in Uart |-> RestsAfter(c)]
  /\ valid' = [c \in Uart |-> c \in uart_valid /\ (RestsAfter(c) >= delay[c] \/ valid[c])]
  /\ busy_z' = busy
  /\ ready' = [c \in Uart |-> Accepts(c)]

(***************************************************************************)
(* uart_tx: loads on every edge in IDLE, waits for UCLK to rise, for its   *)
(* phase, and for the bits to be shifted out.                              *)
(***************************************************************************)
Starts(c)   == ustate[c] = "IDLE" /\ valid[c]
Finishes(c) == ustate[c] = "SHIFT" /\ left[c] = 0

UartState(c, rise) ==
  CASE ustate[c] = "IDLE"  -> IF valid[c] THEN "WT" ELSE "IDLE"
    [] ustate[c] = "WT"    -> IF rise THEN "DELAY" ELSE "WT"
    [] ustate[c] = "DELAY" -> IF left[c] = 0 THEN "SHIFT" ELSE "DELAY"
    [] ustate[c] = "SHIFT" -> IF left[c] = 0 THEN "IDLE" ELSE "SHIFT"

UartLeft(c) ==
  CASE ustate[c] = "IDLE" -> IF valid[c] THEN Phase ELSE left[c]
    [] ustate[c] = "WT"   -> left[c]
    [] ustate[c] = "DELAY" /\ left[c] = 0 -> WordEdges - 1
    [] ustate[c] = "SHIFT" /\ left[c] = 0 -> 0
    [] ustate[c] \in {"DELAY", "SHIFT"} /\ left[c] > 0 -> left[c] - 1

UartEdge(rise) ==
  /\ ustate' = [c \in Uart |-> UartState(c, rise)]
  /\ left' = [c \in Uart |-> UartLeft(c)]
  /\ srg' = [c \in Uart |-> IF ustate[c] = "IDLE" THEN uart_data[c] ELSE srg[c]]
  /\ busy' = [c \in Uart |-> ustate[c] # "IDLE"]

BeatsEdge ==
  beats' = [c \in Uart |-> IF c \in uart_valid /\ ready[c] THEN beats[c] + 1 ELSE beats[c]]

-----------------------------------------------------------------------------
(***************************************************************************)
(* History: packets received whole, the words they bring each channel, the *)
(* words each UART has shifted out, and the edges since, up to its delay.  *)
(* A channel in mode 2 or 3 repeats its word for ever: it is not recorded. *)
(***************************************************************************)
Stuck(c) == mode[c] \in {2, 3}

History(offered) ==
  LET whole == offered /\ TReady /\ LastBeat
  IN /\ packets' = IF whole THEN packets + 1 ELSE packets
     /\ due' = [c \in Uart |-> IF whole /\ c \in pdata.mask
                                 THEN Append(due[c], packets + 1) ELSE due[c]]
     /\ sent' = [c \in Uart |-> IF Finishes(c) /\ ~Stuck(c)
                                  THEN Append(sent[c], srg[c]) ELSE sent[c]]
     /\ gap' = [c \in Uart |-> CASE ustate[c] # "IDLE" -> 0
                                 [] ustate[c] = "IDLE" /\ gap[c] < delay[c] -> gap[c] + 1
                                 [] ustate[c] = "IDLE" /\ gap[c] >= delay[c] -> gap[c]]

Tick(offered, mask, rise) ==
  /\ ReadEdge(offered, mask)
  /\ BufferEdge
  /\ ChanEdge
  /\ UartEdge(rise)
  /\ BeatsEdge
  /\ History(offered)
  /\ UNCHANGED configVars

MayOffer == packets < MaxPackets

Next ==
  \E mask \in SUBSET Uart, rise \in BOOLEAN :
    \/ Tick(FALSE, mask, rise)
    \/ MayOffer /\ Tick(TRUE, mask, rise)

Spec == Init /\ [][Next]_vars

\* The clocks run for ever: the ACLK ticks and UCLK rises again and again.
\* The engine need not offer anything.
Fairness ==
  /\ WF_vars(Next)
  /\ WF_vars(\E mask \in SUBSET Uart : Tick(FALSE, mask, TRUE) \/ (MayOffer /\ Tick(TRUE, mask, TRUE)))

FairSpec == Spec /\ Fairness

-----------------------------------------------------------------------------
(***************************************************************************)
(* Properties.                                                             *)
(***************************************************************************)
\* The words a UART has sent or begun with.
Begun(c) == IF ustate[c] = "IDLE" THEN sent[c] ELSE Append(sent[c], srg[c])

OneIf(p) == IF p THEN 1 ELSE 0

\* Channel c has a word in the packet axis_read still holds.
NotStarted(c) == pvalid /\ ~packet_ready /\ c \in pdata.mask

\* Each packet is handed over once, each of its words is taken by its channel
\* once, and a channel in mode 1 sends exactly the words taken, in order and
\* as the packet brought them: the valid and ready bits of tx_buffer and
\* tx_chan against a UART that loads and starts at its own time.
EveryWordSentOnce ==
  \A c \in Uart :
    /\ Len(due[c]) = beats[c] + OneIf(c \in uart_valid) + OneIf(NotStarted(c))
    /\ mode[c] = 1 =>
         /\ IsPrefix(Begun(c), due[c])
         /\ Len(Begun(c)) \in beats[c] .. beats[c] + OneIf(c \in uart_valid)

\* axis_read holds a packet from its last beat until tx_buffer has taken it,
\* and only in TX is a channel offered a word.
PacketHeld ==
  /\ pvalid => beat = 0 /\ \A c \in Uart : pdata.word[c] = packets
  /\ \A c \in Uart : c + 1 < beat => pdata.word[c] = packets + 1
  /\ packet_ready => state = "TX" /\ pvalid
  /\ state = "START_TX" => pvalid /\ ~packet_ready
  /\ state # "TX" => uart_valid = {}
  /\ \A c \in Uart : mode[c] = 0 /\ ~ready[c] => state = "IDLE" /\ ~pvalid

\* What is due, oldest first: the words taken, the one offered, the one that
\* axis_read holds.
DueWords(c) ==
  /\ Len(due[c]) = beats[c] + OneIf(c \in uart_valid) + OneIf(NotStarted(c))
  /\ Len(due[c]) <= packets
  /\ c \in uart_valid => uart_data[c] = due[c][beats[c] + 1]
  /\ NotStarted(c) => due[c][Len(due[c])] = packets

\* The UART has begun with the very word that tx_buffer offers: busy, its
\* delayed copy and ready show it edge by edge.
Current(c) ==
  c \in uart_valid /\ ustate[c] # "IDLE" /\ ~(busy[c] /\ busy_z[c] /\ ~ready[c])

\* A channel in mode 1, from the start of the UART over the edge of busy to
\* ready: valid holds until ready has been given, and is gone before the UART
\* is idle again.
ReadyFollowsBusy(c) ==
  /\ ustate[c] # "IDLE" /\ ~busy[c] =>
       ustate[c] = "WT" /\ valid[c] /\ c \in uart_valid /\ ~ready[c]
  /\ busy[c] /\ ~busy_z[c] =>
       ustate[c] \in {"WT", "DELAY"} /\ valid[c] /\ c \in uart_valid /\ ~ready[c]
  /\ ready[c] =>
       /\ ustate[c] \in {"WT", "DELAY"} \/ (ustate[c] = "SHIFT" /\ left[c] > 0)
       /\ busy[c] /\ busy_z[c] /\ valid[c] /\ c \in uart_valid
  /\ valid[c] /\ c \notin uart_valid => ustate[c] # "IDLE" /\ state = "TX"
  /\ delay[c] > 0 /\ valid[c] /\ c \in uart_valid /\ ustate[c] # "IDLE" => Current(c)

BegunWords(c) ==
  /\ Len(Begun(c)) = beats[c] + OneIf(Current(c))
  /\ \A k \in 1..Len(Begun(c)) : Begun(c)[k] = due[c][k]

\* rests lags behind the edges since the last word; a word is not offered to an
\* idle UART before its rest is over.
Rested(c) ==
  /\ rests[c] <= delay[c] /\ gap[c] <= delay[c]
  /\ ustate[c] = "IDLE" /\ ~busy[c] => rests[c] <= gap[c]
  /\ ustate[c] = "SHIFT" => busy[c]
  /\ ~Stuck(c) /\ ustate[c] = "IDLE" /\ valid[c] => gap[c] >= delay[c]
  /\ mode[c] = 0 /\ c \in uart_valid => ready[c] /\ ~valid[c]

\* The inductive invariant; EveryWordSentOnce follows from it.
TxStreamInv ==
  /\ TypeOK /\ PacketHeld
  /\ \A c \in Uart : /\ DueWords(c) /\ Rested(c)
                     /\ mode[c] = 1 => ReadyFollowsBusy(c) /\ BegunWords(c)

\* Every step keeps both, and between two words a UART rests for as many edges
\* as its configuration asks (tx_chan's delay), also when the next word waits.
WordsSentAsConfigured ==
  [][/\ TxStreamInv' /\ EveryWordSentOnce'
     /\ \A c \in Uart : Starts(c) /\ ~Stuck(c) => gap[c] >= delay[c]]_vars

\* A channel in mode 2 or 3 never takes its word and holds all the others.
Blocked == \E c \in uart_valid : Stuck(c)

\* Otherwise every word is taken and sent, and the engine is never made to
\* wait for ever.
EveryWordLeavesUnlessBlocked ==
  []<>(Blocked \/ (TReady /\ \A c \in Uart : mode[c] = 1 => sent[c] = due[c]))

=============================================================================
