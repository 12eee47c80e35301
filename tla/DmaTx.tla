------------------------------- MODULE DmaTx -------------------------------
(***************************************************************************)
(* The transmit ring: pacman_poll_tx moves packets that tx_buffer_out      *)
(* hands it into buffers, and the engine's MM2S channel streams them to    *)
(* the FPGA.                                                               *)
(***************************************************************************)
EXTENDS DmaRing

VARIABLE sent   \* history: the packet streamed last

txVars == <<ringVars, buf, sent>>

TxTypeOK ==
  /\ RingTypeOK
  /\ buf \in [Index -> Packets]
  /\ sent \in Packets

\* init_tx_descriptor_ring_mode has handed over BD 0, cleared, as an initial
\* empty packet, and the engine has begun with it.
TxInit ==
  /\ complete = [i \in Index |-> i # 0]
  /\ batch_tail = 0 /\ taildesc = 0
  /\ curdesc = 0 /\ write_back = 0 /\ fetched = 1
  /\ published = 1 /\ added = 0
  /\ pc = "idle" /\ batch_count = 0 /\ nxta = 0
  /\ buf = [i \in Index |-> Zero]
  /\ sent = Zero

\* tx_buffer_out returned a packet: copy it and add the BD.
FillBuffer(p) ==
  /\ AddBd
  /\ buf' = [buf EXCEPT ![nxta] = p]
  /\ sent' = sent

\* tx_buffer_out had nothing: leave the loop.
NothingToSend ==
  /\ pc = "use"
  /\ pc' = "publish"
  /\ UNCHANGED <<complete, batch_tail, taildesc, engineVars, published, added,
                 batch_count, nxta, buf, sent>>

\* MM2S streams the buffer, then reports the BD complete.
Transmit ==
  /\ WriteBack
  /\ sent' = buf[write_back]
  /\ buf' = buf

TxDriver ==
  \/ (StartPoll \/ ReadCurrent \/ ReadStatus \/ Publish) /\ UNCHANGED <<buf, sent>>
  \/ \E p \in Packet : FillBuffer(p)
  \/ NothingToSend

TxEngine == (Fetch /\ UNCHANGED <<buf, sent>>) \/ Transmit

TxNext == TxDriver \/ TxEngine

TxSpec == TxInit /\ [][TxNext]_txVars

\* cmdserver polls for ever and the engine streams whatever it is given.
TxFairSpec == TxSpec /\ WF_txVars(TxDriver) /\ WF_txVars(Fetch /\ UNCHANGED <<buf, sent>>)
                 /\ WF_txVars(Transmit)

-----------------------------------------------------------------------------
\* The ring's invariant with the types of the buffers: inductive as it is.
TxInv == TxTypeOK /\ RingInv

\* The packets handed over or held in the batch, oldest first.
txQueue == [k \in 1..InFlight |-> buf[Ahead(write_back, k - 1)]]

TxFifo == INSTANCE BoundedFifo WITH
  Elem <- Packet, Capacity <- N, InitQ <- <<Zero>>, InitOut <- Zero,
  q <- txQueue, out <- sent

\* Every packet taken from tx_buffer_out is streamed exactly once, in order:
\* pacman_poll_tx over the whole ring, wrap and full ring included.
TxImplementsFifo == TxFifo!FairSpec

\* The driver writes only into a buffer the engine is done with.
OwnsBufferItFills ==
  [][\A i \in Index : buf'[i] # buf[i] =>
       complete[i] /\ (fetched > 0 => Distance(write_back, i) >= fetched)]_txVars

=============================================================================
