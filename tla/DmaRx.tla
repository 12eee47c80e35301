------------------------------- MODULE DmaRx -------------------------------
(***************************************************************************)
(* The receive ring: the engine's S2MM channel writes packets from the     *)
(* FPGA into buffers, and pacman_poll_rx hands their words to              *)
(* rx_buffer_in and returns the buffers.                                   *)
(***************************************************************************)
EXTENDS DmaRing

VARIABLE taken   \* history: the packet handed to rx_buffer_in last

rxVars == <<ringVars, buf, taken>>

RxTypeOK ==
  /\ RingTypeOK
  /\ buf \in [Index -> Packets]
  /\ taken \in Packets

\* init_rx_descriptor_ring_mode has handed over every BD, from BD 1 round to
\* BD 0, and the engine has begun with BD 1.
RxInit ==
  /\ complete = [i \in Index |-> FALSE]
  /\ batch_tail = 0 /\ taildesc = 0
  /\ curdesc = 1 /\ write_back = 1 /\ fetched = 1
  /\ published = N /\ added = 0
  /\ pc = "idle" /\ batch_count = 0 /\ nxta = 0
  /\ buf = [i \in Index |-> Zero]
  /\ taken = Zero

\* The words of the buffer go to rx_buffer_in, then the BD is added.
UseBuffer ==
  /\ AddBd
  /\ taken' = buf[nxta]
  /\ buf' = buf

\* S2MM writes a packet to the buffer, then reports the BD complete.
Receive(p) ==
  /\ WriteBack
  /\ buf' = [buf EXCEPT ![write_back] = p]
  /\ taken' = taken

RxDriver ==
  \/ (StartPoll \/ ReadCurrent \/ ReadStatus \/ Publish) /\ UNCHANGED <<buf, taken>>
  \/ UseBuffer

EngineFetch == Fetch /\ UNCHANGED <<buf, taken>>

RxNext == RxDriver \/ EngineFetch \/ \E p \in Packet : Receive(p)

RxSpec == RxInit /\ [][RxNext]_rxVars

\* dataserver polls for ever and the engine fetches what it is given; packets
\* may stop coming at any time.
RxFairSpec == RxSpec /\ WF_rxVars(RxDriver) /\ WF_rxVars(EngineFetch)

-----------------------------------------------------------------------------
\* The ring's invariant with the types of the buffers: inductive as it is.
RxInv == RxTypeOK /\ RingInv

\* The packets received and not yet handed on, oldest first.
rxQueue == [k \in 1 .. N - InFlight |-> buf[Ahead(batch_tail, k)]]

RxFifo == INSTANCE BoundedFifo WITH
  Elem <- Packet, Capacity <- N, InitQ <- <<>>, InitOut <- Zero,
  q <- rxQueue, out <- taken

\* Every packet the engine receives is handed to rx_buffer_in exactly once
\* and in order: pacman_poll_rx over the whole ring.  The last one received
\* is not held back although the poll passes over the BD at CURDESC.
RxImplementsFifo == RxFifo!FairSpec

\* The engine writes only buffers whose BD is not complete, so the one
\* pacman_poll_rx is copying from does not change under it.
EngineOwnsBufferItFills ==
  [][\A i \in Index : buf'[i] # buf[i] => ~complete[i] /\ ~(pc = "use" /\ nxta = i)]_rxVars

=============================================================================
