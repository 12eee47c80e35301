-------------------------------- MODULE RxTx --------------------------------
(***************************************************************************)
(* The functions of rxtx.c, and those of pacman.cc built on them, as       *)
(* programs: sequences of operations on the DMA core.  A loop is an        *)
(* operation that puts itself back behind what it does once (DmaBench).    *)
(***************************************************************************)
EXTENDS DmaControl, FiniteSets

CONSTANTS
  Batch,    \* packets that one pass of a loop handles at most
  Packets,  \* packets of a benchmark
  Uart      \* UART channels

ASSUME BenchAssumption == {Batch, Packets} \subseteq Nat \ {0}
ASSUME UartAssumption == Uart = 0..Cardinality(Uart) - 1

Op(op, c, arg) == [op |-> op, c |-> c, arg |-> arg]

\* One function of dma.c each.
Reset(c) == Op("reset", c, 0)
InitRing(c, status) == Op("init ring", c, status)
CurDesc(c, i) == Op("curdesc", c, i)
TailDesc(c, i) == Op("taildesc", c, i)
BatchTail(c, i) == Op("batch taildesc", c, i)
Run(c) == Op("run", c, 0)
ClearBd(c, i) == Op("clear bd", c, i)
ClearIoc(c) == Op("clear ioc", c, 0)
Wait(what, c) == Op("wait", c, what)

\* dma_*_batch, always or when the loop before it added something.
Publish(c) == Op("publish", c, FALSE)
PublishAdded(c) == Op("publish", c, TRUE)

\* While a BD is available: the next packet of payload into it; or what it
\* received is looked at in a certain way, for limit BDs at most.
Fill(payload) == Op("fill", "tx", payload)
Drain(look, limit) == Op("drain", "rx", <<look, limit>>)

-----------------------------------------------------------------------------
(***************************************************************************)
(* Rings.                                                                  *)
(***************************************************************************)
\* dma_reset_*: the write and the wait.
dma_reset_wait(c) == <<Reset(c), Wait("reset", c)>>

init_tx_descriptor_ring_mode ==
  <<InitRing("tx", TRUE), CurDesc("tx", Base), TailDesc("tx", Base), BatchTail("tx", Base),
    Run("tx"), Wait("run", "tx"), ClearBd("tx", Base), TailDesc("tx", Base)>>

init_rx_descriptor_ring_mode ==
  <<InitRing("rx", FALSE), CurDesc("rx", NextSlot(Base)),
    TailDesc("rx", Base), BatchTail("rx", Base),
    Run("rx"), Wait("run", "rx"), TailDesc("rx", Base)>>

init_rxtx_descriptor_ring_mode ==
  dma_reset_wait("tx") \o dma_reset_wait("rx")
    \o init_tx_descriptor_ring_mode \o init_rx_descriptor_ring_mode

-----------------------------------------------------------------------------
(***************************************************************************)
(* A packet for the UARTs in its mask, and the test transfers.             *)
(***************************************************************************)
Packet(mask, word) == [mask |-> mask, word |-> word]
Plain == [op |-> "plain", chip |-> 0, addr |-> 0, val |-> 0]

clear_rxtx_ioc == <<ClearIoc("tx"), ClearIoc("rx")>>

\* They start from the TAILDESC register, which is read when they run.
single_tx(mask) == <<Op("single tx", "tx", Packet(mask, Plain))>>
single_rx == <<Op("single rx", "rx", 0)>>

SingleTx(i) == <<ClearIoc("tx"), ClearBd("tx", i), TailDesc("tx", i), Wait("ioc", "tx")>>
SingleRx(i) == <<BatchTail("rx", i), ClearBd("rx", i), TailDesc("rx", i)>>

SendBatch(payload) ==
  <<Fill(payload), ClearIoc("tx"), Publish("tx"), Wait("ioc", "tx")>>

Copies(k, mask) == [j \in 1..k |-> Packet(mask, Plain)]

batch_tx(mask) == SendBatch(Copies(Batch, mask))
batch_rx == <<Drain("nothing", Batch), Publish("rx")>>

-----------------------------------------------------------------------------
(***************************************************************************)
(* Benchmarks: their loops, with sent and received as far as they got.     *)
(***************************************************************************)
BenchTx == Op("bench tx", "tx", 0)
BenchLoopback == Op("bench loopback", "rx", 0)

benchmark_tx == init_rxtx_descriptor_ring_mode \o <<BenchTx, Wait("idle", "tx")>>
benchmark_rxtx_loopback == init_rxtx_descriptor_ring_mode \o <<BenchLoopback>>

TxPass(mask) == <<Fill(Copies(Batch, mask)), PublishAdded("tx"), BenchTx>>

\* "assuming all 40 uarts enabled".
RxExpected == Cardinality(Uart) * Packets

LoopbackPass(mask, sent) ==
  LET left == Packets - sent IN
  (IF left > 0
     THEN <<Fill(Copies(IF left < Batch THEN left ELSE Batch, mask)), PublishAdded("tx")>>
     ELSE <<>>)
    \o <<Drain("count", Batch), PublishAdded("rx"), BenchLoopback>>

-----------------------------------------------------------------------------
(***************************************************************************)
(* The servers.                                                            *)
(***************************************************************************)
\* "cmdserver (TX) handles both resets".
pacman_init_tx ==
  dma_reset_wait("tx") \o dma_reset_wait("rx") \o init_tx_descriptor_ring_mode

\* A bug to test against: the ring is set up before the head start is over.
pacman_init_rx_hasty ==
  init_rx_descriptor_ring_mode \o <<Op("head start", "rx", 0), Wait("server", "tx")>>

\* The head start, then the wait for a running TX, without which it exits.
pacman_init_rx ==
  <<Op("head start", "rx", 0), Wait("server", "tx")>> \o init_rx_descriptor_ring_mode

ServeTx == Op("serve tx", "tx", 0)
ServeRx == Op("serve rx", "rx", 0)

pacman_poll_tx(payload) == <<Fill(payload), PublishAdded("tx"), ServeTx>>

\* A bug to test against: the BDs of a pass are not handed back.
pacman_poll_rx_kept == <<Drain("nothing", Batch), ServeRx>>

pacman_poll_rx == <<Drain("nothing", Batch), PublishAdded("rx"), ServeRx>>
=============================================================================
