# PACMAN in TLA+

PACMAN reads out and controls pixel ASICs. An FPGA (VHDL, `src/ghdl`) talks to
up to 40 ASIC UARTs and to a trigger and clock unit, the ATC; two Linux servers
(C and C++, `src/petalinux/pkg/pacman-apps/files`) talk to the FPGA through
memory-mapped registers and one AXI DMA engine, and to the network through
ZeroMQ. Beside them stand an interactive program on the same devices
(`pacman_menu`), a board check without Linux (`hwcheck`), and the boot loaders
that bring the board to Linux. `src/vivado/src/hdl` holds copies of the VHDL made by
`utils/sync_ghdl.sh`; this project reads `src/ghdl`. Below, `files/` stands for
`src/petalinux/pkg/pacman-apps/files`.

This directory holds TLA+ modules for the parts of the system in which order,
concurrency and limits matter, TLC configurations that check them on small
instances, and proofs checked by TLAPS for every value of their constants.

    tlc -config Poke.cfg PokeSync.tla      # a run: one .cfg and its module
    tlapm PokeSyncProofs.tla               # the proofs of a module

`PROJECT.json` lists the components, runs, hazards, theorems, and for every
definition of a model the lines of the source it stands for.

## 1. The system

    network ---REQ/REP--- pacman_cmdserver --- tx_buffer.cc --- TX ring --+
                              |                                           | AXI DMA
    network ---PUB/SUB--- pacman_dataserver -- rx_buffer.cc --- RX ring --+ engine
                              |                                           |
                 AXI-Lite registers (regbus)            AXI streams: tx_buffer.vhd,
                              |                             rx_buffer.vhd
                      system clock domain ------------ tx_chan/uart_tx, rx_chan/uart_rx
                              |
                     CDC handshakes (atc_bridge)
                              |
                     detector clock domain: ATC pulses, configuration, counters

| Component | State | Operations and partners | What is hard | What makes it correct |
|---|---|---|---|---|
| Clock-domain handshake (`cdc/update_request`, `update_reply`, `rst_sync`, `poke_sync`, `atc/config_sync`) | request and reply levels with three-stage synchronisers, `busy`, `waiting`, delay line, mask, shadow registers | a register write starts a request in the system domain; the detector domain acts and answers; reset clears both at once and leaves them at different edges | two unrelated clocks, values sampled while they change, a reset in the middle | one action per accepted request, with its own mask or configuration; `busy` covers it; never busy for ever |
| ATC registers and bridge (`atc_registers`, `atc_bridge`, `axil_to_regbus`, `atc.c`) | configuration, poke and count registers, STATUS | AXI-Lite writes no closer than three clock edges; software polls STATUS before it writes, for ten reads at most | STATUS lags `busy`, polling gives up silently | polling software never hits a busy channel |
| ATC pulses and counters (`atc_mux`, `atc_counter`, `counter`, `payload_sync`) | stretched pulses, counters per tile, read-out selection | detector domain; read back through its own handshake | a count read while it is being selected | a count is of the tile asked for |
| Register bus (`regbus_mux`, `registers_scratch`) | scope decoding, acknowledge | read and write under way together | an unacknowledged address | each access is answered once |
| RX path (`rx_chan`, multiplexers, `rx_buffer`, `axis_write`, `heartbeat`, `rollover`) | one word and valid bit per channel, a round of turns, packet timeout and count, three beats of output buffer | UARTs deliver words, the DMA engine's FIFO takes beats when it likes | back-pressure at any beat; words arriving during a turn; end of packet by time, count or idleness | each word streamed once or counted lost; well-formed packets; nothing stays behind |
| TX path (`axis_read`, `tx_buffer`, `tx_chan`, `uart_tx`) | one packet, a valid bit per channel, a shift register per UART | valid and ready bits between the buffer and 40 independent UARTs | UARTs start and end at their own times; one slow channel holds all | each word sent once on its own channel; rests between words; no channel in use stalls the others |
| DMA descriptor rings (`dma.c`, `rxtx.c`, `pacman.cc`) | descriptors with a COMPLETE bit, CURDESC, TAILDESC, batch tail, buffers | the driver's poll and the engine, over shared memory without locks | stale reads, wrap, full ring equal to empty ring, prefetch | packets leave once each, in order; neither side touches a buffer of the other |
| RX word buffer (`rx_buffer.cc`) | ring with one empty slot, lost and maximum counts | filled by the poll, emptied by the data server | limit, wrap | words in order, losses counted |
| TX word buffer (`tx_buffer.cc`) | a ring for each channel, lost count | filled by data words of requests and by broadcasts, emptied one word per channel and packet | broadcast that fits some channels only | every copy accounted for; order per channel |
| Data server (`pacman_dataserver/main.cc`, `pacman_message.hh`) | one static message buffer, `msg_ready`, timeout | main loop, ZeroMQ I/O thread, `clear_msg` callback, subscribers | the buffer is shared with another thread; failures half-way | never overwritten while held; words increase for each subscriber; nothing waits for ever |
| Command server (`pacman_cmdserver/main.cc`) | one static reply buffer | REP socket, clients, tx_buffer, polls between requests | zero-copy reply reused for the next request; polls only between requests | reply matches request; accepted words reach the engine |
| Slow control in the server (`pacman_vspace.cc`, `pacman_i2c.cc`, `pacman_highlevel_interface.cc`) | the I2C device, the expert registers | dispatch of addresses and commands; DACs, power monitors, multiplexers, enables, pulses | refresh, point and read are three transactions; two devices make one channel; read-modify-write; a request that is not polled | the reading is of what was asked; both poles agree; no other bit changes; the long pulse is long |
| Slow control in the menu (`pacman_menu`, `iic.c`, `atc.c`, `led.c`, `adc.c`, `global.c`) | the setting of each toggle | the same devices, no lock against the server, statuses ignored | all of the above from two processes; a failed write in a ramp | one tile powered at a time; a count is of its channel |
| Programs on the DMA core (`rxtx.c`, `asic_menu.c`, `pacman.cc`, `pacman_server.sh`) | registers of both channels, rings in memory that outlives a process, batch tails | set-up, reset and run, one-shot, batch and benchmark items; start, kill and restart of the servers | what one program leaves for the next; answers without a mark; loops that wait for lost packets | program and engine agree on the next descriptor; items end; data is taken |
| Board check (`hwcheck.c`) | the setting of each toggle | the same devices, alone | registers of an earlier firmware | as for the menu |
| Boot loaders (`pacman_fsbl`, `jtag_boot`) | REBOOT_STATUS, MULTIBOOT_ADDR, watchdog, OCM | boot ROM, flash, e-fuse, U-Boot, debugger | any step may fail or be cut by the watchdog; a fallback within a fallback | a clean board for U-Boot; no failed image twice; it comes to an end |
| Register bus, status registers, other command line tools, build | register files; none | decoding, straight-line clients | | |

### Where it can go wrong

The 40 hazards of `PROJECT.json` name lines. In groups:

- *Two clock domains.* The mask and the configuration cross without a handshake
  of their own; STATUS is late by two edges; a write under busy is dropped but
  its mask is not; the delay line of `poke_sync` is not cleared by reset.
- *Driver against engine.* CURDESC is read before the descriptor's status and
  both move on; a ring handed over whole looks empty; a stale COMPLETE bit
  halts the engine; packets added and not published stay behind.
- *Server against ZeroMQ.* Static buffers are sent from while the loop goes on;
  messages fail or are dropped between claiming the buffer and giving it back.
- *Streams.* `busy` of `axis_write` is an edge late; words arrive on the edge
  that clears the last; a UART is still busy with one word when the next is
  valid; a word is buffered on the turn that ends its packet.
- *Limits and conversions.* Rings at their last slot, broadcasts that need two;
  a channel number cut to eight bits.
- *Two programs, one board.* Pointer and reading are two transactions, a
  multiplexer two devices, an enable a read and a write; nothing locks them.
- *One program after another.* Restarted servers and menu items find the rings,
  the registers and the late answers of those before.
- *Boot.* Failures, watchdog and debugger at any step, with marks that outlive
  the reset.

## 2. Modules

| Module | Models | State of the code it carries |
|---|---|---|
| `UpdateHandshake` | `update_request`, `update_reply`, `rst_sync` | every register of the three, as bits; one operator per half and clock edge |
| `PokeSync` | a poke channel: its registers in `atc_registers`, the handshake, `poke_sync`, the STATUS bit, and software with or without polling | `poke`, `mask`, `status`, `payload_sync`, `update`, `payload`, `update_z`, `done` |
| `PokeChannel` | abstract: a message accepted when idle appears once, then the channel is idle | |
| `ConfigSync` | the configuration channel with `config_sync` and its shadow | `config`, `config_req`, `shadow`, `done`, `copied` |
| `RingIndex` | slot arithmetic of all the rings | |
| `DmaRing`, `DmaTx`, `DmaRx` | the driver's poll, one register or memory access a step, the engine as the driver relies on it, and the buffers of either direction | `complete`, `batch_tail`, `taildesc`, `curdesc`, `batch_count`, `nxta`, `buf` |
| `BoundedFifo` | abstract: a bounded queue | |
| `RxBuffer`, `DataServer` | `rx_buffer.cc`; the data server with the I/O thread | `head`, `tail`, `data`, `lost`, `max`; `msg_ready`, `msg_buffer`, `n_bytes`, `available` |
| `TxBuffer`, `CmdServer`, `MCCmdServer` | `tx_buffer.cc`; the command server with its clients | the rings; `rep_msg` as `rep_header` and `rep_words` |
| `AxisWrite`, `RxStream` | `axis_write`; `rx_chan`, the multiplexers and `rx_buffer`, one clock edge a step | every register but the look and status outputs |
| `Transactions`, `PacmanI2c`, `Highlevel`, `PacmanMenu`, `HwCheck` | the single accesses of the slow control, and every function of the server, the menu and `hwcheck` as the sequence of accesses it makes | none: they are operators |
| `SlowControl`, `MCSlowControl` | the devices, and two processes that run those sequences access by access | DAC, monitor and multiplexer registers, enables, ATC destinations, counters, pins; `i2c_expert`, the toggles' settings, the position in each call |
| `DmaControl` | both channels of the engine with all their registers, the rings, the functions of `dma.c` | `DMACR`, `DMASR`, CURDESC, TAILDESC, COMPLETE bits, batch tails, batch counts |
| `RxTx`, `AsicMenu` | the functions of `rxtx.c`, `pacman.cc`, `asic.c`, `asic_menu.c` as sequences of operations | none |
| `DmaBench`, `MCDmaBench` | the programs over `DmaControl`, the loopback of words, an ASIC that answers, start and death of the servers | the position in each program, benchmark and test counts, the menu's settings |
| `BootState`, `Fsbl`, `TrenzHook`, `JtagBoot`, `Boot`, `MCBoot` | both boot loaders, the hook before the handoff, and the boot ROM | REBOOT_STATUS (`mark`), MULTIBOOT_ADDR, watchdog, OCM, the globals of a run (`known`, `image`) |
| `TxStream` | `axis_read`, `tx_buffer`, `tx_chan`, `uart_tx`, one clock edge a step | every register but status outputs; `bit_cnt`, `baud_cnt` and `phase_cnt` as the one count `left` |
| `PokeSyncProofs`, `ConfigSyncProofs`, `DmaProofs`, `DataServerProofs`, `CmdServerProofs`, `RxStreamProofs`, `TxStreamProofs`, `BootProofs` | the proofs | |

An edge of a clock is a step of the VHDL modules; a statement that reads or
writes shared memory, a register or a socket is a step of the C modules; in
`DmaBench` a step is a function of `dma.c`, in `Boot` a step that can fail. Where
two clocks tick together (`BothTick`) the sampling flop takes the old or the new
level, and a record that changes is sampled field by field. Variables marked
*history* exist only so that properties can speak of the past.

Definitions headed "A bug to test against" are mutated forms of the definition
that follows them: each property is broken by one of them, which shows that the
run would notice that bug.

### Correspondence and abstractions

- *Registers and AXI-Lite* are a write no sooner than `WriteGap >= 3` edges
  after the last, the shortest sequence of `axil_to_regbus`. Software that polls
  writes when the STATUS bit it reads is clear; software that does not, because
  `wait_atc_busy` gave up after ten reads and its result is ignored, writes at
  any time. `PokeSync` covers both (`polling`). In `atc.c:69-77` the fields are
  written one after the other without a wait of their own: they follow the wait
  that comes after the previous request, and another wait comes right before the
  next one. So STATUS is clear at each of these writes, which is what
  `ConfigSync` asks of software that polls.
- *The engine* of `DmaRing` is external: it fetches up to and including
  TAILDESC, holds up to `Prefetch` descriptors, and finishes them in order. It
  rests when CURDESC equals TAILDESC and compares nothing else, which is what
  makes the driver's look at CURDESC necessary.
- *ZeroMQ* is external: PUB sends to any subset of the subscribers (connected,
  below their high-water marks) at any later time; `clear_msg` runs when the
  last reference is gone; every call that may fail does so at will. A failing
  `zmq_msg_send` of the REP socket is left out: main stops there.
- *Requests* are the sequence of the channels of their words; a string message
  is a request of one word; register words are words that leave `tx_buffer`
  alone.
- *RX words* are numbered per channel; header, time stamp and data of a word
  are three beats that carry its number. `uart_rx` is its rate: at least
  `MinGap` edges between two words. `timeout_counter` stops at `Timeout`, where
  it has no further effect.
- *Slow control.* A program is a sequence of accesses; one I2C transaction and one
  register access are atomic, as the kernel's driver and the bus make them. A
  failing transaction leaves the device as it was. Between two calls a process
  waits longer than its own last request to the ATC takes, a pause or a poll
  lasts longer than what is under way, and everything else interleaves. A
  behaviour belongs to one `session`, a set of calls that can meet at one kind
  of device; the devices are independent of each other. `hwcheck` has a board
  to itself, and its registers are of an earlier firmware, so what it writes to
  them changes nothing.
- *Programs on the DMA core.* Menu items begin when the engine has done what it
  was given; waits outlast the engine; `single_rx` is chosen with a packet there
  and `single_tx` with room; the head start of 100 ms that the data server gives
  is longer than the command server takes. The ring holds all words of a
  loopback test. `start` runs with the servers stopped or, as `restart`, kills
  them first.
- *RX packets* of `DmaBench` end after any number of words, after each word, or
  not at all, as the configuration of `rx_buffer` says (`PacketEnds`). Without an
  end the words fill one buffer of `RX_BUF_BYTES` after the other, in the model one
  of some words, and only the next setting puts a trailer behind them, which counts
  more words than its buffer holds. Heartbeats and rollovers are mixed into
  packets; those in packets of their own are left out: the loopback test skips
  them, and the benchmark, which counts them, is run without.
- *Boot.* A partition, its checksum and the flash driver are one step that
  succeeds or fails; an image is good or broken in one of two ways.
- *TX words* are the number of their packet. `uart_tx` waits for any number of
  edges for UCLK, then `Phase` edges, then `WordEdges`. A channel in mode 2 or
  3 repeats its word for ever; what it sends is not recorded.

## 3. Runs

Eleven runs pass, one shows a disagreement between the code and what is said of
it. States are distinct states.

| Run | Bounds | States | Shows |
|---|---|---|---|
| `Poke` | two masks, gap 3, both kinds of software | 738 | `PokeCarriesItsMask`, `PollingNeverDropped`, `StableThenAcknowledge`; the channel implements `PokeChannel` with its liveness (`ImplementsChannel`); the invariant of the proofs (`IInv`) |
| `ConfigPolling` | two fields of two values, polling | 345 | idle means configured, but for dst_logic_f, and the shadow changes only whole; the invariant of the proofs (`ConfiguredWhole`); requests end (`RequestCompletes`) |
| `DmaTx`, `DmaRx` | ring of 4, batch 2, prefetch 2, two packets | 10,842 and 9,441 | the ring implements `BoundedFifo` with its liveness (`TxImplementsFifo`, `RxImplementsFifo`); `NoStaleFetch`; buffers have one owner (`EngineOwnsBufferItFills`); the invariant of the proofs (`TxInv`, `RxInv`) |
| `DataServer` | ring of 5, 6 words, batches of 2 to 3, two subscribers, every failure | 93,681 | words are in the ring, returned or counted lost, counts never pass zero and the message buffer has one owner (`DataServerInv`, the invariant of the proofs); `HeldBufferNotWritten`, `EachWordOnceInOrder`, `FlushedUnlessInitFailed` |
| `CmdServer` | two channels, rings of 3, four words, one client, mixed requests | 64,020 | every copy waiting, sent or counted lost, in order (`CmdServerInv`, the invariant of the proofs); `ReplyMatchesRequest`, `WordsLeave` |
| `CmdServerTwo` | two clients | 146 | *violation*: a reply is overwritten before it is sent |
| `RxStream` | two channels of two words, packets of two words, timeout of 12 edges, 22 edges between words, FIFO stalling at will | 72,429 | each word streamed once or counted lost, packets of whole words with a true count (`RxStreamInv`, the invariant of the proofs); `NothingLostUnstalled`, `EveryPacketEnds`, `EveryWordLeavesUnlessHeldOver` |
| `TxStream` | two channels in modes 0 to 2, delays 0 and 2, two packets with any masks | 52,164 | each word sent once, on its channel, with its rest, and the invariant of the proofs (`WordsSentAsConfigured`); `EveryWordLeavesUnlessBlocked` |
| `Boot` | three flash slots, four contents, four straps, three faults | 22,688 | `LeavesCleanBoard`, `FailedImageNotRerun`, `FuseForbidsReset`, `BootSettles` |
| `SlowControl` | two tiles, two levels, one fault, fourteen sessions | 5,998,518 | `MeasuresWhatItSays`, `PolesAgree`, `OtherTilesKept`, `FullResetIsLong`, `RampPowersOneTile`, `CountIsOfItsChannel` |
| `DmaBench` | rings of 4, two UARTs, ten sessions of two to eight keys | 971,267 | program and engine agree on the next descriptor (`ProgramMeetsEngine`); `LoopbackCountsTrue`, `DataTaken`, `ItemEnds` |

Why these bounds are enough to be of interest:

- The handshake has no data but its mask: two masks tell "mine" from "another".
  The number of requests and resets is not bounded. Three edges between writes
  is the shortest gap and the hardest for the software.
- A ring of 4 wraps, fills (4 under way) and holds a batch smaller than the
  ring; the number of packets is not bounded. With a ring of two the same
  invariant is proved.
- In `DataServer` six words wrap a ring of five and overflow it; a batch of
  three is larger than what the timeout flushes and smaller than the ring.
- In `CmdServer` each ring has two usable slots: a broadcast played twice
  (channel number 62) fits one, both or none. Four words reach every
  combination of the two rings.
- `RxStream`: three beats are the buffer's true depth and three fragments the
  true turn. Two channels make three turns a round, or nine edges; `MinGap` of
  22 edges is the least that two rounds and the end of a packet need
  (`RoundsFit`). In hardware, with 44 channels, that is 274 edges, and a UART
  needs at least 650 for a word.
- `TxStream`: two packets put the second word at the channel while its UART is
  still busy with the first. `WordEdges` of 4 is far shorter than the least 67
  edges of `uart_tx`, which makes the races harder.

- `SlowControl`: two tiles tell one's own from another, two levels on from off, a
  ramp of two settings has a step and an end; one fault can fall on any
  transaction. One flash stands for twenty, a saturated count is one.
- `DmaBench`: as for the rings above; three packets of a benchmark are more than
  a batch and fewer than a ring, two words on the wire can be out of step by
  one test; six keys reach set-up, use, reset and use again. A loopback test
  counts for two keys; eight reach every setting of the RX buffer's configuration
  with both rings set up and the ASIC's version chosen, so that the test is run on
  packets ended by a timeout (settings 1 and 2), of one word (3) and without an
  end (0); six reach the first setting that mixes further words in. Registers
  outlive a menu, so a session may find the RX buffer in any setting and the
  channels in loopback; that is where cut packets, and words held over on their
  turn, meet the loopback benchmark. The servers can be started or killed four
  times, in any order and at any step.
- `Boot`: three slots give a fallback somewhere to go twice; three faults allow a
  failure, another in the recovery from it, and a late watchdog.

Deadlock is checked in every run but `CmdServer`, where the server stops when
`zmq_msg_recv` fails and the client bound lets everything come to rest, `Boot`,
which ends at the handoff, and `DmaBench`, where a bounded user rests.

### Fairness

Liveness is checked under these assumptions, each of which the code or the
hardware gives: both clocks run for ever, UCLK rises again and again, and a
reset is released (`Poke`, `ConfigPolling`, streams); the servers poll in a loop
that never blocks, or blocks only for a request (`DataServer`, `CmdServer`); the
engine fetches and streams what it is given, the FIFO takes a beat in the end;
the I/O thread sends what it holds; time passes. Packets from the FPGA may stop
at any time in `DmaRx`: no fairness is assumed for them, and the implemented
queue is fair because the driver takes what is there. In
`DmaBench` nobody has to press a key or start a server; in `Boot` one processor
takes the steps that are due and the watchdog counts on, while no fault and no
debugger has to come. `SlowControl` has no liveness: its calls are straight
lines. `CmdServer` assumes that clients keep asking: without requests words do wait, because
`pacman_poll_tx` runs only between them.

### Disagreements

`CmdServerTwo` (`pacman_cmdserver/main.cc:166`): the reply is sent from the
static `rep_msg` without a copy and without a free callback; with a second
client the next request is handled in the same buffer. One client cannot see
it, as `CmdServer` shows.

The others were met while modelling and have no run of their own; where a
property excepts one of them it says so by its name or its comment.

- `config_sync.vhd:106-112` copies seven fields into the shadow and leaves out
  `dst_logic_f`, so the detector domain never sees it, against line 18.
- `pacman_message.hh:112` takes a 16-bit number of bytes for a 32-bit field
  (line 26): a batch above 2730 words, which `pacman_dataserver/main.cc:108` can
  send, announces its length modulo 65536.
- `rx_buffer.vhd:192`: when a packet becomes full on the turn of a valid channel,
  the word of that turn has been given its ready but stays in the buffer
  registers until some channel receives another word, against lines 16-17.
  `toggle_rx_buffer_config` sets such a configuration; the default has no
  maximum.
- After a failed `zmq_msg_init_data` the data server never publishes again, since
  `msg_ready` is not restored. A TX channel in mode 2 or 3, which nothing
  documents, repeats its word and holds every other channel.
- `CheckWDTReset` says that a watchdog reset needs a fallback
  (`pacman_fsbl/src/main.c:1203`); it prints the reason and clears the mark, and
  the same image is run again. `BootSettles` shows that this ends all the same.
- On a board with the e-fuse for AES the user is "not allowed to do system reset"
  (`pacman_fsbl/src/main.c:356`). The loader knows of the e-fuse only from
  line 348 on, and a fallback before that, as at line 336 when the watchdog
  cannot be set up, resets such a board too. `FuseForbidsReset` speaks of the
  time after the e-fuse was read.
- `addr_conf.hh:7-10` sends addresses below 0x40000000 to virtual registers and
  those above to the hardware; `pacman_vspace.cc:14` sends all from 0x24000 on
  to the I2C registers and those below to the hardware.
- `hwcheck.c` writes ADC, timing and enable registers at addresses of an earlier
  firmware: "enable all" enables nothing on the present one, whose enables are
  at 0xF010.
- Three of the interleavings that `SlowControl` excepts do go wrong: a pointer
  moved between pointing and reading, an enable written between a read and a
  write, a multiplexer set by both programs at once. The rings left unclean by
  an earlier item do make the loopback test count wrong.

## 4. Proofs

All theorems hold for every value of the constants that satisfies the module's
assumptions: any set of masks and any gap of at least three edges; any ring of
at least two descriptors, any batch and any prefetch of at least one; any number
of channels, subscribers, flash slots and faults; any timeout, maximum, delay of
16 bits and phase. Each component has one invariant that is inductive; the runs
check it too, but for `BootInv`, and what a reader wants to know follows from it.
`WordsSentAsConfigured` and `ConfiguredWhole` say it of every step, so that their
runs have it as part of an action property.

**`PokeSyncProofs`.** The inductive invariant `IInv` says what the registers
hold at every edge: exactly while `busy` one change of level is in the loop of
both synchronisers (`OneChangeInFlight`); `update_reply` waits just while its
last request is unanswered; the delay line from the pulse to DONE_I holds one
pulse while waiting, and a level left by reset drains before a request can be
seen (`DelayLine`); what each half may hold in reset (`ResetState`). For polling
software it adds that a write under busy never happens (`PollingOrder`) and that
the mask is sampled after the request it belongs to (`PayloadInv`). None of the
four properties is inductive: each follows from `IInv`. One lemma per kind of
edge (`SysTick`, `DetTick`, `BothTick`, reset, release) shows its parts
preserved. From it follow `PokeCarries`, `NeverDropped`,
`AcknowledgedAfterStable` and `ImplementsChannelSafety`: each step of the bridge
is a step or a stutter of `PokeChannel`, whatever the software.

**`ConfigSyncProofs`.** The same handshake with the shorter delay line of
`config_sync`, which holds the one copy that is being answered and nothing else.
For polling software the registers stay as they are from the request to the
answer (`RegistersHeld`), so that the record, which is sampled field by field,
is sampled while nothing changes; once `update_reply` has seen the request its
configuration is in the shadow (`SeenIsConfigured`). From these follow
`IdleIsConfigured`, of an idle bridge, and `ShadowMovesWhole`, of each step.
`HandshakeCorrect` needs no polling.

**`DmaProofs`.** The invariant `RingInv`
relates the five pointers by their distance from the descriptor the engine
finishes next (`Pointers`), says which descriptors are complete (`Segment`),
that an engine at rest never has the whole ring (`RestingNotFull`), and that
what the poll has read still holds when it acts (`PollState`). The lemmas of
`DmaProofs` are arithmetic modulo N (`Ahead`, `Distance`, `NextSlot`) and
one lemma for each step common to both rings. From `TxInv` and `RxInv`, which
add the types of the buffers, follow that no engine with work rests, that no
stale descriptor is fetched, that buffers have one owner, and
`TxImplementsFifoSafety` and `RxImplementsFifoSafety`: every step of the ring is
a step or a stutter of `BoundedFifo`.

**`DataServerProofs`.** `DataServerInv` says who owns the message buffer: main()
while it fills and sends, ZeroMQ from `zmq_msg_send` to `clear_msg`, nobody when
`zmq_msg_init_data` has failed (`OneOwner`). The order of words needs one chain
through three places: what a subscriber has received is below the words of the
message that waits for it, these are below the ring, and the ring is below what
is still to arrive (`WordsInOrder`). No word vanishes because a count is kept at
each of these places (`NothingVanishes`). From it follow `HeldNotWritten` and
`WordsOnceInOrder`, for every failure of ZeroMQ.

**`CmdServerProofs`.** The copies of a word are counted per channel and added over
the channels: `Total` counts pairs of a channel and a copy, so that its laws
(`TotalAdds`, `TotalOfSet`) follow from the cardinality of unions and no fold is
needed. One lemma says what `tx_buffer_in` does to the ring of a channel, with
none, one or two copies offered to room for any number of them (`ChanIn`), one
what `tx_buffer_out` does (`ChanOut`). Of main() the invariant says that a request
is in one place only (`OnePlaceEach`) and what its reply holds so far
(`ReplyInHand`). From it follows `CmdServerCorrect`. `OneClientReplies` assumes one
client, since then nobody writes `rep_msg` while ZeroMQ holds it
(`OneClientReplyKept`); `CmdServerTwo` shows that the assumption is needed. A
request has up to `Longest` words, the MAX_WORDS of the message format, for any
value of it.

**`RxStreamProofs`.** What an edge does depends on beats that are under way, so
the invariant speaks of the pipe, the beats put by `rx_buffer` and not yet taken by
the FIFO. `axis_write` says busy early enough for the beat that is already on
its way (`RoomForBeat`, the reason for a depth of three). The pipe is a chain,
each beat a lawful successor of the one before, from the last beat that left
(`StreamLinked`); the state machine stands where the last beat put says
(`StatePlace`); a packet is full exactly at its maximum and a round is begun only
with a word to send, so that no packet is empty (`FullAtMaximum`,
`RoundFindsWord`). The channel whose turn it is keeps its valid bit until its
ready (`TurnOfChannel`), and the words of a channel are ordered through the UART,
the multiplexer, the buffer registers and the pipe, an overwritten one included
(`NumbersInOrder`). From it follow `WordsAccounted` and `WellFormed`. To say where
a beat stands in its packet, a beat carries a number that only the properties
read.

That no word is lost while the FIFO does not stall the stream (`NothingLost`) is a
statement about rates. `Due` bounds the edges from any state to the ready of a
channel that has a word: the rest of this round, the trailer and the wait if the
packet ends first, and the next round up to the channel's turn.
`ReadyInTime` says that the edges since the word came and those still due fit
into `MinGap`, and that nothing is busy. It is inductive if two
rounds and the end of a packet fit and a packet may hold a word of each channel
(`RoundsFit`). The second condition is needed: packets of one word on three
channels lose words without any stall.

**`TxStreamProofs`.** `axis_read` holds a packet until all its words are taken
(`PacketHeld`), and what is due to a channel is the words taken, then the one
offered, then the one in the packet (`DueWords`). Between `tx_chan` and
`uart_tx` the handshake is followed edge by edge: valid holds from the start of
the UART over the rise of busy and its delayed copy to ready, and is gone before
the UART is idle again (`ReadyFollowsBusy`), which is what keeps a word from
being sent twice. It needs a word to take at least two edges to shift out
(`WordEdgesAssumption`); the least in hardware is 67. The counter of rests never
runs ahead of the edges since the last word (`Rested`). From it follow
`SentExactlyOnce` for channels in mode 1 and `SentAsConfigured`.

**`BootProofs`.** The invariant says that the image pointer has passed every image
that failed (`PointerPassedFailures`), which a fallback within a fallback and the
search of the e-fuse run both keep; that the environment for U-Boot is complete
when the handoff is reached; and that the watchdog is off once the e-fuse has been
read (`OrderOfSteps`). The search is a least element, which exists by
well-foundedness. From it follow `CleanBoard`, `NotRerun` and `FuseForbids`,
which speaks of a loader that has read the e-fuse.

Some of the theorems are not runs' properties of their own: that an engine with work never
rests (`TxNeverStalled`, `RxNeverStalled`), that the transmit buffers have one
owner (`TxOwnsBuffer`), `BootCorrect` itself, and statements that a run checks as
part of another (`TxStreamCorrect`, `SentExactlyOnce`, `WordsAccounted`,
`WellFormed`, `RxNoStaleFetch`, `IdleIsConfigured`, the `HandshakeCorrect` of
either channel).

Only model-checked:

- liveness and the liveness half of both refinements, which are beyond the
  prover (fairness and ENABLED);
- `SlowControl` and `DmaBench`: what their programs do is data, sequences of
  accesses, so that an invariant would have to list every suffix of every
  program; there the model checker is the better tool.

## 5. What is not modelled

- RX: channels in modes other than 1, heartbeat, rollover and external words, a
  change of configuration while words are under way, the look and status
  registers, the wrap of the 32-bit counters. Two lines there deserve a look:
  a rollover is due for the one clock at which the time stamp equals its limit
  (`rollover.vhd:51`), and `axis_read.vhd:84` does not clear `beat` by reset. TX:
  the same, and the serial line itself, whose bit length is cut to eight bits
  (`uart_tx.vhd:119`).
- ATC: the stretching of pulses in `atc_mux`, external triggers, the time stamp.
  The register bus is a combinational decoder: an access is a step.
- Status and scratch registers are plain register files: a model would repeat
  their assignments. Parsing, printing, formatting and conversions of readings,
  the bits of an ASIC word, `mmap` and cache maintenance are straight-line input
  and output; so are the command line tools other than the menu, the simulator,
  and the shell scripts other than the two that are modelled.
- The partition mover, the flash drivers and the processor set-up of the boot
  loaders are vendor code; PetaLinux and Vivado projects and the demos are
  vendored, generated or copies.

## 6. Plan

Done, in order of importance: the handshake, the configuration channel and their
proofs; the rings and their proofs; both servers and their proofs; the receive
and transmit paths of the firmware and their proofs, the rates of the receive path
included; the slow control under two programs; the DMA core under all its
programs and restarts; the boot loaders and their proofs.

Next:

1. Heartbeat and rollover as channels of `RxStream`; changes of mode in
   `RxStream` and `TxStream`.
2. `atc_mux` at clock edges: the stretched pulse against the next poke.
3. A read and a write under way together through `axil_to_regbus`.
4. An invariant of the calls of `SlowControl`, for the long reset and the enables
   under any set of sessions.
