------------------------------ MODULE DmaBench ------------------------------
(***************************************************************************)
(* The DMA core with the programs that drive it: pacman_cmdserver and      *)
(* pacman_dataserver, started, killed and restarted as pacman_server.sh    *)
(* does, or pacman_menu with its RX/TX and ASIC menus, whose words come    *)
(* back through the loopback of the RX channels or from an ASIC.           *)
(***************************************************************************)
EXTENDS AsicMenu

CONSTANTS
  Sessions, \* what is run together, the servers or items of the menu, and on which board
  Timeout,  \* passes of the loopback benchmark without a packet
  Values,   \* register values that the loopback test draws from
  MaxWire,  \* bound: words between the UARTs and a packet, more are lost
  MaxInput  \* bound: packets between the RX unit and the core

ASSUME BoundsAssumption == {Timeout, MaxWire, MaxInput} \subseteq Nat \ {0}
ASSUME ValuesAssumption == Values \subseteq [0..Registers - 1 -> Nat]

VARIABLES
  session,  \* its items, or {"servers"}, how it finds the channels, the end of
            \* packets and the supplies, and a bound on asked
  asked,    \* keys, starts, kills and requests so far
  todo,     \* the operations each program still has to do
  up,       \* the programs that run
  count,    \* batch_count of each program's loop
  bench,    \* sent, rcvd, tx_timeout, rx_timeout of a benchmark
  test,     \* the loopback test: its number, values, tally, and how it stands
  mode,     \* the setting each toggle function is at
  version,  \* G_ASIC_VER
  chip_id,  \* CHIP_ID
  tx_mask,  \* tx_mask_a and tx_mask_b
  uart,     \* whether each RX channel hears its line, its own TX, or nothing
  rx,       \* rx_buffer: further words enabled, what ends a packet, and whether
            \* the packet it is in has filled a buffer
  powered,  \* whether the ASIC has its supplies
  asic,
  wire,     \* words received and not yet in a packet
  input     \* packets that wait for the core

menuVars == <<bench, test, mode, version, chip_id, tx_mask>>
boardVars == <<uart, rx, powered, asic>>
vars == <<session, asked, dmaVars, todo, up, count, menuVars, boardVars, wire, input>>

Program == {"cmd", "data", "menu"}
Items == session.items
Ask(n) == asked + n <= session.asks /\ asked' = asked + n
Servers == "servers" \in Items

\* Settings of each toggle function.
Settings ==
  [toggle_tx_mask |-> 4, toggle_rx_config |-> 4, toggle_rx_buffer_config |-> 4,
   toggle_rx_buffer_enables |-> 4, asic_toggle_version |-> 2, asic_toggle_power |-> 2,
   asic_toggle_chip_id |-> 5, asic_toggle_rx_uart_enables |-> 5]
Toggles == DOMAIN Settings

NoBench == [sent |-> 0, rcvd |-> 0, tx_timeout |-> 0, rx_timeout |-> 0]
NoTest == [number |-> 0, values |-> [i \in 0..Registers - 1 |-> 0],
           tally |-> [reps |-> 0, errors |-> FALSE], clean |-> FALSE, failed |-> FALSE]

\* The static variables of a menu that was just started.
MenuStarts ==
  /\ bench' = NoBench /\ test' = NoTest
  /\ mode' = [t \in Toggles \cap Items |-> 0]
  /\ version' = "UNKNOWN" /\ chip_id' = 11 /\ tx_mask' = Uart

Init ==
  /\ session \in Sessions /\ asked = 0
  /\ DmaInit
  /\ todo = [p \in Program |-> <<>>] /\ count = [p \in Program |-> 0]
  /\ up = IF Servers THEN {} ELSE {"menu"}
  /\ bench = NoBench /\ test = NoTest
  /\ mode = [t \in Toggles \cap Items |-> 0]
  /\ version = "UNKNOWN" /\ chip_id = 11 /\ tx_mask = Uart
  /\ uart = session.heard
  /\ rx = [extra |-> FALSE, ends |-> session.ends, cut |-> FALSE]
  /\ powered = session.powered
  /\ asic = IF powered
              THEN [AsicReset EXCEPT !.id = 11, !.on = {PISO, SLICES}] ELSE AsicReset
  /\ wire = <<>> /\ input = <<>>

-----------------------------------------------------------------------------
(***************************************************************************)
(* The board: what becomes of a packet sent, and what is received.         *)
(***************************************************************************)
Word(kind, val) == [kind |-> kind, val |-> val]
Heard(words) ==
  wire' = IF Len(wire) + Len(words) <= MaxWire THEN wire \o words ELSE wire

\* The words that come back of a packet: on channels in internal loopback the
\* word itself, on the line of UART 0 what the ASIC answers.
Loops(m) ==
  LET sent == {u \in m.mask : uart[u] = "loop"}
  IN [k \in 1..Cardinality(sent) |-> Word("data", m.word.val)]
Reply(m) ==
  IF 0 \in m.mask /\ powered /\ uart[0] = "line" /\ Answers(asic, m.word)
    THEN <<Word("data", AsicValue(asic, m.word.addr))>> ELSE <<>>

Send ==
  /\ Finish("tx", Empty)
  /\ LET m == data["tx"][reg["tx"].cur] IN
     IF m = Empty
       THEN UNCHANGED <<wire, asic>>
       ELSE /\ Heard(Loops(m) \o Reply(m))
            /\ asic' = IF 0 \in m.mask /\ powered THEN AsicTakes(asic, m.word) ELSE asic
  /\ UNCHANGED <<session, asked, todo, up, count, menuVars, uart, rx, powered, input>>

\* The first k words arrive in one buffer, with others among them perhaps, and
\* behind them their own trailer, one that counts more words than these, or none.
Arrived(k, words, trailer) ==
  /\ input' = Append(input, [words |-> words, trailer |-> trailer])
  /\ wire' = SubSeq(wire, k + 1, Len(wire))

Extra == <<Word("extra", 0)>>

\* A packet ends after any number of words, or after each one.  A further word is
\* among them perhaps; in a packet of its own the loopback test skips it.
EndPacket ==
  /\ rx.ends # "never" /\ ~rx.cut
  /\ \E k \in 1..Len(wire) :
       LET words == SubSeq(wire, 1, k) IN
       \/ (rx.ends = "words" => k = 1) /\ Arrived(k, words, "own")
       \/ rx.ends = "time" /\ rx.extra
            /\ (Arrived(k, Extra \o words, "own") \/ Arrived(k, words \o Extra, "own"))
  /\ rx' = rx

\* A packet without an end fills its buffer in the course of time and goes on in
\* the next one.
FillBuffer ==
  /\ rx.ends = "never"
  /\ \E k \in 1..Len(wire) : Arrived(k, SubSeq(wire, 1, k), "none")
  /\ rx' = [rx EXCEPT !.cut = TRUE]

\* Under the next setting, a timeout, it ends, in a buffer with none of its words or
\* some and with a trailer that counts them all.
EndCutPacket ==
  /\ rx.ends # "never" /\ rx.cut
  /\ \E k \in 0..Len(wire) : Arrived(k, SubSeq(wire, 1, k), "late")
  /\ rx' = [rx EXCEPT !.cut = FALSE]

Bundle ==
  /\ Len(input) < MaxInput
  /\ EndPacket \/ FillBuffer \/ EndCutPacket
  /\ UNCHANGED <<session, asked, dmaVars, todo, up, count, menuVars, uart, powered, asic>>

\* Words that stay where they are until more arrive: those of a packet without an
\* end, and one that was taken on the turn that ended a packet of one word.
HeldOver ==
  \/ rx.ends = "never"
  \/ rx.ends = "words" /\ ~rx.cut /\ Len(wire) = 1
       /\ Cardinality({u \in Uart : uart[u] = "loop"}) > 1

\* With the servers, data comes by itself.
Arrive ==
  /\ Servers /\ Len(input) < MaxInput
  /\ input' = Append(input, [words |-> <<Word("data", 0)>>, trailer |-> "own"])
  /\ UNCHANGED <<session, asked, dmaVars, todo, up, count, menuVars, boardVars, wire>>

Receive ==
  /\ input # <<>>
  /\ Finish("rx", Head(input))
  /\ input' = Tail(input)
  /\ UNCHANGED <<session, asked, todo, up, count, menuVars, boardVars, wire>>

Engine ==
  \E c \in Chan :
    /\ Control(c) \/ Fetch(c)
    /\ UNCHANGED <<session, asked, todo, up, count, menuVars, boardVars, wire, input>>

-----------------------------------------------------------------------------
(***************************************************************************)
(* The operations of a program.  Continue is what follows the first one.   *)
(***************************************************************************)
At(p, ops) == todo[p] # <<>> /\ Head(todo[p]).op \in ops
Now(p) == Head(todo[p])
Continue(p, ops) == todo' = [todo EXCEPT ![p] = ops \o Tail(@)]
LeavesAlone(p) == UNCHANGED <<session, asked, up, boardVars, wire, input>>

RegisterStep(p) ==
  /\ At(p, {"reset", "curdesc", "taildesc", "run", "clear ioc"})
  /\ LET m == Now(p) IN
     reg' = CASE m.op = "reset" -> dma_reset(m.c)
              [] m.op = "curdesc" -> dma_write_curdesc(m.c, m.arg)
              [] m.op = "taildesc" -> dma_write_taildesc(m.c, m.arg)
              [] m.op = "run" -> dma_run(m.c)
              [] m.op = "clear ioc" -> dma_clear_ioc(m.c)
  /\ Continue(p, <<>>) /\ LeavesAlone(p)
  /\ UNCHANGED <<complete, data, batch_tail, count, menuVars>>

MemoryStep(p) ==
  /\ At(p, {"init ring", "batch taildesc", "clear bd"})
  /\ LET m == Now(p) IN
     \/ m.op = "init ring" /\ dma_init_bd_ring(m.c, m.arg) /\ UNCHANGED batch_tail
     \/ /\ m.op = "batch taildesc" /\ batch_tail' = [batch_tail EXCEPT ![m.c] = m.arg]
        /\ UNCHANGED <<complete, data>>
     \/ /\ m.op = "clear bd" /\ complete' = [complete EXCEPT ![m.c][m.arg] = FALSE]
        /\ UNCHANGED <<data, batch_tail>>
  /\ Continue(p, <<>>) /\ LeavesAlone(p)
  /\ UNCHANGED <<reg, count, menuVars>>

Reached(m) ==
  CASE m.arg = "reset" -> ResetDone(m.c)
    [] m.arg \in {"run", "server"} -> RunReached(m.c)
    [] m.arg = "ioc" -> reg[m.c].ioc
    [] m.arg = "idle" -> Idle(m.c)

\* A wait ends with what it waits for, or in vain once the core is at rest: it
\* is far longer than what the core still does.  Only the data server may wait
\* for something slower, and then exits.
WaitStep(p) ==
  /\ At(p, {"wait"})
  /\ Reached(Now(p)) \/ AtRest(Now(p).c) \/ Now(p).arg = "server"
  /\ IF Now(p).arg = "server" /\ ~Reached(Now(p))
       THEN todo' = [todo EXCEPT ![p] = <<>>] /\ up' = up \ {p}
       ELSE Continue(p, <<>>) /\ up' = up
  /\ UNCHANGED <<session, asked, dmaVars, count, menuVars, boardVars, wire, input>>

PublishStep(p) ==
  /\ At(p, {"publish"})
  /\ LET m == Now(p) IN
     reg' = IF m.arg /\ count[p] = 0 THEN reg ELSE dma_write_taildesc(m.c, batch_tail[m.c])
  /\ bench' = IF Now(p) = PublishAdded("tx")
                THEN [bench EXCEPT !.sent = @ + count[p],
                                   !.tx_timeout = IF count[p] > 0 THEN Timeout ELSE @]
                ELSE IF Now(p) = PublishAdded("rx") /\ count[p] > 0
                  THEN [bench EXCEPT !.rx_timeout = Timeout] ELSE bench
  /\ count' = [count EXCEPT ![p] = 0]
  /\ Continue(p, <<>>) /\ LeavesAlone(p)
  /\ UNCHANGED <<complete, data, batch_tail, test, mode, version, chip_id, tx_mask>>

\* The menu reads through a null pointer and dies; it is started anew.
Crash(p) ==
  /\ \/ At(p, {"fill", "drain"}) /\ batch_tail[Now(p).c] = Null
     \/ At(p, {"single tx", "single rx"}) /\ reg[Now(p).c].tail = Null
  /\ todo' = [todo EXCEPT ![p] = <<>>] /\ count' = [count EXCEPT ![p] = 0]
  /\ MenuStarts
  /\ UNCHANGED <<session, asked, dmaVars, up, boardVars, wire, input>>

FillStep(p) ==
  /\ At(p, {"fill"}) /\ batch_tail["tx"] # Null
  /\ LET payload == Now(p).arg IN
     IF payload # <<>> /\ Available("tx")
       THEN /\ AddBd("tx", Head(payload))
            /\ Continue(p, <<Fill(Tail(payload))>>)
            /\ count' = [count EXCEPT ![p] = @ + 1]
       ELSE Continue(p, <<>>) /\ UNCHANGED <<dmaVars, count>>
  /\ LeavesAlone(p) /\ UNCHANGED menuVars

\* What the loop does with the packet of the next BD.  The loopback benchmark takes
\* a trailer off each one, there or not; asic_loopback skips what has none of its own.
Look(p, look, packet) ==
  /\ bench' = IF look = "count"
                THEN [bench EXCEPT !.rcvd = @ + Len(packet.words)
                                              - (IF packet.trailer = "none" THEN 1 ELSE 0)]
                ELSE bench
  /\ test' = IF look = "compare" /\ packet.trailer = "own"
               THEN [test EXCEPT !.tally = Compare(version, test.values, @, packet.words)]
               ELSE test

\* The loopback benchmark returns on a packet of no more than a trailer, at once.
DrainStep(p) ==
  /\ At(p, {"drain"}) /\ batch_tail["rx"] # Null
  /\ LET look == Now(p).arg[1]
         limit == Now(p).arg[2]
         more == (limit = 0 \/ count[p] < limit) /\ Available("rx")
     IN IF more /\ look = "count" /\ data["rx"][Nxta("rx")].words = <<>>
          THEN /\ todo' = [todo EXCEPT ![p] = <<>>] /\ count' = [count EXCEPT ![p] = 0]
               /\ UNCHANGED <<dmaVars, bench, test>>
        ELSE IF more
          THEN /\ AddBd("rx", Empty)
               /\ Look(p, look, data["rx"][Nxta("rx")])
               /\ count' = [count EXCEPT ![p] = IF limit = 0 THEN 0 ELSE @ + 1]
               /\ todo' = todo
          ELSE Continue(p, <<>>) /\ UNCHANGED <<dmaVars, count, bench, test>>
  /\ LeavesAlone(p) /\ UNCHANGED <<mode, version, chip_id, tx_mask>>

\* single_rx does not look at CURDESC: it relies on the core having taken up the
\* BD after the one it filled, within microseconds.
Settled(c) == reg[c].armed => reg[c].busy

\* single_tx takes the BD after TAILDESC as it is: it relies on a ring longer than
\* what the items before it left under way.
Room(c) == Given(c) < N

SingleStep(p) ==
  /\ At(p, {"single tx", "single rx"}) /\ reg[Now(p).c].tail # Null
  /\ IF At(p, {"single rx"}) THEN Settled("rx") ELSE Room("tx")
  /\ LET m == Now(p)
         nxta == NextSlot(reg[m.c].tail)
     IN /\ IF m.op = "single tx"
             THEN /\ data' = [data EXCEPT !["tx"][nxta] = m.arg]
                  /\ batch_tail' = [batch_tail EXCEPT !["tx"] = nxta]
             ELSE UNCHANGED <<data, batch_tail>>
        /\ Continue(p, CASE m.op = "single tx" -> SingleTx(nxta)
                         [] complete["rx"][nxta] -> SingleRx(nxta) [] OTHER -> <<>>)
  /\ LeavesAlone(p) /\ UNCHANGED <<reg, complete, count, menuVars>>

-----------------------------------------------------------------------------
(***************************************************************************)
(* Loops of the benchmarks and of the servers.                             *)
(***************************************************************************)
\* A bug to test against: the RX timeout does not run.
BenchStepPatient(p) ==
  /\ At(p, {"bench tx", "bench loopback"})
  /\ LET more == bench.sent < Packets
         waits == bench.tx_timeout > 0 /\ bench.rx_timeout > 0 /\ bench.rcvd < RxExpected
     IN IF Now(p).op = "bench tx"
          THEN Continue(p, IF more THEN TxPass(tx_mask) ELSE <<>>) /\ bench' = bench
          ELSE /\ Continue(p, IF waits THEN LoopbackPass(tx_mask, bench.sent) ELSE <<>>)
               /\ bench' = IF waits /\ more THEN [bench EXCEPT !.tx_timeout = @ - 1] ELSE bench
  /\ LeavesAlone(p)
  /\ UNCHANGED <<dmaVars, count, test, mode, version, chip_id, tx_mask>>

BenchStep(p) ==
  /\ At(p, {"bench tx", "bench loopback"})
  /\ LET more == bench.sent < Packets
         waits == bench.tx_timeout > 0 /\ bench.rx_timeout > 0 /\ bench.rcvd < RxExpected
     IN IF Now(p).op = "bench tx"
          THEN Continue(p, IF more THEN TxPass(tx_mask) ELSE <<>>) /\ bench' = bench
          ELSE /\ Continue(p, IF waits THEN LoopbackPass(tx_mask, bench.sent) ELSE <<>>)
               /\ bench' = IF waits THEN [bench EXCEPT !.tx_timeout = IF more THEN @ - 1 ELSE @,
                                                       !.rx_timeout = @ - 1] ELSE bench
  /\ LeavesAlone(p)
  /\ UNCHANGED <<dmaVars, count, test, mode, version, chip_id, tx_mask>>

\* With the servers a client sends words now and then.
ServeStep(p) ==
  /\ At(p, {"serve tx", "serve rx"})
  /\ \/ /\ Continue(p, IF p = "cmd" THEN pacman_poll_tx(<<>>) ELSE pacman_poll_rx)
        /\ asked' = asked
     \/ p = "cmd" /\ Ask(1) /\ Continue(p, pacman_poll_tx(Copies(1, Uart)))
  /\ UNCHANGED <<session, up, boardVars, wire, input, dmaVars, count, menuVars>>

\* The core has done what it can.
Still ==
  /\ AtRest("tx")
  /\ (wire = <<>> /\ ~rx.cut) \/ HeldOver \/ Len(input) = MaxInput
  /\ input = <<>> \/ AtRest("rx")
  /\ Settled("rx")

\* Nothing under way, and nothing left to read.
Quiet ==
  /\ AtRest("tx") /\ wire = <<>> /\ ~rx.cut /\ input = <<>>
  /\ \A i \in Index : ~complete["rx"][i]

\* Both rings in service, the ASIC set up and heard alone: the test ought to work.
Prepared ==
  /\ \A c \in Chan : RunReached(c) /\ reg[c].tail # Null
  /\ Quiet /\ powered /\ asic.on = {PISO, SLICES} /\ asic.id = chip_id
  /\ uart[0] = "line" /\ ~rx.extra /\ rx.ends # "never" /\ version = "LARPIX_V3"

LoopTestStep(p) ==
  /\ At(p, {"loop test"})
  /\ IF test.number < Tests
       THEN \E v \in Values :
              /\ test' = [test EXCEPT !.number = @ + 1, !.values = v, !.tally.reps = 0,
                                      !.clean = IF test.number = 0 THEN Prepared ELSE @]
              /\ Continue(p, OneTest(chip_id, v) \o <<LoopTest>>)
       ELSE test' = NoTest /\ Continue(p, <<>>)
  /\ LeavesAlone(p)
  /\ UNCHANGED <<dmaVars, count, bench, mode, version, chip_id, tx_mask>>

\* Until all answers are there, or long after the last one that can come.
LoopWaitStep(p) ==
  /\ At(p, {"loop wait"})
  /\ IF test.tally.reps >= Reads * Registers
       THEN Continue(p, <<>>) /\ test' = test
       ELSE IF Still /\ \A i \in Index : ~complete["rx"][i]
         THEN todo' = [todo EXCEPT ![p] = <<>>] /\ test' = [test EXCEPT !.failed = TRUE]
         ELSE Continue(p, LoopPass) /\ test' = test
  /\ LeavesAlone(p)
  /\ UNCHANGED <<dmaVars, count, bench, mode, version, chip_id, tx_mask>>

\* The head start of 100 ms: longer than the command server takes to start.
Starting == \E k \in DOMAIN todo["cmd"] : todo["cmd"][k].op = "taildesc"
HeadStartStep(p) ==
  /\ At(p, {"head start"}) /\ ~Starting
  /\ Continue(p, <<>>) /\ LeavesAlone(p)
  /\ UNCHANGED <<dmaVars, count, menuVars>>

Do(p) ==
  \/ RegisterStep(p) \/ MemoryStep(p) \/ WaitStep(p) \/ PublishStep(p) \/ Crash(p)
  \/ FillStep(p) \/ DrainStep(p) \/ SingleStep(p) \/ BenchStep(p) \/ ServeStep(p)
  \/ LoopTestStep(p) \/ LoopWaitStep(p) \/ HeadStartStep(p)

-----------------------------------------------------------------------------
(***************************************************************************)
(* The menus' items, and the servers' life.                                *)
(***************************************************************************)
MenuProgram(name) ==
  CASE name = "init_rxtx_descriptor_ring_mode" -> init_rxtx_descriptor_ring_mode
    [] name = "single_tx" -> single_tx(tx_mask)
    [] name = "single_rx" -> single_rx
    [] name = "batch_tx" -> batch_tx(tx_mask)
    [] name = "batch_rx" -> batch_rx
    [] name = "clear_rxtx_ioc" -> clear_rxtx_ioc
    [] name = "dma_reset_tx" -> dma_reset_wait("tx")
    [] name = "dma_reset_rx" -> dma_reset_wait("rx")
    [] name = "benchmark_tx" -> benchmark_tx
    [] name = "benchmark_rxtx_loopback" -> benchmark_rxtx_loopback
    [] name = "asic_config_root" -> asic_config_root(chip_id)
    [] name = "asic_request_read_all" -> asic_request_read_all(chip_id)
    [] name = "asic_hello" -> asic_hello(chip_id)
    [] name = "asic_read_rx" -> asic_read_rx
    [] name = "asic_loopback" -> asic_loopback

\* A key is pressed when the core is done with what it had.  The loopback test, the
\* longest item, counts for two of the keys that asked bounds.
Choose(name) ==
  /\ Ask(IF name = "asic_loopback" THEN 2 ELSE 1)
  /\ Still
  /\ "menu" \in up /\ todo["menu"] = <<>> /\ name \in Items \ Toggles
  /\ name # "asic_full_reset"
  /\ todo' = [todo EXCEPT !["menu"] = MenuProgram(name)]
  /\ bench' = [NoBench EXCEPT !.tx_timeout = Timeout, !.rx_timeout = Timeout]
  /\ test' = NoTest
  /\ UNCHANGED <<session, dmaVars, up, count, mode, version, chip_id, tx_mask, boardVars, wire, input>>

\* The settings 0x00000000, 0x00000001, 0x00000010 and 0x00010000 of the RX buffer:
\* neither a timeout nor a maximum, a timeout, one word.
PacketEnds(m) == CASE m = 0 -> "never" [] m \in {1, 2} -> "time" [] m = 3 -> "words"

\* A toggle writes one setting to every channel, or keeps it in the program.
\* Its fourth RX setting leaves tile 1, channels 0 to 3, on its line.
Apply(name, m) ==
  /\ version' = IF name = "asic_toggle_version"
                  THEN (IF m = 0 THEN "UNKNOWN" ELSE "LARPIX_V3") ELSE version
  /\ chip_id' = IF name = "asic_toggle_chip_id"
                  THEN (IF m = 4 THEN 255 ELSE 11 + m) ELSE chip_id
  /\ tx_mask' = IF name = "toggle_tx_mask"
                  THEN (CASE m = 1 -> {} [] m = 2 -> {0} [] m = 3 -> Uart \cap 0..31 [] OTHER -> Uart)
                  ELSE tx_mask
  /\ uart' = CASE name = "toggle_rx_config" ->
                    [u \in Uart |-> IF m = 0 \/ (m = 3 /\ u < 4) THEN "line" ELSE "loop"]
               [] name = "asic_toggle_rx_uart_enables" ->
                    [u \in Uart |-> IF u \in asic_toggle_rx_uart_enables(m) THEN "line" ELSE "off"]
               [] OTHER -> uart
  /\ rx' = CASE name = "toggle_rx_buffer_enables" -> [rx EXCEPT !.extra = m \in {0, 2, 3}]
              [] name = "toggle_rx_buffer_config" -> [rx EXCEPT !.ends = PacketEnds(m)]
              [] OTHER -> rx
  /\ powered' = IF name = "asic_toggle_power" THEN m = 1 ELSE powered
  /\ asic' = IF name \in {"asic_toggle_power", "asic_full_reset"} THEN AsicReset ELSE asic

Toggle(name) ==
  /\ Ask(1)
  /\ "menu" \in up /\ todo["menu"] = <<>> /\ name \in Items
  /\ \/ /\ name \in Toggles
        /\ mode' = [mode EXCEPT ![name] = (@ + 1) % Settings[name]]
        /\ Apply(name, mode'[name])
     \/ name = "asic_full_reset" /\ mode' = mode /\ Apply(name, 0)
  /\ UNCHANGED <<session, dmaVars, todo, up, count, bench, test, wire, input>>

\* pacman_server.sh start and restart: both, the command server first.
Start ==
  /\ Servers /\ Ask(1)
  /\ up' = {"cmd", "data"}
  /\ todo' = [todo EXCEPT !["cmd"] = pacman_init_tx \o <<ServeTx>>,
                          !["data"] = pacman_init_rx \o <<ServeRx>>]
  /\ count' = [p \in Program |-> 0]
  /\ UNCHANGED <<session, dmaVars, menuVars, boardVars, wire, input>>

\* A server is killed, at any point.
Die(p) ==
  /\ Servers /\ p \in up /\ Ask(1)
  /\ up' = up \ {p}
  /\ todo' = [todo EXCEPT ![p] = <<>>] /\ count' = [count EXCEPT ![p] = 0]
  /\ UNCHANGED <<session, dmaVars, menuVars, boardVars, wire, input>>

Next ==
  \/ Send \/ Receive \/ Bundle \/ Arrive \/ Engine
  \/ Start
  \/ \E p \in Program : Do(p) \/ Die(p)
  \/ \E name \in Items : Choose(name) \/ Toggle(name)

\* The core does what it was given, the kernel runs the programs, and words
\* that were received are put in packets; nobody has to start or to choose.
Fairness ==
  /\ WF_vars(Engine) /\ WF_vars(Send) /\ WF_vars(Receive)
  /\ WF_vars(~HeldOver /\ Bundle)
  /\ \A p \in Program : WF_vars(Do(p))

Spec == Init /\ [][Next]_vars /\ Fairness

-----------------------------------------------------------------------------
(***************************************************************************)
(* Properties.                                                             *)
(***************************************************************************)
TypeOK ==
  /\ DmaTypeOK
  /\ session \in Sessions /\ up \subseteq Program
  /\ count \in [Program -> 0..N]
  /\ Len(wire) <= MaxWire /\ Len(input) <= MaxInput

\* Both servers are past their start.
Serving ==
  \A p \in {"cmd", "data"} : p \in up /\ todo[p] # <<>> /\
    \A k \in DOMAIN todo[p] : todo[p][k].op \in {"serve tx", "serve rx", "fill", "drain", "publish"}

\* A channel whose ring is set up: a tail was written since it runs.  A data
\* server that was started with a command server which died before its resets
\* has set up its ring under a running engine; that is mended by the next start.
InService(c) ==
  (Servers => Serving) /\ RunReached(c) /\ (reg[c].armed \/ ~reg[c].fresh)

\* A program between two accesses to the BD it hands over on its own.
InHand == \E p \in Program : \E k \in DOMAIN todo[p] :
            todo[p][k].op \in {"clear bd", "batch taildesc"}

\* Whatever functions of the menu were used, and however often the servers were
\* killed and restarted, the engine never halts on a stale BD, and the BD that a
\* program waits for is the one the engine comes to next (init_*_descriptor_ring_mode,
\* single_*, batch_*, the benchmarks, asic_batch_tx, pacman_init_tx and _rx).
ProgramMeetsEngine ==
  \A c \in Chan : ((Servers => Serving) => ~reg[c].error)
                     /\ (InService(c) /\ ~InHand => RingShared(c))

\* The loopback test on an ASIC that is set up, with nothing left over in the
\* rings from an earlier item, finds every answer and no error
\* (asic_loopback, whose answers carry no mark of the test they belong to).
LoopbackCountsTrue == test.clean => ~test.failed /\ ~test.tally.errors

\* While both servers run, after any number of restarts, data that arrives is
\* taken by the core, so the data server keeps returning buffers to it.
DataTaken == Serving /\ input # <<>> ~> input = <<>> \/ ~Serving

\* Every item comes to its end, also when words are lost on the way or the core
\* is not set up (dma_wait_*, the two timeouts of benchmark_rxtx_loopback, and
\* the one of asic_loopback).
ItemEnds == todo["menu"] # <<>> ~> todo["menu"] = <<>>
=============================================================================
