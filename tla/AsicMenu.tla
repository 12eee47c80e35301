------------------------------ MODULE AsicMenu ------------------------------
(***************************************************************************)
(* asic.c and asic_menu.c: configuration words for the LArPix ASIC behind  *)
(* UART 0, sent in batches over the DMA core, and the loopback test, which *)
(* writes registers and reads them back through RX.                        *)
(***************************************************************************)
EXTENDS RxTx

CONSTANTS
  Registers, \* channel mask registers that the loopback test uses (8 of them)
  Reads,     \* how often a test reads each (10 times)
  Tests      \* tests of one loopback run (10)

ASSUME LoopbackAssumption == {Registers, Reads, Tests} \subseteq Nat \ {0}

-----------------------------------------------------------------------------
(***************************************************************************)
(* Configuration words.                                                    *)
(***************************************************************************)
asic_config_write(chip, addr, val) ==
  Packet({0}, [op |-> "write", chip |-> chip, addr |-> addr, val |-> val])
asic_config_read(chip, addr) ==
  Packet({0}, [op |-> "read", chip |-> chip, addr |-> addr, val |-> 0])

\* What asic_config_get_value makes of a received word.
asic_config_get_value(version, word) == IF version = "LARPIX_V3" THEN word.val ELSE 0

asic_batch_tx(payload) == SendBatch(payload)

MASK == 131          \* the first of the registers of the test
CHIP_ID_REG == 122
PISO == 125          \* piso downstream: the ASIC answers
SLICES == 239        \* tx_slices: likewise; stands for the other enables

-----------------------------------------------------------------------------
(***************************************************************************)
(* The ASIC.  After a reset it is chip 1, answers nobody and its registers *)
(* hold their defaults.                                                    *)
(***************************************************************************)
TestReg == MASK..MASK + Registers - 1
AsicReset == [id |-> 1, on |-> {}, reg |-> [a \in TestReg |-> 0]]

\* What it does with a word.
AsicTakes(asic, w) ==
  CASE w.chip # asic.id -> asic
    [] w.op = "write" /\ w.addr = CHIP_ID_REG -> [asic EXCEPT !.id = w.val]
    [] w.op = "write" /\ w.addr \in {PISO, SLICES} -> [asic EXCEPT !.on = @ \cup {w.addr}]
    [] w.op = "write" /\ w.addr \in TestReg -> [asic EXCEPT !.reg[w.addr] = w.val]
    [] OTHER -> asic

Answers(asic, w) == w.op = "read" /\ w.chip = asic.id /\ asic.on = {PISO, SLICES}
AsicValue(asic, a) ==
  IF a \in TestReg THEN asic.reg[a] ELSE IF a = CHIP_ID_REG THEN asic.id ELSE 0

-----------------------------------------------------------------------------
(***************************************************************************)
(* The menu's functions.                                                   *)
(***************************************************************************)
\* The ASIC as chip 1 is given its number; then the enables of chip chip_id.
asic_config_root(chip_id) ==
  asic_batch_tx(<<asic_config_write(1, CHIP_ID_REG, chip_id)>>)
    \o asic_batch_tx(<<asic_config_write(chip_id, SLICES, 1),
                       asic_config_write(chip_id, PISO, 1)>>)

\* All registers, of which there are as many as a test reads.
asic_request_read_all(chip_id) ==
  asic_batch_tx([i \in 1..Registers |-> asic_config_read(chip_id, MASK + i - 1)])

asic_hello(chip_id) == asic_batch_tx(<<asic_config_read(chip_id, CHIP_ID_REG)>>)

\* Until no buffer is left.
asic_read_rx == <<Drain("print", 0), Publish("rx")>>

LoopTest == Op("loop test", "rx", 0)
LoopWait == Op("loop wait", "rx", 0)
asic_loopback == <<LoopTest>>

\* One test: its words, and the wait for the answers.
OneTest(chip_id, values) ==
  asic_batch_tx([i \in 1..Registers |-> asic_config_write(chip_id, MASK + i - 1, values[i - 1])])
    \o asic_batch_tx([k \in 1..Reads * Registers |->
                        asic_config_read(chip_id, MASK + ((k - 1) % Registers))])
    \o <<LoopWait>>

LoopPass == <<Drain("compare", 0), Publish("rx"), LoopWait>>

\* A bug to test against: every test reads from the start of values again.
CompareFirst(version, values, tally, words) ==
  LET wrong == {k \in DOMAIN words : values[0] # asic_config_get_value(version, words[k])}
  IN IF words[1].kind = "extra" THEN tally
     ELSE [reps |-> tally.reps + Len(words), errors |-> tally.errors \/ wrong # {}]

\* The answers of one packet against the values written, counted on from reps.
\* The type and the channel that decide are those of the packet's first word.
Compare(version, values, tally, words) ==
  LET wrong == {k \in DOMAIN words :
                  values[(tally.reps + k - 1) % Registers]
                    # asic_config_get_value(version, words[k])}
  IN IF words[1].kind = "extra" THEN tally
     ELSE [reps |-> tally.reps + Len(words), errors |-> tally.errors \/ wrong # {}]

\* The channels that stay enabled, by the setting that the toggle comes to.
asic_toggle_rx_uart_enables(m) ==
  CASE m = 0 -> Uart [] m = 1 -> {} [] m = 2 -> {0} [] m = 3 -> {0, 1} \cap Uart
    [] m = 4 -> (0..3) \cap Uart
=============================================================================
