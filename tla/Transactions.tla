---------------------------- MODULE Transactions ----------------------------
(***************************************************************************)
(* The slow control of the board as its programs see it: a program is a    *)
(* sequence of single accesses, each one I2C transaction or one access to  *)
(* a memory-mapped register.  Between two accesses of one process another  *)
(* process may make its own, so a mere pause is not a step.                *)
(***************************************************************************)
EXTENDS Naturals, Sequences, SequencesExt

CONSTANTS
  NumTiles, \* tiles with supplies of their own (10 on the board)
  Level     \* settings of a supply, 0 is off

ASSUME NumTilesAssumption == NumTiles \in 1..10
ASSUME LevelAssumption == 0 \in Level /\ Level \subseteq Nat

-----------------------------------------------------------------------------
(***************************************************************************)
(* The I2C devices, by their bus addresses.                                *)
(***************************************************************************)
DAC_VDDA == 12
DAC_VDDD == 13
DAC == {DAC_VDDA, DAC_VDDD}
TEST_CHAN == 10
DacReg == {48 + chan : chan \in 0..NumTiles - 1} \cup {48 + TEST_CHAN}

ADC_BOARD == 21
Adc(tile) == 16 + tile \div 2
ADC == {Adc(tile) : tile \in 0..NumTiles - 1} \cup {ADC_BOARD}
VOLT_BASE == 7
CURR_BASE == 11
AdcReg == VOLT_BASE..CURR_BASE + 3

MUX_P == 76
MUX_N == 77
MUX == {MUX_P, MUX_N}
MUX_A == 20
MUX_B == 21
\* A switch is set to a channel, to 16, which is none, or to 17: then it copies
\* the two shadow registers that hold the channels of this switch as bits.
COPY_SHADOW == 17
ShadowOf(reg) == IF reg = MUX_A THEN 16 ELSE 18
MuxReg == 16..MUX_B

PINS == {0, 7, 12, 13}
ADC_SLEEP_PIN == 0
LED_TRENZ_RED == 7
LED_1 == 12
LED_2 == 13

\* A monitor's register stands for a tile and one of its two supplies.
MonTile(dev, reg) == 2 * (dev - 16) + ((reg - VOLT_BASE) % 4) \div 2
MonDac(reg) == IF reg % 2 = 1 THEN DAC_VDDA ELSE DAC_VDDD

-----------------------------------------------------------------------------
(***************************************************************************)
(* Single accesses.                                                        *)
(***************************************************************************)
Access(op, dev, reg, val) == [op |-> op, dev |-> dev, reg |-> reg, val |-> val]

\* Register and data bytes in one transaction; a register byte alone, which
\* leaves the device pointing there, or starts a refresh; the same at the head
\* of a read, where a failure skips the read; data bytes from where it points.
Write(dev, reg, val) == Access("write", dev, reg, val)
Point(dev, reg) == Access("point", dev, reg, 0)
PointToRead(dev, reg) == Access("point to read", dev, reg, 0)
Read(dev, reg) == Access("read", dev, reg, 0)

\* The enable register of the global unit: a read of it, a write of what was
\* read with bits set or cleared, and a write of a value.
LoadEnables == Access("load", 0, 0, {})
StoreSet(bits) == Access("set", 0, 0, bits)
StoreCleared(bits) == Access("clear", 0, 0, bits)
StoreEnables(bits) == Access("store", 0, 0, bits)

\* The ATC unit: a destination register, the request that puts all of them
\* into effect, a poke, and a pause or poll long enough for the request.
Destination(poke, val) == Access("destination", 0, poke, val)
ConfigReq == Access("request", 0, 0, 0)
Poke(poke) == Access("poke", 0, poke, 0)
WaitAtc == Access("wait", 0, 0, 0)

\* The command register of the counters, and a read of the count it chose.
CountReq(cmd) == Access("count", 0, 0, cmd)
ReadCount(chan) == Access("read count", 0, chan, 0)

\* Any other register of the firmware, written a word at a time: two halfwords.
Register(addr, upper16, lower16) == Access("register", 0, addr, <<upper16, lower16>>)

\* A pin of the processor: made an output that starts at a value, and driven.
ConfigurePin(pin, val) == Access("configure", pin, 0, val)
Pin(pin, val) == Access("pin", pin, 0, val)

\* The registers that only the server's own memory holds.
Remember(reg, val) == Access("expert", 0, reg, val)

ForEach(n, Program(_)) == FlattenSeq([i \in 1..n |-> Program(i - 1)])
=============================================================================
