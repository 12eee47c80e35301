------------------------------ MODULE PacmanI2c -----------------------------
(***************************************************************************)
(* The I2C side of pacman_cmdserver: the virtual registers a client reads  *)
(* and writes, each as the accesses it makes (pacman_i2c.cc), and the      *)
(* choice between them and the memory-mapped registers by address          *)
(* (pacman_vspace.cc).                                                     *)
(***************************************************************************)
EXTENDS Transactions

\* The status of every access counts: a program returns a reading or 1 only if
\* all of them succeeded (i2c_mon_*, i2c_set_*).
i2c_recv(dev, reg) == <<PointToRead(dev, reg), Read(dev, reg)>>

\* A bug to test against: one refresh, so the output is of an earlier sample.
monOneRefresh(dev, reg) ==
  <<Write(dev, 1, 0), Point(dev, 0), Point(dev, reg)>>
    \o i2c_recv(dev, reg)

\* Single-shot mode, a refresh to convert, a refresh to move the conversion to
\* the output, and the output.
mon(dev, reg) ==
  <<Write(dev, 1, 0), Point(dev, 0), Point(dev, 0),
    Point(dev, reg)>> \o i2c_recv(dev, reg)

\* The last two of the twelve channels are on the monitor of the board.
Monitor(base, lower) ==
  IF lower > 11 THEN <<>>
  ELSE mon(16 + lower \div 2, base + 2 * (lower % 2))

i2c_mon_vdda(lower) == Monitor(VOLT_BASE, lower)
i2c_mon_vddd(lower) == Monitor(VOLT_BASE + 1, lower)
i2c_mon_idda(lower) == Monitor(CURR_BASE, lower)
i2c_mon_iddd(lower) == Monitor(CURR_BASE + 1, lower)

i2c_set_vdda(lower, val) ==
  IF lower > 10 THEN <<>> ELSE <<Write(DAC_VDDA, 48 + lower, val)>>
i2c_set_vddd(lower, val) ==
  IF lower > 10 THEN <<>> ELSE <<Write(DAC_VDDD, 48 + lower, val)>>

\* 0 switches off, 1 to 10 is a tile, 11 the test DAC.
get_mux_code(val) ==
  IF val \in 1..10 THEN val - 1 ELSE IF val = 11 THEN 11 ELSE 16

\* The positive and the negative side are two devices.
setMux(reg, val) ==
  <<Write(MUX_P, reg, get_mux_code(val)), Write(MUX_N, reg, get_mux_code(val))>>

i2c_set_muxa(val) == setMux(MUX_A, val)
i2c_set_muxb(val) == setMux(MUX_B, val)

\* The expert registers say how a direct access is made: 1 enables it, 2 is the
\* device, 3 the register, 4 the number of bytes: more than a word is refused, and a
\* write of none is the register byte alone.
DirectAllowed(expert) == expert[1] = 1 /\ expert[4] <= 4
i2c_direct_read(expert) ==
  IF DirectAllowed(expert) THEN i2c_recv(expert[2], expert[3]) ELSE <<>>
i2c_direct_write(expert, val) ==
  IF ~DirectAllowed(expert) THEN <<>>
  ELSE IF expert[4] = 0 THEN <<Point(expert[2], expert[3])>>
  ELSE <<Write(expert[2], expert[3], val)>>

\* i2c_read and i2c_write look at the last three digits of the offset only.
upper(offset) == (offset \div 16) % 256
lower_(offset) == offset % 16

i2c_read(offset, expert) ==
  LET lower == lower_(offset) IN
  CASE upper(offset) = 3 -> i2c_mon_vdda(lower)
    [] upper(offset) = 4 -> i2c_mon_vddd(lower)
    [] upper(offset) = 5 -> i2c_mon_idda(lower)
    [] upper(offset) = 6 -> i2c_mon_iddd(lower)
    [] upper(offset) = 18 -> i2c_direct_read(expert)
    [] OTHER -> <<>>

i2c_write(offset, val, expert) ==
  LET lower == lower_(offset) IN
  CASE upper(offset) = 1 -> i2c_set_vdda(lower, val)
    [] upper(offset) = 2 -> i2c_set_vddd(lower, val)
    [] upper(offset) = 7 -> i2c_set_muxa(val)
    [] upper(offset) = 8 -> i2c_set_muxb(val)
    [] upper(offset) = 17 -> <<Remember(lower, val)>>
    [] upper(offset) = 18 -> i2c_direct_write(expert, val)
    [] OTHER -> <<>>
=============================================================================
