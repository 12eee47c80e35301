------------------------------ MODULE Highlevel -----------------------------
(***************************************************************************)
(* What a client may ask of pacman_cmdserver about the slow control: reads *)
(* and writes of addresses (pacman_vspace.cc) and the commands of          *)
(* pacman_highlevel_interface.cc, each as the accesses it makes.           *)
(***************************************************************************)
EXTENDS PacmanI2c

I2C_START == \h24000
ENABLES == \hF010
POKE_C == \hE0C0
POKE_D == \hE0D0
CONFIG_REQ == \hE100
DST_POKE_C == \hE118
DST_POKE_D == \hE11C
COUNT_REQ == \hE200
COUNT == \hE204

FULL_RESET == \h03FF3FF5
INTERNAL_RESET == \h03FF0085
SYNC_PULSE == \h03FF1001

TilePower == 16

\* What a command's argument comes to: no argument of that name, an empty one and
\* one that is no number of 32 bits are refused alike.
GIVEN == 1
REFUSED == 2
get_unsigned(cmd) == cmd.addr = GIVEN

\* Every address from I2C_START on is of an I2C register.
pacman_vspace_read(addr, expert) ==
  IF addr >= I2C_START THEN i2c_read(addr, expert)
  ELSE CASE addr = ENABLES -> <<LoadEnables>>
         [] addr = COUNT -> <<ReadCount(0)>>
         [] OTHER -> <<>>

pacman_vspace_write(addr, val, expert) ==
  IF addr >= I2C_START THEN i2c_write(addr, val, expert)
  ELSE CASE addr \in {POKE_C, POKE_D} -> <<Poke(addr)>>
         [] addr = CONFIG_REQ -> <<ConfigReq>>
         [] addr = DST_POKE_C -> <<Destination(POKE_C, val)>>
         [] addr = DST_POKE_D -> <<Destination(POKE_D, val)>>
         [] addr = COUNT_REQ -> <<CountReq(val)>>
         [] addr = ENABLES -> <<StoreEnables({b \in 0..20 : (val \div 2^b) % 2 = 1})>>
         [] OTHER -> <<Register(addr, 0, val)>>

-----------------------------------------------------------------------------
(***************************************************************************)
(* The start of the server: the defaults, each written once, and a request *)
(* to put them into effect, without a pause after it.  Reads of versions   *)
(* change nothing.                                                         *)
(***************************************************************************)
PACMAN_ID == \h7FBC

pacman_init ==
  <<Register(\h7FB4, 0, \h1F), Register(\h7FB8, 0, 3),
    Register(\h7B04, 0, \h1001), Register(\h3B04, \h07BC, \h1601),
    Register(\hE108, \h03FF, \h3FF0),
    Register(\hE110, \h03FF, \h0026), Register(\hE114, \h03FF, \h0026),
    Destination(POKE_C, INTERNAL_RESET), Destination(POKE_D, SYNC_PULSE),
    ConfigReq>>

-----------------------------------------------------------------------------
\* The identity goes into the headers of the data; the server keeps a copy.
handle_set_pacman_id(cmd) ==
  IF get_unsigned(cmd) THEN <<Register(PACMAN_ID, 0, cmd.val % 256)>> ELSE <<>>

ValidTile(cmd) == get_unsigned(cmd) /\ cmd.val \in 1..10

handle_enable_tile_power == <<LoadEnables, StoreSet({TilePower})>>
handle_disable_tile_power == <<LoadEnables, StoreCleared({TilePower})>>

\* A bug to test against: the bits of the other tiles are not kept.
handle_disable_tile_alone(cmd) ==
  IF ValidTile(cmd) THEN <<LoadEnables, StoreEnables({TilePower})>> ELSE <<>>

handle_enable_tile(cmd) ==
  IF ValidTile(cmd) THEN <<LoadEnables, StoreSet({cmd.val - 1})>> ELSE <<>>
handle_disable_tile(cmd) ==
  IF ValidTile(cmd) THEN <<LoadEnables, StoreCleared({cmd.val - 1})>> ELSE <<>>

\* A bug to test against: the pulse is sent before the request took effect.
handle_send_full_reset_hasty(cmd) ==
  IF ~get_unsigned(cmd) THEN <<>> ELSE
  <<Destination(POKE_C, FULL_RESET), ConfigReq, Poke(POKE_C), WaitAtc,
    Destination(POKE_C, INTERNAL_RESET), ConfigReq, WaitAtc>>

\* Poke C is lent to the long pulse and given back.
handle_send_full_reset(cmd) ==
  IF ~get_unsigned(cmd) THEN <<>> ELSE
  <<Destination(POKE_C, FULL_RESET), ConfigReq, WaitAtc,
    Poke(POKE_C), WaitAtc,
    Destination(POKE_C, INTERNAL_RESET), ConfigReq, WaitAtc>>

handle_send_internal_reset(cmd) ==
  IF get_unsigned(cmd) THEN <<Poke(POKE_C)>> ELSE <<>>
handle_send_sync_timestamp(cmd) ==
  IF get_unsigned(cmd) THEN <<Poke(POKE_D)>> ELSE <<>>

\* The other commands are answered without an access.
dispatch_command(cmd) ==
  CASE cmd.name = "set_pacman_id" -> handle_set_pacman_id(cmd)
    [] cmd.name = "enable_tile_power" -> handle_enable_tile_power
    [] cmd.name = "disable_tile_power" -> handle_disable_tile_power
    [] cmd.name = "enable_tile" -> handle_enable_tile(cmd)
    [] cmd.name = "disable_tile" -> handle_disable_tile(cmd)
    [] cmd.name = "send_full_reset" -> handle_send_full_reset(cmd)
    [] cmd.name = "send_internal_reset" -> handle_send_internal_reset(cmd)
    [] cmd.name = "send_sync_timestamp" -> handle_send_sync_timestamp(cmd)
    [] OTHER -> <<>>
=============================================================================
