----------------------------- MODULE PacmanMenu -----------------------------
(***************************************************************************)
(* The slow control items of pacman_menu, a program of its own beside the  *)
(* servers: iic.c, atc.c, global.c, led.c, adc.c and the functions of      *)
(* main.cc, each as the accesses it makes.  No status is returned: iic_write and         *)
(* iic_read note a failure in G_IIC_STATUS and go on.                      *)
(*                                                                         *)
(* A toggle function steps through its settings, one each time; m is the   *)
(* setting it comes to.                                                    *)
(***************************************************************************)
EXTENDS Highlevel

CONSTANTS
  Ramp,   \* settings of an IV curve, in order (16 of them in the code)
  Blinks  \* bound: flashes of a blinking light (20 in the code)

ASSUME RampAssumption == Ramp \in Seq(Level)
ASSUME BlinksAssumption == Blinks \in Nat \ {0}

-----------------------------------------------------------------------------
(***************************************************************************)
(* iic.c.                                                                  *)
(***************************************************************************)
iic_set_vdda(chan, val) ==
  IF chan > TEST_CHAN THEN <<>> ELSE <<Write(DAC_VDDA, 48 + chan, val)>>
iic_set_vddd(chan, val) ==
  IF chan > TEST_CHAN THEN <<>> ELSE <<Write(DAC_VDDD, 48 + chan, val)>>

\* iic_read points at the register once more.
dn(dev, reg) ==
  <<Write(dev, 1, 0), Point(dev, 0), Point(dev, 0),
    Point(dev, reg), PointToRead(dev, reg), Read(dev, reg)>>

iic_vsense_dn(chip, chan) == dn(16 + chip, VOLT_BASE + chan)
iic_isense_dn(chip, chan) == dn(16 + chip, CURR_BASE + chan)

iic_mon_vdda_mv(chan) == iic_vsense_dn(chan \div 2, 2 * (chan % 2))
iic_mon_vddd_mv(chan) == iic_vsense_dn(chan \div 2, 2 * (chan % 2) + 1)
iic_mon_idda_ma(chan) == iic_isense_dn(chan \div 2, 2 * (chan % 2))
iic_mon_iddd_ma(chan) == iic_isense_dn(chan \div 2, 2 * (chan % 2) + 1)
iic_mon_vboard_mv(chan) == iic_vsense_dn(5, chan)
iic_mon_iboard_ma(chan) == iic_isense_dn(5, chan)
iic_mon_probe_dn == iic_isense_dn(5, 3)

\* The functions of the IV curves take the same steps with another scale.
iic_mon_vdda(chan) == dn(16 + chan \div 2, VOLT_BASE + 2 * (chan % 2))
iic_mon_vddd(chan) == dn(16 + chan \div 2, VOLT_BASE + 1 + 2 * (chan % 2))
iic_mon_idda(chan) == dn(16 + chan \div 2, CURR_BASE + 2 * (chan % 2))
iic_mon_iddd(chan) == dn(16 + chan \div 2, CURR_BASE + 1 + 2 * (chan % 2))

iic_set_muxa(val) ==
  <<Write(MUX_P, MUX_A, get_mux_code(val)), Write(MUX_N, MUX_A, get_mux_code(val))>>
iic_set_muxb(val) ==
  <<Write(MUX_P, MUX_B, get_mux_code(val)), Write(MUX_N, MUX_B, get_mux_code(val))>>

-----------------------------------------------------------------------------
(***************************************************************************)
(* The functions of the power, I2C and ADC menus.                          *)
(***************************************************************************)
toggle_power(m) ==
  LET level == LET full == CHOOSE l \in Level : \A k \in Level : k <= l
               IN IF m = 0 THEN 0 ELSE full
  IN ForEach(NumTiles, LAMBDA tile : iic_set_vddd(tile, level))
       \o ForEach(NumTiles, LAMBDA tile : iic_set_vdda(tile, level))

toggle_test_dac(m) ==
  LET on == CHOOSE l \in Level : l > 0
  IN iic_set_vdda(TEST_CHAN, IF m \in {1, 3} THEN on ELSE 0)
       \o iic_set_vddd(TEST_CHAN, IF m \in {2, 4} THEN on ELSE 0)

monitor_power ==
  ForEach(NumTiles, LAMBDA tile :
            iic_mon_vdda_mv(tile) \o iic_mon_vddd_mv(tile)
              \o iic_mon_idda_ma(tile) \o iic_mon_iddd_ma(tile))
    \o ForEach(4, iic_mon_vboard_mv) \o ForEach(3, iic_mon_iboard_ma)
    \o iic_mon_probe_dn

SetTile(tile, val) == iic_set_vdda(tile, val) \o iic_set_vddd(tile, val)

\* One tile up its ramp, measured at every setting, and back to zero.
IvCurve(tile) ==
  ForEach(Len(Ramp), LAMBDA k :
            SetTile(tile, Ramp[k + 1])
              \o iic_mon_vdda(tile) \o iic_mon_vddd(tile)
              \o iic_mon_idda(tile) \o iic_mon_iddd(tile))
    \o SetTile(tile, 0)

\* A bug to test against: the tiles are not taken to zero before the first ramp.
recordAsFound == ForEach(NumTiles, IvCurve)

record_iv_curves ==
  ForEach(NumTiles, LAMBDA tile : SetTile(tile, 0)) \o ForEach(NumTiles, IvCurve)

toggle_mux(m) ==
  iic_set_muxa(IF m \in {1, 3} THEN 11 ELSE 0)
    \o iic_set_muxb(IF m \in {2, 3} THEN 11 ELSE 0)

-----------------------------------------------------------------------------
(***************************************************************************)
(* global.c and atc.c.                                                     *)
(***************************************************************************)
\* Bit 20 is the fifth setting's, bits 0 to 9 are the tiles'.
toggle_global_enables(m) ==
  LET tiles == 0..NumTiles - 1 IN
  <<StoreEnables(CASE m = 0 -> {} [] m = 1 -> {TilePower}
                   [] m = 2 -> {0, TilePower} [] m = 3 -> tiles \cup {TilePower}
                   [] m = 4 -> tiles \cup {TilePower, 20})>>

toggle_atc_destinations(m) ==
  <<Destination(POKE_C, IF m \in {1, 2} THEN \h03FF0011 ELSE 0),
    Destination(POKE_D, CASE m = 1 -> \h03FF0012 [] m = 2 -> \h03FF0014 [] OTHER -> 0),
    WaitAtc, ConfigReq, WaitAtc>>

send_poke_c == <<WaitAtc, Poke(POKE_C)>>
send_poke_d == <<WaitAtc, Poke(POKE_D)>>

\* A bug to test against: the register is read at once.
readCountAtOnce(cmd) == <<CountReq(cmd), ReadCount(cmd)>>

readCount(cmd) == <<CountReq(cmd), WaitAtc, ReadCount(cmd)>>

\* The four inputs, then both outputs of every tile.
read_atc_counts ==
  <<WaitAtc>> \o ForEach(4, LAMBDA i : readCount(\h70 + i))
    \o ForEach(NumTiles, LAMBDA i : readCount(\h50 + i))
    \o ForEach(NumTiles, LAMBDA i : readCount(\h60 + i))

LEDS == \hF014
SCRATCH_A == \hF020
SCRATCH_B == \hF024

toggle_global_scratch(m) ==
  CASE m = 1 -> <<Register(SCRATCH_A, \hAAAA, \hAAAA), Register(SCRATCH_B, \hBBBB, \hBBBB)>>
    [] m = 2 -> <<Register(SCRATCH_A, \h1234, \h1234), Register(SCRATCH_B, \h7777, \hFFFF)>>
    [] m = 0 -> <<Register(SCRATCH_A, 0, 0), Register(SCRATCH_B, 0, 0)>>

-----------------------------------------------------------------------------
(***************************************************************************)
(* led.c and adc.c.  The menu calls init_led when it starts, and nothing   *)
(* ever calls adc_init: the sleep pin is an output only if the start-up    *)
(* script of the board has made it one.                                    *)
(***************************************************************************)
init_led == <<ConfigurePin(LED_TRENZ_RED, 0), ConfigurePin(LED_1, 0), ConfigurePin(LED_2, 0)>>

Flash(on, off) == ForEach(Blinks, LAMBDA i : <<on, off>>)
BlinkPin(pin) == Flash(Pin(pin, 1), Pin(pin, 0))
BlinkLed(bit) == Flash(Register(LEDS, 0, bit), Register(LEDS, 0, 0))

blink_red_led == BlinkPin(LED_TRENZ_RED)
blink_pacman_leds == BlinkPin(LED_1) \o BlinkPin(LED_2) \o BlinkLed(1) \o BlinkLed(2)
blink_leds == blink_red_led \o blink_pacman_leds

ADC_CONFIG == \hD004

adc_toggle_sleep(m) == <<Pin(ADC_SLEEP_PIN, IF m = 0 THEN 1 ELSE 0)>>
adc_toggle_config(m) == <<Register(ADC_CONFIG, 0, m)>>

-----------------------------------------------------------------------------
\* Settings of each toggle function.
Settings(name) ==
  CASE name \in {"toggle_power", "toggle_test_dac", "toggle_global_enables"} -> 5
    [] name \in {"toggle_mux", "toggle_atc_destinations"} -> 4
    [] name = "toggle_global_scratch" -> 3
    [] name \in {"adc_toggle_sleep", "adc_toggle_config"} -> 2
    [] OTHER -> 1

MenuProgram(name, m) ==
  CASE name = "toggle_power" -> toggle_power(m)
    [] name = "toggle_test_dac" -> toggle_test_dac(m)
    [] name = "monitor_power" -> monitor_power
    [] name = "record_iv_curves" -> record_iv_curves
    [] name = "toggle_mux" -> toggle_mux(m)
    [] name = "toggle_global_enables" -> toggle_global_enables(m)
    [] name = "toggle_atc_destinations" -> toggle_atc_destinations(m)
    [] name = "send_poke_c" -> send_poke_c
    [] name = "send_poke_d" -> send_poke_d
    [] name = "read_atc_counts" -> read_atc_counts
    [] name = "toggle_global_scratch" -> toggle_global_scratch(m)
    [] name = "blink_leds" -> blink_leds
    [] name = "adc_toggle_sleep" -> adc_toggle_sleep(m)
    [] name = "adc_toggle_config" -> adc_toggle_config(m)

MenuItems ==
  {"toggle_power", "toggle_test_dac", "monitor_power", "record_iv_curves",
   "toggle_mux", "toggle_global_enables", "toggle_atc_destinations",
   "send_poke_c", "send_poke_d", "read_atc_counts", "toggle_global_scratch",
   "blink_leds", "adc_toggle_sleep", "adc_toggle_config"}
=============================================================================
