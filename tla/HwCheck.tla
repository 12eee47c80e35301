------------------------------- MODULE HwCheck ------------------------------
(***************************************************************************)
(* hwcheck.c, the program that checks a board without Linux: its items,    *)
(* each as the accesses it makes.  It has the board to itself.             *)
(*                                                                         *)
(* Its registers are those of an earlier firmware: the one beside it takes *)
(* none of their addresses, and a write to them changes nothing.           *)
(***************************************************************************)
EXTENDS PacmanMenu

ADDR_BAD == 14

iic_send(addr, reg) == <<Point(addr, reg)>>
iic_set(addr, reg, val) == <<Write(addr, reg, val)>>
iic_byte(addr, reg, byte) == <<Write(addr, reg, byte)>>

\* Both sides, one switch after the other.
SetBoth(dev, a, b) == iic_byte(dev, MUX_A, a) \o iic_byte(dev, MUX_B, b)

check_iic ==
  iic_set(ADDR_BAD, 0, 0) \o iic_send(ADDR_BAD, 0)
    \o iic_set(DAC_VDDA, 0, 0) \o iic_set(DAC_VDDD, 0, 0)
    \o SetBoth(MUX_P, 11, 14) \o SetBoth(MUX_N, 11, 14)
    \o ForEach(6, LAMBDA chip : iic_send(16 + chip, 0))

set_voltages(chan, val) ==
  IF chan > TEST_CHAN THEN <<>>
  ELSE iic_set(DAC_VDDA, 48 + chan, val) \o iic_set(DAC_VDDD, 48 + chan, val)

set_dac_voltages(vdda, vddd) ==
  iic_set(DAC_VDDA, 48 + TEST_CHAN, vdda) \o iic_set(DAC_VDDD, 48 + TEST_CHAN, vddd)

\* A bug to test against: the switches of one side are set to their shadow
\* registers before the shadows are written.
ShadowsLate ==
  SetBoth(MUX_P, COPY_SHADOW, COPY_SHADOW)
    \o FlattenSeq([r \in 1..4 |-> iic_byte(MUX_P, 15 + r, IF r % 2 = 1 THEN 2 ELSE 32)])
    \o FlattenSeq([r \in 1..4 |-> iic_byte(MUX_N, 15 + r, IF r % 2 = 1 THEN 2 ELSE 32)])
    \o SetBoth(MUX_N, COPY_SHADOW, COPY_SHADOW)

\* A channel and its termination together: through the shadow registers.
Terminated ==
  FlattenSeq([r \in 1..4 |-> iic_byte(MUX_P, 15 + r, IF r % 2 = 1 THEN 2 ELSE 32)])
    \o FlattenSeq([r \in 1..4 |-> iic_byte(MUX_N, 15 + r, IF r % 2 = 1 THEN 2 ELSE 32)])
    \o SetBoth(MUX_P, COPY_SHADOW, COPY_SHADOW) \o SetBoth(MUX_N, COPY_SHADOW, COPY_SHADOW)

HwToggleMux(m) ==
  LET both(val) == SetBoth(MUX_P, val, val) \o SetBoth(MUX_N, val, val)
  IN CASE m = 0 -> both(16) [] m = 1 -> both(11) [] m = 2 -> both(1)
       [] m = 3 -> Terminated

On == CHOOSE l \in Level : l > 0

toggle_dac(m) ==
  set_dac_voltages(IF m = 1 THEN On ELSE 0, IF m = 2 THEN On ELSE 0)

pulse_dac ==
  set_dac_voltages(0, On) \o set_dac_voltages(On, 0) \o set_dac_voltages(0, On)

toggle_voltages(m) == set_voltages(0, IF m = 0 THEN 0 ELSE On)

-----------------------------------------------------------------------------
(***************************************************************************)
(* Registers and pins.                                                     *)
(***************************************************************************)
toggle_enables(m) ==
  <<Register(\hFF20, IF m = 1 THEN \h11 ELSE 0, IF m = 1 THEN \h3FF ELSE 0)>>

set_adc_mode_to_run == <<Register(\hD118, 0, 2)>>

poke_timing == <<Register(\hE010, 0, 0), Register(\hE014, 0, 0)>>

AdcConfig(upper16, lower16) == <<Register(\hD110, upper16, lower16)>>

toggle_adc_circular_buffer(m) ==
  IF m = 0 THEN poke_timing \o AdcConfig(0, 0) ELSE AdcConfig(\h1000, \h13)

toggle_adc_trigger(m) ==
  IF m = 0 THEN AdcConfig(0, 0) \o AdcConfig(0, 0)
  ELSE AdcConfig(\h1000, \h13) \o AdcConfig(\h1000, \h33)

toggle_adc_patterns(m) ==
  LET upper16 == <<0, 0, 4, 8, 12, 12>>
      lower16 == <<0, \hA3, \h3B3, \hFB3, \hABC3, \h12C3>>
  IN AdcConfig(upper16[m + 1], lower16[m + 1])

toggle_timing_counts(m) ==
  <<Register(\hE0B4, 0, 0)>>
    \o IF m = 0 THEN <<>> ELSE <<Register(\hE0B8, 0, 0), Register(\hE0B0, 0, 0)>>

toggle_timing_config(m) ==
  LET level == CASE m = 0 -> 0 [] m = 1 -> \h14 [] m = 2 -> \h04
      width(upper8) == IF m = 0 THEN 0 ELSE upper8 * 256
  IN ForEach(NumTiles, LAMBDA i : <<Register(\hE450 + 4 * i, 0, width(\h0F) + level),
                                    Register(\hE480 + 4 * i, 0, width(\h1F) + level)>>)
       \o <<Register(\hE440, 0, 0), Register(\hE444, 0, \h10)>>

init_gpiops == <<Pin(ADC_SLEEP_PIN, 1), Pin(LED_TRENZ_RED, 0), Pin(LED_1, 0), Pin(LED_2, 0)>>

blink == BlinkPin(LED_TRENZ_RED) \o BlinkPin(LED_1) \o BlinkPin(LED_2)

toggle_adc_sleep(m) == <<Pin(ADC_SLEEP_PIN, IF m = 0 THEN 1 ELSE 0)>>

-----------------------------------------------------------------------------
HwSettings(name) ==
  CASE name \in {"hw toggle_mux", "toggle_voltages"} -> 4
    [] name \in {"toggle_dac", "toggle_timing_config"} -> 3
    [] name \in {"toggle_enables", "toggle_adc_sleep", "toggle_adc_circular_buffer",
                 "toggle_adc_trigger", "toggle_timing_counts"} -> 2
    [] name = "toggle_adc_patterns" -> 6
    [] OTHER -> 1

\* The configuration of the timing falls through to the poke.
HwProgram(name, m) ==
  CASE name = "blink" -> blink
    [] name = "toggle_enables" -> toggle_enables(m)
    [] name = "check_iic" -> check_iic
    [] name = "hw toggle_mux" -> HwToggleMux(m)
    [] name = "toggle_dac" -> toggle_dac(m)
    [] name = "pulse_dac" -> pulse_dac
    [] name = "toggle_adc_sleep" -> toggle_adc_sleep(m)
    [] name = "toggle_adc_circular_buffer" -> toggle_adc_circular_buffer(m)
    [] name = "toggle_adc_trigger" -> toggle_adc_trigger(m)
    [] name = "toggle_adc_patterns" -> toggle_adc_patterns(m)
    [] name = "toggle_voltages" -> toggle_voltages(m)
    [] name = "toggle_timing_counts" -> toggle_timing_counts(m)
    [] name = "toggle_timing_config" -> toggle_timing_config(m) \o poke_timing
    [] name = "poke_timing" -> poke_timing
    [] name = "set_adc_mode_to_run" -> set_adc_mode_to_run

HwItems ==
  {"blink", "toggle_enables", "check_iic", "hw toggle_mux", "toggle_dac", "pulse_dac",
   "toggle_adc_sleep", "toggle_adc_circular_buffer", "toggle_adc_trigger",
   "toggle_adc_patterns", "toggle_voltages", "toggle_timing_counts",
   "toggle_timing_config", "poke_timing", "set_adc_mode_to_run"}
=============================================================================
