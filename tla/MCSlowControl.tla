---------------------------- MODULE MCSlowControl ---------------------------
(***************************************************************************)
(* SlowControl with two tiles, one fault, and a session for each kind of   *)
(* device.                                                                 *)
(***************************************************************************)
EXTENDS SlowControl

C(name, addr, val) == [name |-> name, addr |-> addr, val |-> val]
MCRamp == <<0, 1>>

Power == {C("read", \h24030, 0), C("read", \h24041, 0), C("write", \h24010, 1),
          C("monitor_power", 0, 0)}
Curves == {C("write", \h24021, 1), C("read", \h24051, 0), C("record_iv_curves", 0, 0)}
Supplies == {C("write", \h24010, 1), C("read", \h24060, 0), C("toggle_power", 0, 0)}
TestDac == {C("write", \h4000F010, 0), C("write", \h2402A, 1), C("read", \h2403B, 0),
            C("read", \h2404C, 0), C("toggle_test_dac", 0, 0)}
Switches == {C("write", \h24070, 1), C("write", \h24080, 11), C("write", \h24080, 0),
             C("toggle_mux", 0, 0)}
Direct == {C("write", \h24111, 1), C("write", \h24112, 16), C("write", \h24112, 76),
           C("write", \h24113, 20), C("write", \h24114, 2), C("write", \h24114, 9),
           C("read", \h24120, 0),
           C("write", \h24120, 2), C("toggle_mux", 0, 0)}
Enabling == {C("enable_tile", GIVEN, 1), C("disable_tile", GIVEN, 2), C("enable_tile", GIVEN, 11),
             C("disable_tile", REFUSED, 0), C("set_pacman_id", GIVEN, 300),
             C("enable_tile_power", GIVEN, 0), C("disable_tile_power", GIVEN, 0),
             C("toggle_global_enables", 0, 0), C("read", \hF010, 0)}
Timing == {C("send_full_reset", GIVEN, 0), C("send_internal_reset", GIVEN, 0),
           C("send_sync_timestamp", GIVEN, 0), C("send_full_reset", REFUSED, 0), C("write", \hE118, 0), C("write", \hE100, 0),
           C("toggle_atc_destinations", 0, 0), C("send_poke_c", 0, 0),
           C("send_poke_d", 0, 0)}

Counting == {C("read_atc_counts", 0, 0), C("send_poke_c", 0, 0), C("write", \hE0C0, 0),
             C("write", \hE200, \h10), C("write", \hE200, \h30), C("write", \hE200, \h73),
             C("read", \hE204, 0)}
Lights == {C("blink_leds", 0, 0), C("adc_toggle_sleep", 0, 0), C("adc_toggle_config", 0, 0),
           C("toggle_global_scratch", 0, 0), C("write", \hF014, 3), C("write", \hF020, 1)}

HwSwitches == {C("hw toggle_mux", 0, 0), C("check_iic", 0, 0)}
HwSupplies == {C("toggle_dac", 0, 0), C("pulse_dac", 0, 0), C("toggle_voltages", 0, 0)}
HwTiming == {C("toggle_enables", 0, 0), C("toggle_timing_counts", 0, 0),
             C("toggle_timing_config", 0, 0), C("poke_timing", 0, 0)}
HwAdc == {C("toggle_adc_circular_buffer", 0, 0), C("toggle_adc_trigger", 0, 0),
          C("toggle_adc_patterns", 0, 0), C("toggle_adc_sleep", 0, 0),
          C("set_adc_mode_to_run", 0, 0), C("blink", 0, 0)}

MCSessions == {Power, Curves, Supplies, TestDac,
               Switches, Direct, Enabling, Timing, Counting, Lights,
               HwSwitches, HwSupplies, HwTiming, HwAdc}
=============================================================================
