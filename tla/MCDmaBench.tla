----------------------------- MODULE MCDmaBench -----------------------------
(***************************************************************************)
(* DmaBench with two UARTs; a session for the servers and one for each     *)
(* group of menu items that act on each other.                             *)
(***************************************************************************)
EXTENDS DmaBench

Rings == {"init_rxtx_descriptor_ring_mode", "single_tx", "single_rx", "batch_tx",
          "batch_rx", "clear_rxtx_ioc", "dma_reset_tx", "dma_reset_rx"}
Benchmarks == {"benchmark_tx", "benchmark_rxtx_loopback", "toggle_tx_mask"}
Answering == {"init_rxtx_descriptor_ring_mode", "asic_toggle_version", "asic_hello",
              "asic_read_rx", "asic_loopback"}
SettingUp == {"init_rxtx_descriptor_ring_mode", "asic_toggle_power", "asic_full_reset",
              "asic_config_root", "asic_toggle_chip_id", "asic_request_read_all"}
Packing == {"init_rxtx_descriptor_ring_mode", "asic_toggle_version", "asic_loopback",
            "toggle_rx_buffer_config", "asic_toggle_rx_uart_enables"}
Mixing == {"init_rxtx_descriptor_ring_mode", "asic_toggle_version", "asic_loopback",
           "toggle_rx_buffer_enables"}
Hearing == {"init_rxtx_descriptor_ring_mode", "asic_loopback", "toggle_rx_config"}
Unending == {"benchmark_tx", "benchmark_rxtx_loopback", "toggle_rx_buffer_config"}
MCValues == {[i \in 0..1 |-> i], [i \in 0..1 |-> 1 - i]}
MCUart == {0, 1}
All(hears) == [u \in MCUart |-> hears]
Half == [u \in MCUart |-> IF u = 0 THEN "line" ELSE "loop"]
Session(items, heard, ends, on, asks) ==
  [items |-> items, heard |-> heard, ends |-> ends, powered |-> on, asks |-> asks]
MCSessions ==
  {Session({"servers"}, All("line"), "time", FALSE, 4), Session(Rings, All("loop"), "time", FALSE, 6),
   Session(Benchmarks, All("loop"), "time", FALSE, 3), Session(Unending, Half, "never", FALSE, 3),
   Session(Unending, All("loop"), "words", FALSE, 2), Session(Answering, All("line"), "time", TRUE, 4),
   Session(SettingUp, All("line"), "time", FALSE, 6), Session(Packing, All("line"), "words", TRUE, 8),
   Session(Mixing, All("line"), "time", TRUE, 6), Session(Hearing, All("loop"), "words", TRUE, 3)}
=============================================================================
