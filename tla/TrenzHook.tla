----------------------------- MODULE TrenzHook -----------------------------
(***************************************************************************)
(* FsblHookBeforeHandoff: TE_FsblHookBeforeHandoff_Custom reads the IDCODE *)
(* of the device over PCAP, the MAC address and the module's model over    *)
(* MDIO, leaves the address in OCM for U-Boot and sets up the PHY.  Any    *)
(* failure fails the hook, and with it the handoff.                        *)
(***************************************************************************)
EXTENDS Fsbl

\* XDcfg_GetConfigReg fails on a full command queue; its four polls for the
\* DMA and the data path have no limit.
ReadIdCode ==
  /\ pc = "idcode"
  /\ \/ Succeed("mac") /\ UNCHANGED <<known, mark, reason, wdt>>
     \/ Fails
     \/ /\ Fault /\ HookFallback
        /\ UNCHANGED <<board, registers, wdt, ocm, failed>>

\* The driver of the MAC, and the registers of the system controller.
ReadMac ==
  /\ pc = "mac"
  /\ \/ Succeed("env") /\ UNCHANGED <<known, mark, reason, wdt>>
     \/ Fails

\* The magic word and "ethaddr=..." are in OCM before XEmacPs_SetMacAddress
\* can fail, and a reset does not take them out.
WriteEnv ==
  /\ pc = "env"
  /\ ocm' = {"magic", "ethaddr"}
  /\ \/ /\ Goto("phy") /\ NoFault
        /\ UNCHANGED <<board, registers, known, wdt, failed>>
     \/ /\ Fault
        /\ FallbackUnsupported \/ FallbackReset \/ FallbackSearch
              \/ FallbackGivesUp
        /\ UNCHANGED board

ConfigurePhy ==
  /\ pc = "phy"
  /\ \/ Succeed("handoff") /\ UNCHANGED <<known, mark, reason, wdt>>
     \/ Fails

HookNext == ReadIdCode \/ ReadMac \/ WriteEnv \/ ConfigurePhy
============================================================================
