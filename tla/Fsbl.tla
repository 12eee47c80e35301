-------------------------------- MODULE Fsbl --------------------------------
(***************************************************************************)
(* main() of the first stage boot loader in pacman_fsbl, one action per    *)
(* step that can fail.  Steps that the loader of jtag_boot has a copy of   *)
(* take the program p as parameter.  The hook before the handoff is in     *)
(* TrenzHook.                                                              *)
(***************************************************************************)
EXTENDS BootState

\* A step that succeeds touches only what it names.
Succeed(step) ==
  Goto(step) /\ NoFault /\ UNCHANGED <<board, multiboot, ocm, failed>>

\* ps7_init: no handler and no devcfg driver yet, so a failure just hangs.
Ps7Init(p, next) ==
  /\ At(p, "ps7")
  /\ \/ Succeed(next)
     \/ Fault /\ Goto("hang") /\ UNCHANGED <<board, multiboot, ocm, failed>>
  /\ UNCHANGED <<known, mark, reason, wdt>>

DDRInitCheck ==
  /\ At("fsbl", "ddr")
  /\ \/ Succeed("pcap")
     \/ Fault /\ Goto("hang") /\ UNCHANGED <<board, multiboot, ocm, failed>>
  /\ UNCHANGED <<known, mark, reason, wdt>>

\* InitPcap and, when it succeeds, GetSiliconVersion.
InitPcap(p) ==
  /\ At(p, "pcap")
  /\ \/ Succeed("check") /\ known' = known \cup {"version"}
     \/ /\ Fault /\ Goto("hang")
        /\ UNCHANGED <<known, board, multiboot, ocm, failed>>
  /\ UNCHANGED <<mark, reason, wdt>>

\* A watchdog reset that found the mark is acknowledged.  On later silicon the
\* reason is written over the whole of REBOOT_STATUS, which takes the mark too.
WdtResetSeen == reason = "swdt" /\ mark = FSBL_IN_MASK

CheckWDTReset(p) ==
  /\ At(p, "check")
  /\ Succeed("wdt")
  /\ reason' = IF WdtResetSeen THEN "none" ELSE reason
  /\ mark' = IF WdtResetSeen /\ ~first_silicon THEN {} ELSE mark
  /\ UNCHANGED <<known, wdt>>

InitWatchDog(p) ==
  /\ At(p, "wdt")
  /\ \/ Succeed("fuse") /\ wdt' = TRUE /\ UNCHANGED <<known, mark, reason>>
     \/ Fails

\* mutant: the watchdog is left running with the e-fuse
ReadFuseKeepsWdt(p) ==
  /\ At(p, "fuse") /\ Succeed("mode")
  /\ known' = known \cup {"fuse"} /\ MarkFSBLIn
  /\ UNCHANGED <<reason, wdt>>

\* mutant: the watchdog is stopped without the e-fuse too
ReadFuseStopsWdt(p) ==
  /\ At(p, "fuse") /\ Succeed("mode")
  /\ known' = known \cup {"fuse"} /\ MarkFSBLIn /\ wdt' = FALSE
  /\ UNCHANGED reason

\* PcapCtrlRegVal is read, the e-fuse stops the watchdog, and the run is marked.
ReadFuseAndMark(p) ==
  /\ At(p, "fuse")
  /\ Succeed("mode")
  /\ known' = known \cup {"fuse"}
  /\ wdt' = (wdt /\ ~aes)
  /\ MarkFSBLIn
  /\ UNCHANGED reason

\* The boot device: InitQspi, InitNand, InitNor, InitSD.
InitDevice ==
  /\ At("fsbl", "mode")
  /\ strap \in {"QSPI", "NAND", "NOR", "SD", "MMC"}
  /\ \/ /\ Succeed("load")
        /\ known' = known \cup {"system"}
        /\ UNCHANGED <<mark, reason, wdt>>
     \/ Fails

IllegalMode == At("fsbl", "mode") /\ strap = "illegal" /\ FsblFallback /\ NoFault

\* JTAG boot mode: the watchdog stops, the mark goes, the loader exits.
JtagMode(p, mode) ==
  /\ At(p, "mode")
  /\ mode = "JTAG"
  /\ Succeed("jtag")
  /\ wdt' = FALSE
  /\ ClearFSBLIn
  /\ UNCHANGED <<known, reason>>

\* LoadBootImage: returns an address, falls back, or never returns.
LoadBootImage ==
  /\ pc = "load"
  /\ \/ Succeed("idcode") /\ UNCHANGED <<known, mark, reason, wdt>>
     \/ Fails
     \/ /\ Fault /\ HookFallback
        /\ UNCHANGED <<board, registers, wdt, ocm, failed>>

\* mutant: the application starts with the mark still set
FsblHandoffMarked ==
  /\ pc = "handoff"
  /\ \E next \in {"app", "jtag"} : Succeed(next)
  /\ wdt' = FALSE
  /\ UNCHANGED <<known, mark, reason>>

\* After the hook: stop the watchdog, clear the mark, leave to the application
\* or, without an execution address, to JTAG.
FsblHandoff ==
  /\ pc = "handoff"
  /\ \E next \in {"app", "jtag"} : Succeed(next)
  /\ wdt' = FALSE
  /\ ClearFSBLIn
  /\ UNCHANGED <<known, reason>>

Running == {"ddr", "pcap", "check", "wdt", "fuse", "mode", "load", "idcode",
            "mac", "env", "phy", "handoff"}

\* An exception from RegisterHandlers on: its handler calls ErrorLockdown.
ErrorLockdown(p) == program = p /\ pc \in Running /\ Fails

\* The watchdog gets to zero; 100 s are too short for a run only by a fault.
WatchdogExpires ==
  /\ wdt
  /\ \/ pc = "hang" /\ NoFault
     \/ pc # "hang" /\ Fault
  /\ Reset("swdt")
  /\ UNCHANGED <<board, multiboot, mark, ocm, failed>>

FsblNext ==
  \/ Ps7Init("fsbl", "ddr") \/ DDRInitCheck \/ InitPcap("fsbl")
  \/ CheckWDTReset("fsbl") \/ InitWatchDog("fsbl") \/ ReadFuseAndMark("fsbl")
  \/ InitDevice \/ IllegalMode \/ JtagMode("fsbl", strap)
  \/ LoadBootImage \/ FsblHandoff \/ ErrorLockdown("fsbl")
============================================================================
