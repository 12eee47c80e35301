-------------------------------- MODULE Boot --------------------------------
(***************************************************************************)
(* The board from its boot ROM to U-Boot: the ROM (external), the two      *)
(* first stage boot loaders and the watchdog.                              *)
(***************************************************************************)
EXTENDS TrenzHook, JtagBoot

Init ==
  /\ strap \in Straps /\ aes \in BOOLEAN /\ first_silicon \in BOOLEAN
  /\ flash \in Flashes
  /\ program = "fsbl" /\ pc = "rom" /\ known = {} /\ image = 0
  /\ multiboot = 0 /\ mark = {} /\ reason = "none" /\ wdt = FALSE
  /\ ocm = {} /\ faults = 0 /\ failed = {}

\* The boot ROM takes the first image with a valid header from MULTIBOOT_ADDR
\* on; SD and MMC have one file.  Without an image it stops.
BootRom ==
  /\ pc = "rom"
  /\ LET from == IF FallbackSupported THEN multiboot ELSE 0 IN
     \/ /\ strap \in {"JTAG", "illegal"} \/ ValidFrom(from) = {}
        /\ pc' = "lockdown" /\ UNCHANGED <<multiboot, image>>
     \/ /\ strap \notin {"JTAG", "illegal"} /\ ValidFrom(from) # {}
        /\ pc' = "ps7" /\ image' = NextValidImage(from)
        /\ multiboot' = IF FallbackSupported THEN image' ELSE multiboot
  /\ UNCHANGED <<board, program, known, mark, reason, wdt, ocm, faults, failed>>

\* A debugger resets the board and downloads one of the two loaders (run.tcl).
Download ==
  /\ pc \in {"rom", "lockdown", "jtag"}
  /\ program' \in {"fsbl", "jtag"} /\ pc' = "ps7" /\ image' = Downloaded
  /\ known' = {} /\ Fault
  /\ UNCHANGED <<board, registers, wdt, ocm, failed>>

Next == BootRom \/ Download \/ FsblNext \/ HookNext \/ JtagNext
        \/ WatchdogExpires

Spec == Init /\ [][Next]_vars

\* Every step that is due is taken: there is one processor, and the watchdog
\* counts on.  A debugger may stay away.
FairSpec ==
  /\ Spec
  /\ WF_vars(BootRom \/ FsblNext \/ HookNext \/ JtagNext)
  /\ WF_vars(pc = "hang" /\ WatchdogExpires)

TypeOK ==
  /\ strap \in Straps /\ flash \in Flashes
  /\ program \in {"fsbl", "jtag"}
  /\ pc \in Running \cup {"rom", "ps7", "hang", "lockdown", "jtag", "app"}
  /\ known \subseteq {"version", "fuse", "system"}
  /\ image \in 0..Downloaded /\ multiboot \in 0..Slots + faults
  /\ mark \subseteq FSBL_FAIL_MASK /\ reason \in {"none", "srst", "swdt"}
  /\ wdt \in BOOLEAN /\ ocm \subseteq {"magic", "ethaddr"}
  /\ faults \in 0..MaxFaults /\ failed \subseteq 0..Slots - 1

\* Whatever happened on the way, repeated runs, fallbacks and watchdog resets
\* included: when the board is left to U-Boot or to a debugger the watchdog is
\* stopped and no mark of a loader is left in REBOOT_STATUS, and U-Boot finds
\* its MAC address (FsblHandoff, JTAG mode, the hook's early returns).
LeavesCleanBoard ==
  pc \in {"app", "jtag"} =>
    /\ ~wdt /\ mark = {}
    /\ pc = "app" => ocm = {"magic", "ethaddr"}

\* A slot whose image ended in a fallback is not run again: not by the ROM
\* after the reset, not by the search of the e-fuse run, not after a later
\* watchdog reset (Update_MultiBootRegister, NextValidImageCheck).
FailedImageNotRerun == pc \in Running => image \notin failed

\* The environment for U-Boot is written before the handoff; PcapCtrlRegVal is
\* read late, and stops the watchdog of a board with the e-fuse for this run.
OrderOfSteps ==
  /\ pc \in {"phy", "handoff", "app"} => ocm = {"magic", "ethaddr"}
  /\ pc \in {"rom", "ps7", "ddr", "pcap", "check", "wdt", "fuse"} => "fuse" \notin known
  /\ FuseRead => ~wdt

\* The image pointer has passed every image that failed, and a loader that came
\* from the flash runs the image it points to.
PointerPassedFailures ==
  /\ \A s \in failed : s < multiboot
  /\ ~FallbackSupported => failed = {}
  /\ FallbackSupported /\ pc \in Running \cup {"ps7"} /\ image # Downloaded
       => image = multiboot

\* What every step leaves, and what the properties above follow from.
BootInv == TypeOK /\ LeavesCleanBoard /\ OrderOfSteps /\ PointerPassedFailures

\* Once the loader has read that the e-fuse is blown the board is not reset any
\* more, neither by a fallback nor by the watchdog: "User not allowed to do any
\* system resets".
FuseForbidsReset == [][FuseRead => pc' # "rom"]_vars

Settled ==
  \/ pc \in {"app", "jtag", "lockdown"}
  \/ pc = "hang" /\ ~wdt /\ (aes \/ "fuse" \notin known)

\* With finitely many faults the board ends in U-Boot, with a debugger, in the
\* ROM without an image, or hung for good: fallbacks and resets do not go round,
\* and a loader that got to its mark hangs for good only with the e-fuse.
BootSettles == <>Settled

=============================================================================
