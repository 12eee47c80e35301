----------------------------- MODULE BootState -----------------------------
(***************************************************************************)
(* What the two first stage boot loaders of the board share: the registers *)
(* that survive a reset of the processing system, the watchdog, the global *)
(* variables of one run, and the ways a run can be left.  A run is         *)
(* everything between two visits of the boot ROM.                          *)
(***************************************************************************)
EXTENDS Naturals, FiniteSetsExt

CONSTANTS
  Slots,      \* the flash holds an image at most at each of 0..Slots-1
  Straps,     \* boot mode straps considered
  Flashes,    \* contents of the flash considered, each [0..Slots-1 -> Image]
  MaxFaults   \* failing steps, exceptions, late watchdogs and visits of a
              \* debugger, altogether

Downloaded == Slots   \* the "slot" of a loader a debugger brought

Image == {"good", "no_id", "bad_sum"}
Mode == {"JTAG", "QSPI", "NOR", "NAND", "SD", "MMC", "illegal"}

ASSUME SlotsAssumption == Slots \in Nat \ {0} /\ MaxFaults \in Nat
ASSUME StrapsAssumption == Straps \subseteq Mode
ASSUME FlashesAssumption == Flashes \subseteq [0..Slots - 1 -> Image]

VARIABLES
  strap,          \* boot mode strap
  aes,            \* the AES e-fuse is blown
  first_silicon,  \* silicon version 1.0
  flash,          \* what the boot device holds
  program,    \* which loader runs: pacman_fsbl or the one of jtag_boot
  pc,         \* the step its main() has come to
  known,      \* globals this run has set: Silicon_Version, PcapCtrlRegVal, ...
  image,      \* slot the running image was loaded from
  multiboot,  \* MULTIBOOT_ADDR, survives the reset
  mark,       \* top four bits of REBOOT_STATUS, survive the reset
  reason,     \* the reset reason field of REBOOT_STATUS
  wdt,        \* the watchdog counts
  ocm,        \* what the hook left in OCM for U-Boot
  faults,     \* faults so far
  failed      \* history: slots whose run ended in a fallback by multiboot

board == <<strap, aes, first_silicon, flash>>
run == <<program, pc, known, image>>
registers == <<multiboot, mark, reason>>
vars == <<board, run, registers, wdt, ocm, faults, failed>>

\* REBOOT_STATUS is kept by its top four bits and its reason field.
FSBL_IN_MASK == {29, 30}
FSBL_FAIL_MASK == {28, 29, 30, 31}
MarkFSBLIn == mark' = mark \cup FSBL_IN_MASK
ClearFSBLIn == mark' = mark \ FSBL_FAIL_MASK

----------------------------------------------------------------------------
\* A step of main() ends where the next one starts.
At(p, step) == program = p /\ pc = step
Goto(step) == pc' = step /\ UNCHANGED <<program, image>>
Fault == faults < MaxFaults /\ faults' = faults + 1
NoFault == UNCHANGED faults

\* FsblHookFallback, and any poll that never ends: only a watchdog that
\* counts gets the board out of it.
HookFallback == Goto("hang") /\ UNCHANGED known

\* Any reset of the processing system: .bss is lost and the watchdog is off.
Reset(why) ==
  /\ program' = "fsbl" /\ pc' = "rom" /\ known' = {} /\ image' = image
  /\ reason' = why /\ wdt' = FALSE

\* mutant: the register is written back as it was read
NextMultibootSame == multiboot

\* Update_MultiBootRegister; Silicon_Version reads as version 1 until it is set.
NextMultiboot ==
  IF first_silicon \/ "version" \notin known THEN multiboot ELSE multiboot + 1

\* ImageCheckID and HeaderChecksum of the header at a slot.
ImageCheckID(slot) == flash[slot] # "no_id"
HeaderChecksum(slot) == flash[slot] # "bad_sum"
ValidFrom(slot) ==
  {s \in slot..Slots - 1 : ImageCheckID(s) /\ HeaderChecksum(s)}
NextValidImage(slot) == Min(ValidFrom(slot))

FallbackSupported == strap \in {"QSPI", "NAND", "NOR"}
FuseRead == aes /\ "fuse" \in known

Blame == failed' = IF /\ program = "fsbl" /\ image # Downloaded
                      /\ "version" \in known /\ ~first_silicon
                   THEN failed \cup {image} ELSE failed

FallbackUnsupported ==
  /\ ~FallbackSupported
  /\ ClearFSBLIn /\ HookFallback
  /\ UNCHANGED <<multiboot, reason, wdt, failed>>

FallbackReset ==
  /\ FallbackSupported /\ ~FuseRead
  /\ multiboot' = NextMultiboot /\ Blame
  /\ mark' = mark \cup FSBL_FAIL_MASK
  /\ Reset("srst")

\* With the e-fuse the run looks for the next image itself and loads it.
FallbackSearch ==
  /\ FallbackSupported /\ FuseRead /\ "system" \in known
  /\ ValidFrom(NextMultiboot) # {}
  /\ multiboot' = NextValidImage(NextMultiboot) /\ Blame
  /\ mark' = mark \cup FSBL_FAIL_MASK
  /\ pc' = "load" /\ image' = multiboot'
  /\ UNCHANGED <<program, known, reason, wdt>>

\* Devices not up yet, FabricInit failed, or no image is left.
FallbackGivesUp ==
  /\ FallbackSupported /\ FuseRead
  /\ multiboot' = NextMultiboot /\ Blame
  /\ ClearFSBLIn /\ HookFallback
  /\ UNCHANGED <<reason, wdt>>

FsblFallback ==
  /\ FallbackUnsupported \/ FallbackReset \/ FallbackSearch \/ FallbackGivesUp
  /\ UNCHANGED <<board, ocm>>

\* What main() does when a step returns an error.
Fails == Fault /\ FsblFallback
============================================================================
