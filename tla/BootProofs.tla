---------------------------- MODULE BootProofs -----------------------------
(***************************************************************************)
(* BootInv is an inductive invariant of Boot for every flash, every set of *)
(* straps and any number of slots and faults.                              *)
(***************************************************************************)
EXTENDS Boot, WellFoundedInduction, TLAPS

-----------------------------------------------------------------------------
\* A nonempty set of naturals has a least element, which Min returns.
LEMMA MinFacts ==
  ASSUME NEW S \in SUBSET Nat, S # {}
  PROVE  Min(S) \in S /\ \A x \in S : Min(S) <= x
<1>1. PICK m \in S : \A y \in S : <<y, m>> \notin OpToRel(<, Nat)
  BY NatLessThanWellFounded, WFMin, Zenon
<1>2. \A y \in S : ~(y < m)
  <2> SUFFICES ASSUME NEW y \in S, y < m PROVE FALSE
    OBVIOUS
  <2>1. <<y, m>> \in Nat \X Nat /\ <<y, m>>[1] = y /\ <<y, m>>[2] = m
    OBVIOUS
  <2>2. <<y, m>> \in OpToRel(<, Nat)
    BY <2>1, Zenon DEF OpToRel
  <2>3. QED
    BY <1>1, <2>2
<1>3. \A y \in S : m <= y
  BY <1>2
<1>4. \E x \in S : \A y \in S : x <= y
  BY <1>3
<1>5. QED
  BY <1>4 DEF Min

\* The search for an image ends at a slot of the flash, not before its start.
LEMMA NextValidImageFacts ==
  ASSUME NEW slot \in Nat, ValidFrom(slot) # {}
  PROVE  NextValidImage(slot) \in 0..Slots - 1 /\ NextValidImage(slot) >= slot
<1>1. ValidFrom(slot) \in SUBSET Nat
  BY SlotsAssumption DEF ValidFrom
<1>2. NextValidImage(slot) \in ValidFrom(slot)
  BY <1>1, MinFacts DEF NextValidImage
<1>3. QED
  BY <1>2, SlotsAssumption DEF ValidFrom

-----------------------------------------------------------------------------
\* The part of the invariant that is about the image pointer, kept by whatever
\* a fallback does to it: the image it leaves is blamed only when the pointer
\* moves on.
LEMMA PointerMovesOn ==
  ASSUME BootInv, pc \in Running, FallbackSupported, Blame,
         UNCHANGED strap, multiboot' \in Nat, multiboot' >= NextMultiboot
  PROVE  /\ \A s \in failed' : s < multiboot'
         /\ failed' \in SUBSET (0..Slots - 1)
<1>1. multiboot \in Nat /\ NextMultiboot \in Nat /\ multiboot' >= multiboot
  BY SlotsAssumption DEF BootInv, TypeOK, NextMultiboot
<1>2. \A s \in failed : s < multiboot'
  <2>1. \A s \in failed : s \in Nat /\ s < multiboot
    BY SlotsAssumption DEF BootInv, TypeOK, PointerPassedFailures
  <2>2. QED
    BY <1>1, <2>1
<1>3. CASE program = "fsbl" /\ image # Downloaded /\ "version" \in known
           /\ ~first_silicon
  <2>1. failed' = failed \cup {image} /\ NextMultiboot = multiboot + 1
    BY <1>3 DEF Blame, NextMultiboot
  <2>2. image = multiboot /\ image \in 0..Slots - 1
    BY <1>3, SlotsAssumption
    DEF BootInv, TypeOK, PointerPassedFailures, Downloaded
  <2>3. image < multiboot'
    BY <1>1, <2>1, <2>2
  <2>4. QED
    BY <1>2, <2>1, <2>2, <2>3 DEF BootInv, TypeOK
<1>4. CASE ~(program = "fsbl" /\ image # Downloaded /\ "version" \in known
             /\ ~first_silicon)
  <2>1. failed' = failed
    BY <1>4 DEF Blame
  <2>2. QED
    BY <1>2, <2>1 DEF BootInv, TypeOK
<1>5. QED
  BY <1>3, <1>4

\* A run that is left by a fallback, with or without a reset: the pointer is
\* over the image that failed, and the board hangs, is in its ROM, or loads the
\* next image.
LEMMA FallbackInv ==
  ASSUME BootInv, pc \in Running, UNCHANGED board,
         ocm' = ocm \/ ocm' = {"magic", "ethaddr"},
         Fault \/ (NoFault /\ ~FallbackSupported),
         FallbackUnsupported \/ FallbackReset \/ FallbackSearch \/ FallbackGivesUp
  PROVE  BootInv'
<1>1. faults' \in 0..MaxFaults /\ faults' >= faults /\ faults \in Nat
      /\ (FallbackSupported => faults' = faults + 1)
  BY SlotsAssumption DEF BootInv, TypeOK, Fault, NoFault
<1>2. /\ strap' \in Straps /\ flash' \in Flashes /\ ocm' \subseteq {"magic", "ethaddr"}
      /\ (FallbackSupported)' = FallbackSupported /\ UNCHANGED <<strap, aes>>
  BY DEF BootInv, TypeOK, board, FallbackSupported
<1>3. multiboot \in 0..Slots + faults' /\ multiboot \in Nat
  <2>1. multiboot \in Nat /\ multiboot <= Slots + faults
    BY <1>1, SlotsAssumption DEF BootInv, TypeOK
  <2>2. faults' \in Nat /\ Slots \in Nat /\ faults \in Nat /\ faults <= faults'
    BY <1>1, SlotsAssumption
  <2>3. \A m, n, f, g \in Nat : m <= n + f /\ f <= g => m <= n + g /\ n + g \in Nat
    OBVIOUS
  <2>4. multiboot <= Slots + faults' /\ Slots + faults' \in Nat
    BY <2>1, <2>2, <2>3
  <2>5. QED
    BY <2>1, <2>4
<1>4. NextMultiboot \in 0..Slots + faults' \/ ~FallbackSupported
  <2>1. multiboot <= Slots + faults /\ faults' \in Nat /\ Slots \in Nat
    BY <1>1, SlotsAssumption DEF BootInv, TypeOK
  <2>2. NextMultiboot = multiboot \/ NextMultiboot = multiboot + 1
    BY DEF NextMultiboot
  <2>3. QED
    BY <1>1, <1>3, <2>1, <2>2
<1>5. CASE FallbackUnsupported
  <2>1. TypeOK'
    BY <1>1, <1>2, <1>3, <1>5
    DEF BootInv, TypeOK, FallbackUnsupported, ClearFSBLIn, HookFallback, Goto
  <2>2. LeavesCleanBoard' /\ PointerPassedFailures'
    BY <1>2, <1>5
    DEF BootInv, LeavesCleanBoard, PointerPassedFailures, Running,
        FallbackUnsupported, HookFallback, Goto
  <2>3. OrderOfSteps'
    BY <1>2, <1>5
    DEF BootInv, OrderOfSteps, FuseRead, FallbackUnsupported, HookFallback, Goto
  <2>4. QED
    BY <2>1, <2>2, <2>3 DEF BootInv
<1>6. CASE FallbackReset
  <2>1. multiboot' \in 0..Slots + faults' /\ multiboot' \in Nat
        /\ multiboot' >= NextMultiboot
    BY <1>4, <1>6 DEF FallbackReset
  <2>2. /\ \A s \in failed' : s < multiboot'
        /\ failed' \in SUBSET (0..Slots - 1)
    BY <1>2, <1>6, <2>1, PointerMovesOn DEF FallbackReset
  <2>3. TypeOK'
    BY <1>1, <1>2, <1>6, <2>1, <2>2
    DEF BootInv, TypeOK, FallbackReset, Reset, FSBL_FAIL_MASK
  <2>4. LeavesCleanBoard' /\ PointerPassedFailures' /\ OrderOfSteps'
    BY <1>2, <1>6, <2>2
    DEF LeavesCleanBoard, PointerPassedFailures, OrderOfSteps, FuseRead, Running,
        FallbackReset, Reset
  <2>5. QED
    BY <2>3, <2>4 DEF BootInv
<1>7. CASE FallbackSearch
  <2>1. NextMultiboot \in Nat /\ ValidFrom(NextMultiboot) # {}
    BY <1>4, <1>7 DEF FallbackSearch
  <2>2. multiboot' \in 0..Slots - 1 /\ multiboot' >= NextMultiboot
    BY <1>7, <2>1, NextValidImageFacts DEF FallbackSearch
  <2>3. multiboot' \in Nat /\ multiboot' \in 0..Slots + faults'
        /\ image' \in 0..Downloaded
    BY <1>1, <1>7, <2>2, SlotsAssumption DEF FallbackSearch, Downloaded
  <2>4. /\ \A s \in failed' : s < multiboot'
        /\ failed' \in SUBSET (0..Slots - 1)
    BY <1>2, <1>7, <2>2, <2>3, PointerMovesOn DEF FallbackSearch
  <2>5. TypeOK'
    BY <1>1, <1>2, <1>7, <2>3, <2>4
    DEF BootInv, TypeOK, FallbackSearch, FSBL_FAIL_MASK, Running
  <2>6. LeavesCleanBoard' /\ PointerPassedFailures' /\ OrderOfSteps'
    BY <1>2, <1>7, <2>4
    DEF BootInv, LeavesCleanBoard, PointerPassedFailures, OrderOfSteps, FuseRead,
        FallbackSearch
  <2>7. QED
    BY <2>5, <2>6 DEF BootInv
<1>8. CASE FallbackGivesUp
  <2>1. multiboot' \in 0..Slots + faults' /\ multiboot' \in Nat
        /\ multiboot' >= NextMultiboot
    BY <1>4, <1>8 DEF FallbackGivesUp
  <2>2. /\ \A s \in failed' : s < multiboot'
        /\ failed' \in SUBSET (0..Slots - 1)
    BY <1>2, <1>8, <2>1, PointerMovesOn DEF FallbackGivesUp
  <2>3. TypeOK'
    BY <1>1, <1>2, <1>8, <2>1, <2>2
    DEF BootInv, TypeOK, FallbackGivesUp, ClearFSBLIn, HookFallback, Goto
  <2>4. LeavesCleanBoard' /\ PointerPassedFailures' /\ OrderOfSteps'
    BY <1>2, <1>8, <2>2
    DEF BootInv, LeavesCleanBoard, PointerPassedFailures, OrderOfSteps, FuseRead,
        Running, FallbackGivesUp, HookFallback, Goto
  <2>5. QED
    BY <2>3, <2>4 DEF BootInv
<1>9. QED
  BY <1>5, <1>6, <1>7, <1>8

\* The same for a step of main() that returns an error.
LEMMA FailsInv ==
  ASSUME BootInv, pc \in Running, Fails
  PROVE  BootInv'
BY FallbackInv DEF Fails, FsblFallback

\* A poll that never ends, or a hang, keeps everything but the place.
LEMMA HangInv ==
  ASSUME BootInv, Fault, Goto("hang"),
         UNCHANGED <<known, board, registers, wdt, ocm, failed>>
  PROVE  BootInv'
<1>1. faults' \in 0..MaxFaults /\ multiboot' \in 0..Slots + faults'
  BY SlotsAssumption DEF BootInv, TypeOK, Fault, registers
<1>2. TypeOK'
  BY <1>1 DEF BootInv, TypeOK, Goto, board, registers
<1>3. LeavesCleanBoard' /\ PointerPassedFailures' /\ OrderOfSteps'
  BY DEF BootInv, LeavesCleanBoard, PointerPassedFailures, OrderOfSteps, FuseRead,
         FallbackSupported, Running, Goto, board, registers
<1>4. QED
  BY <1>2, <1>3 DEF BootInv

-----------------------------------------------------------------------------
\* The board comes out of power-on in a state of the invariant.
LEMMA InitInv == Init => BootInv
<1> SUFFICES ASSUME Init PROVE BootInv
  OBVIOUS
<1>1. TypeOK
  <2>1. image = 0 /\ multiboot = 0 /\ faults = 0 /\ Slots \in Nat /\ MaxFaults \in Nat
    BY SlotsAssumption DEF Init
  <2>2. image \in 0..Downloaded /\ multiboot \in 0..Slots + faults
        /\ faults \in 0..MaxFaults
    BY <2>1 DEF Downloaded
  <2>3. QED
    BY <2>2 DEF Init, TypeOK
<1>2. LeavesCleanBoard /\ OrderOfSteps /\ PointerPassedFailures
  BY DEF Init, LeavesCleanBoard, OrderOfSteps, PointerPassedFailures, FuseRead,
         Running
<1>3. QED
  BY <1>1, <1>2 DEF BootInv

\* The ROM starts an image at the pointer or after it.
LEMMA BootRomInv ==
  ASSUME BootInv, BootRom
  PROVE  BootInv'
<1>1. CASE pc' = "lockdown" /\ UNCHANGED <<multiboot, image>>
  <2>1. TypeOK'
    BY <1>1 DEF BootInv, TypeOK, BootRom, board
  <2>2. LeavesCleanBoard' /\ PointerPassedFailures' /\ OrderOfSteps'
    BY <1>1 DEF BootInv, LeavesCleanBoard, PointerPassedFailures, OrderOfSteps,
                FuseRead, FallbackSupported, Running, BootRom, board
  <2>3. QED
    BY <2>1, <2>2 DEF BootInv
<1>2. CASE ~(pc' = "lockdown" /\ UNCHANGED <<multiboot, image>>)
  <2> DEFINE from == IF FallbackSupported THEN multiboot ELSE 0
  <2>1. /\ ValidFrom(from) # {} /\ image' = NextValidImage(from) /\ pc' = "ps7"
        /\ multiboot' = IF FallbackSupported THEN image' ELSE multiboot
    BY <1>2 DEF BootRom
  <2>2. from \in Nat
    BY SlotsAssumption DEF BootInv, TypeOK
  <2>3. image' \in 0..Slots - 1 /\ image' >= from
    BY <2>1, <2>2, NextValidImageFacts
  <2>4. faults \in Nat /\ Slots \in Nat /\ image' \in 0..Downloaded
        /\ (image' \in 0..Slots + faults)
    BY <2>3, SlotsAssumption DEF BootInv, TypeOK, Downloaded
  <2>5. multiboot' \in 0..Slots + faults
    BY <2>1, <2>4 DEF BootInv, TypeOK
  <2>6. TypeOK'
    BY <2>1, <2>4, <2>5 DEF BootInv, TypeOK, BootRom, board
  <2>7. \A s \in failed' : s < multiboot'
    <3>1. \A s \in failed : s \in Nat /\ s < multiboot
      BY SlotsAssumption DEF BootInv, TypeOK, PointerPassedFailures
    <3>2. multiboot' \in Nat /\ multiboot \in Nat /\ multiboot <= multiboot'
      BY <2>1, <2>2, <2>3 DEF BootInv, TypeOK
    <3>3. failed' = failed
      BY DEF BootRom
    <3>4. QED
      BY <3>1, <3>2, <3>3
  <2>8. LeavesCleanBoard' /\ PointerPassedFailures' /\ OrderOfSteps'
    BY <2>1, <2>7 DEF BootInv, LeavesCleanBoard, PointerPassedFailures,
         OrderOfSteps, FuseRead, FallbackSupported, BootRom, board
  <2>9. QED
    BY <2>6, <2>8 DEF BootInv
<1>3. QED
  BY <1>1, <1>2

\* A debugger brings a loader of its own: nothing the invariant speaks of is
\* left of the run before.
LEMMA DownloadInv ==
  ASSUME BootInv, Download
  PROVE  BootInv'
<1>1. faults' \in 0..MaxFaults /\ multiboot' \in 0..Slots + faults'
  BY SlotsAssumption DEF BootInv, TypeOK, Download, Fault, registers
<1>2. Downloaded \in 0..Downloaded
  BY SlotsAssumption DEF Downloaded
<1>3. TypeOK'
  BY <1>1, <1>2 DEF BootInv, TypeOK, Download, board, registers
<1>4. LeavesCleanBoard' /\ PointerPassedFailures' /\ OrderOfSteps'
  BY DEF BootInv, LeavesCleanBoard, PointerPassedFailures, OrderOfSteps, FuseRead,
         FallbackSupported, Download, board, registers
<1>5. QED
  BY <1>3, <1>4 DEF BootInv

\* The watchdog resets the board; the registers that survive keep the invariant.
LEMMA WatchdogInv ==
  ASSUME BootInv, WatchdogExpires
  PROVE  BootInv'
<1>1. faults' \in 0..MaxFaults /\ multiboot' \in 0..Slots + faults'
  BY SlotsAssumption DEF BootInv, TypeOK, WatchdogExpires, Fault, NoFault
<1>2. TypeOK'
  BY <1>1 DEF BootInv, TypeOK, WatchdogExpires, Reset, board
<1>3. LeavesCleanBoard' /\ PointerPassedFailures' /\ OrderOfSteps'
  BY DEF BootInv, LeavesCleanBoard, PointerPassedFailures, OrderOfSteps, FuseRead,
         FallbackSupported, Running, WatchdogExpires, Reset, board
<1>4. QED
  BY <1>2, <1>3 DEF BootInv

-----------------------------------------------------------------------------
\* A step that succeeds, in what all of them share: it goes on inside a run,
\* or to its end, with the type of every variable, the order of the steps and
\* the clean board still to be shown for what it writes.
LEMMA SucceedInv ==
  ASSUME BootInv, pc \in Running \cup {"ps7"}, NEW step \in Running \cup {"app", "jtag"},
         Succeed(step),
         known' \subseteq {"version", "fuse", "system"},
         mark' \subseteq FSBL_FAIL_MASK, reason' \in {"none", "srst", "swdt"},
         wdt' \in BOOLEAN, OrderOfSteps', LeavesCleanBoard'
  PROVE  BootInv'
<1>1. TypeOK'
  BY DEF BootInv, TypeOK, Succeed, Goto, NoFault, board
<1>2. PointerPassedFailures'
  BY DEF BootInv, PointerPassedFailures, FallbackSupported, Succeed, Goto, board
<1>3. QED
  BY <1>1, <1>2 DEF BootInv

\* After the e-fuse, steps that write nothing but the place in main().
LEMMA PlainStepInv ==
  ASSUME BootInv, pc \in Running, NEW step \in {"idcode", "mac", "env", "handoff"},
         step = "handoff" => pc = "phy",
         Succeed(step), UNCHANGED <<known, mark, reason, wdt>>
  PROVE  BootInv'
<1>1. /\ pc' = step /\ UNCHANGED <<aes, ocm>>
  BY DEF Succeed, Goto, board
<1>2. OrderOfSteps' /\ LeavesCleanBoard'
  BY <1>1 DEF BootInv, OrderOfSteps, LeavesCleanBoard, FuseRead
<1>3. QED
  BY <1>2, SucceedInv DEF BootInv, TypeOK, Running

\* A step that fails before there is anything to fall back with hangs.
LEMMA EarlyHangInv ==
  ASSUME BootInv, Fault, Goto("hang"),
         UNCHANGED <<known, mark, reason, wdt, board, multiboot, ocm, failed>>
  PROVE  BootInv'
BY HangInv DEF registers

\* The steps up to the boot mode, of either loader.
LEMMA EarlyStepsInv ==
  ASSUME BootInv, NEW p \in {"fsbl", "jtag"},
         \/ Ps7Init("fsbl", "ddr") \/ Ps7Init("jtag", "pcap") \/ DDRInitCheck
         \/ InitPcap(p) \/ CheckWDTReset(p) \/ InitWatchDog(p)
         \/ ReadFuseAndMark(p)
  PROVE  BootInv'
<1>1. CASE Ps7Init("fsbl", "ddr")
  BY <1>1, SucceedInv, EarlyHangInv
  DEF BootInv, TypeOK, OrderOfSteps, LeavesCleanBoard, FuseRead, Running,
      Ps7Init, At, Succeed, Goto, board
<1>2. CASE Ps7Init("jtag", "pcap")
  BY <1>2, SucceedInv, EarlyHangInv
  DEF BootInv, TypeOK, OrderOfSteps, LeavesCleanBoard, FuseRead, Running,
      Ps7Init, At, Succeed, Goto, board
<1>3. CASE DDRInitCheck
  BY <1>3, SucceedInv, EarlyHangInv
  DEF BootInv, TypeOK, OrderOfSteps, LeavesCleanBoard, FuseRead, Running,
      DDRInitCheck, At, Succeed, Goto, board
<1>4. CASE InitPcap(p)
  BY <1>4, SucceedInv, EarlyHangInv
  DEF BootInv, TypeOK, OrderOfSteps, LeavesCleanBoard, FuseRead, Running,
      InitPcap, At, Succeed, Goto, board
<1>5. CASE CheckWDTReset(p)
  BY <1>5, SucceedInv
  DEF BootInv, TypeOK, OrderOfSteps, LeavesCleanBoard, FuseRead, Running,
      CheckWDTReset, At, Succeed, Goto, board
<1>6. CASE InitWatchDog(p)
  <2>1. CASE Fails
    BY <1>6, <2>1, FailsInv DEF InitWatchDog, At, Running
  <2>2. CASE Succeed("fuse") /\ wdt' = TRUE /\ UNCHANGED <<known, mark, reason>>
    BY <1>6, <2>2, SucceedInv
    DEF BootInv, TypeOK, OrderOfSteps, LeavesCleanBoard, FuseRead, Running,
      InitWatchDog, At, Succeed, Goto, board
  <2>3. QED
    BY <1>6, <2>1, <2>2 DEF InitWatchDog
<1>7. CASE ReadFuseAndMark(p)
  BY <1>7, SucceedInv
  DEF BootInv, TypeOK, OrderOfSteps, LeavesCleanBoard, FuseRead, Running,
      ReadFuseAndMark, At, Succeed, Goto, board, MarkFSBLIn, FSBL_IN_MASK, FSBL_FAIL_MASK
<1>8. QED
  BY <1>1, <1>2, <1>3, <1>4, <1>5, <1>6, <1>7

\* The boot mode: a device, JTAG, or a strap that means nothing.
LEMMA ModeInv ==
  ASSUME BootInv, NEW p, NEW mode,
         InitDevice \/ IllegalMode \/ JtagMode(p, mode)
  PROVE  BootInv'
<1>1. CASE InitDevice
  <2>1. CASE Fails
    BY <1>1, <2>1, FailsInv DEF InitDevice, At, Running
  <2>2. CASE ~Fails
    <3>1. /\ pc = "mode" /\ Succeed("load") /\ known' = known \cup {"system"}
          /\ UNCHANGED <<mark, reason, wdt>>
      BY <1>1, <2>2 DEF InitDevice, At
    <3>2. pc' = "load" /\ UNCHANGED <<aes, ocm>>
      BY <3>1 DEF Succeed, Goto, board
    <3>3. OrderOfSteps' /\ LeavesCleanBoard'
      BY <3>1, <3>2 DEF BootInv, OrderOfSteps, LeavesCleanBoard, FuseRead
    <3>4. QED
      BY <3>1, <3>3, SucceedInv DEF BootInv, TypeOK, Running
  <2>3. QED
    BY <2>1, <2>2
<1>2. CASE IllegalMode
  BY <1>2, FallbackInv
  DEF IllegalMode, FsblFallback, FallbackSupported, At, Running
<1>3. CASE JtagMode(p, mode)
  BY <1>3, SucceedInv
  DEF BootInv, TypeOK, OrderOfSteps, LeavesCleanBoard, FuseRead, Running,
      JtagMode, At, Succeed, Goto, board, ClearFSBLIn
<1>4. QED
  BY <1>1, <1>2, <1>3

\* From the load to the handoff, the hook between them included.
LEMMA LoadInv ==
  ASSUME BootInv, LoadBootImage \/ FsblHandoff \/ HookNext
  PROVE  BootInv'
<1>1. CASE LoadBootImage \/ ReadIdCode
  <2>1. CASE Fails
    BY <1>1, <2>1, FailsInv DEF LoadBootImage, ReadIdCode, Running
  <2>2. CASE Fault /\ HookFallback /\ UNCHANGED <<board, registers, wdt, ocm, failed>>
    BY <2>2, HangInv DEF HookFallback, registers
  <2>3. CASE \E step \in {"idcode", "mac"} :
               Succeed(step) /\ UNCHANGED <<known, mark, reason, wdt>>
    BY <1>1, <2>3, PlainStepInv DEF LoadBootImage, ReadIdCode, Running
  <2>4. QED
    BY <1>1, <2>1, <2>2, <2>3 DEF LoadBootImage, ReadIdCode
<1>2. CASE FsblHandoff
  BY <1>2, SucceedInv
  DEF BootInv, TypeOK, OrderOfSteps, LeavesCleanBoard, FuseRead, Running,
      FsblHandoff, Succeed, Goto, board, ClearFSBLIn
<1>3. CASE ReadMac
  <2>1. CASE Fails
    BY <1>3, <2>1, FailsInv DEF ReadMac, Running
  <2>2. CASE ~Fails
    BY <1>3, <2>2, PlainStepInv DEF ReadMac, Running
  <2>3. QED
    BY <2>1, <2>2
<1>4. CASE WriteEnv
  <2>1. CASE Fault
    BY <1>4, <2>1, FallbackInv DEF WriteEnv, Running, Goto, NoFault, Fault
  <2>2. CASE ~Fault
    <3>1. /\ Goto("phy") /\ NoFault /\ ocm' = {"magic", "ethaddr"}
          /\ UNCHANGED <<board, registers, known, wdt, failed>>
      BY <1>4, <2>2 DEF WriteEnv
    <3>2. TypeOK'
      BY <3>1 DEF BootInv, TypeOK, Goto, NoFault, board, registers, Running
    <3>3. LeavesCleanBoard' /\ PointerPassedFailures' /\ OrderOfSteps'
      BY <1>4, <3>1
      DEF BootInv, LeavesCleanBoard, PointerPassedFailures, OrderOfSteps, FuseRead,
          FallbackSupported, Running, WriteEnv, Goto, board, registers
    <3>4. QED
      BY <3>2, <3>3 DEF BootInv
  <2>3. QED
    BY <2>1, <2>2
<1>5. CASE ConfigurePhy
  <2>1. CASE Fails
    BY <1>5, <2>1, FailsInv DEF ConfigurePhy, Running
  <2>2. CASE ~Fails
    BY <1>5, <2>2, PlainStepInv DEF ConfigurePhy, Running
  <2>3. QED
    BY <2>1, <2>2
<1>6. QED
  BY <1>1, <1>2, <1>3, <1>4, <1>5 DEF HookNext

-----------------------------------------------------------------------------
\* Every step of the board keeps the invariant.
THEOREM BootCorrect == Spec => []BootInv
<1>1. BootInv /\ [Next]_vars => BootInv'
  <2> SUFFICES ASSUME BootInv, [Next]_vars PROVE BootInv'
    OBVIOUS
  <2>1. CASE BootRom
    BY <2>1, BootRomInv
  <2>2. CASE Download
    BY <2>2, DownloadInv
  <2>3. CASE WatchdogExpires
    BY <2>3, WatchdogInv
  <2>4. CASE FsblNext
    BY <2>4, EarlyStepsInv, ModeInv, LoadInv, FailsInv DEF FsblNext, ErrorLockdown
  <2>5. CASE HookNext
    BY <2>5, LoadInv
  <2>6. CASE JtagNext
    <3>1. CASE JtagErrorLockdown
      BY <3>1, FailsInv DEF JtagErrorLockdown, JtagFallback, Fails
    <3>2. CASE ~JtagErrorLockdown
      BY <2>6, <3>2, EarlyStepsInv, ModeInv
      DEF JtagNext, JtagPs7Init, JtagInitPcap, JtagCheckWDTReset, JtagInitWatchDog,
          JtagReadFuseAndMark, JtagForcedMode
    <3>3. QED
      BY <3>1, <3>2
  <2>7. CASE UNCHANGED vars
    <3>1. UNCHANGED <<strap, aes, first_silicon, flash, program, pc, known, image,
                      multiboot, mark, reason, wdt, ocm, faults, failed>>
      BY <2>7 DEF vars, board, run, registers
    <3>2. TypeOK'
      BY <3>1 DEF BootInv, TypeOK
    <3>3. LeavesCleanBoard' /\ PointerPassedFailures' /\ OrderOfSteps'
      BY <3>1 DEF BootInv, LeavesCleanBoard, PointerPassedFailures, OrderOfSteps,
                  FuseRead, FallbackSupported
    <3>4. QED
      BY <3>2, <3>3 DEF BootInv
  <2>8. QED
    BY <2>1, <2>2, <2>3, <2>4, <2>5, <2>6, <2>7 DEF Next
<1>2. QED
  BY InitInv, <1>1, PTL DEF Spec

\* However many faults, fallbacks and watchdog resets there were: the board
\* that is left to U-Boot or to a debugger is clean, and U-Boot has its address.
THEOREM CleanBoard == Spec => []LeavesCleanBoard
<1>1. BootInv => LeavesCleanBoard
  BY DEF BootInv
<1>2. QED
  BY BootCorrect, <1>1, PTL

\* For a flash of any size and content, a slot whose image ended in a fallback
\* is never run again: the pointer has passed it.
THEOREM NotRerun == Spec => []FailedImageNotRerun
<1>1. BootInv => FailedImageNotRerun
  <2> SUFFICES ASSUME BootInv, pc \in Running, image \in failed PROVE FALSE
    BY DEF FailedImageNotRerun
  <2>1. image \in 0..Slots - 1 /\ image < multiboot
    BY DEF BootInv, TypeOK, PointerPassedFailures
  <2>2. FallbackSupported /\ image # Downloaded
    BY <2>1, SlotsAssumption DEF BootInv, PointerPassedFailures, Downloaded
  <2>3. image = multiboot
    BY <2>2 DEF BootInv, PointerPassedFailures
  <2>4. QED
    BY <2>1, <2>3
<1>2. QED
  BY BootCorrect, <1>1, PTL

\* A board that has read its blown e-fuse is not reset again in that run: the
\* fallback searches the flash itself, and the watchdog is already stopped.
THEOREM FuseForbids == Spec => FuseForbidsReset
<1>1. BootInv /\ [Next]_vars => [FuseRead => pc' # "rom"]_vars
  <2> SUFFICES ASSUME BootInv, Next, FuseRead PROVE pc' # "rom"
    OBVIOUS
  <2>1. ~wdt
    BY DEF BootInv, OrderOfSteps
  <2>2. CASE FsblFallback
    BY <2>2 DEF FsblFallback, FallbackUnsupported, FallbackReset, FallbackSearch,
                FallbackGivesUp, HookFallback, Goto
  <2>3. CASE ~FsblFallback
    BY <2>1, <2>3
    DEF Next, BootRom, Download, WatchdogExpires, FsblNext, HookNext, JtagNext,
        Ps7Init, DDRInitCheck, InitPcap, CheckWDTReset, InitWatchDog,
        ReadFuseAndMark, InitDevice, IllegalMode, JtagMode, LoadBootImage,
        FsblHandoff, ErrorLockdown, ReadIdCode, ReadMac, WriteEnv, ConfigurePhy,
        JtagPs7Init, JtagInitPcap, JtagCheckWDTReset, JtagInitWatchDog,
        JtagReadFuseAndMark, JtagForcedMode, JtagErrorLockdown, JtagFallback,
        Fails, Succeed, Goto, HookFallback,
        FallbackUnsupported, FallbackReset, FallbackSearch, FallbackGivesUp
  <2>4. QED
    BY <2>2, <2>3
<1>2. QED
  BY BootCorrect, <1>1, PTL DEF Spec, FuseForbidsReset
=============================================================================
