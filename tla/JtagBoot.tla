------------------------------ MODULE JtagBoot ------------------------------
(***************************************************************************)
(* The loader of jtag_boot, downloaded by a debugger whatever the straps   *)
(* say.  It is the same program with two changes: DDRInitCheck is left     *)
(* out, and the boot mode it read is replaced by JTAG_MODE.  FsblFallback  *)
(* still reads the straps.                                                 *)
(***************************************************************************)
EXTENDS Fsbl

JtagPs7Init == Ps7Init("jtag", "pcap")
JtagInitPcap == InitPcap("jtag")
JtagCheckWDTReset == CheckWDTReset("jtag")
JtagInitWatchDog == InitWatchDog("jtag")
JtagReadFuseAndMark == ReadFuseAndMark("jtag")
JtagForcedMode == JtagMode("jtag", "JTAG")
JtagFallback == program = "jtag" /\ FsblFallback
JtagErrorLockdown == pc \in Running /\ Fault /\ JtagFallback

JtagNext ==
  \/ JtagPs7Init \/ JtagInitPcap \/ JtagCheckWDTReset \/ JtagInitWatchDog
  \/ JtagReadFuseAndMark \/ JtagForcedMode \/ JtagErrorLockdown
============================================================================
