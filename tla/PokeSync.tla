----------------------------- MODULE PokeSync ------------------------------
(***************************************************************************)
(* One poke channel of the ATC bridge: the poke register of atc_registers  *)
(* and the software that writes it, update_request in the system clock     *)
(* domain, poke_sync around update_reply in the detector clock domain, and *)
(* the busy bit of the STATUS register the software polls.                 *)
(***************************************************************************)
EXTENDS UpdateHandshake

CONSTANTS
  Mask,      \* the masks software writes with a poke
  NoMask,    \* the all-zero mask of a reset or idle output
  WriteGap   \* system clock edges between two writes of one AXI-Lite master

ASSUME MaskAssumption     == Mask # {}
ASSUME NoMaskAssumption   == NoMask \notin Mask
ASSUME WriteGapAssumption == WriteGap \in Nat /\ WriteGap >= 3

VARIABLES
  polling,       \* the software: TRUE if it reads STATUS idle before it writes
  since,         \* edges since the last write, saturating at WriteGap
  poke, mask,    \* atc_registers: POKE_C_O and MASK_C_O
  status,        \* atc_bridge: the busy bit as STATUS_O shows it
  payload_sync,  \* poke_sync: sampled payload
  update,        \* poke_sync: POKE_O
  payload,       \* poke_sync: PAYLOAD_O
  update_z, done \* poke_sync: delay line from the poke to DONE_I

sysVars == <<polling, since, poke, mask, status>>
detVars == <<payload_sync, update, payload, update_z, done>>
vars == <<resetVars, requestVars, replyVars, sysVars, detVars>>

Masks == Mask \cup {NoMask}

TypeOK ==
  /\ HandshakeTypeOK
  /\ polling \in BOOLEAN /\ since \in 0..WriteGap
  /\ poke \in Bit /\ mask \in Masks /\ status \in Bit
  /\ payload_sync \in Masks /\ payload \in Masks
  /\ update \in Bit /\ update_z \in Bit /\ done \in Bit

\* update_z has no reset value: power-up leaves it at either level.
Init ==
  /\ InReset /\ RequestCleared /\ ReplyCleared
  /\ polling \in BOOLEAN
  /\ since = WriteGap /\ poke = 0 /\ mask = NoMask /\ status = 0
  /\ payload_sync = NoMask /\ update = 0 /\ payload = NoMask
  /\ update_z \in Bit /\ done = 0

-----------------------------------------------------------------------------
(***************************************************************************)
(* The system clock domain.                                                *)
(***************************************************************************)
\* A bug to test against: software does not wait for the channel to be idle.
WritesAnyTime == since = WriteGap

MayWrite == since = WriteGap /\ (polling => status = 0)

RegisterWrite(m) ==
  /\ MayWrite
  /\ poke' = 1 /\ mask' = m /\ since' = 1

NoRegisterWrite ==
  /\ poke' = 0 /\ mask' = mask
  /\ since' = IF since < WriteGap THEN since + 1 ELSE since

SysEdge(replyA) ==
  /\ sys_rst = 0
  /\ (\E m \in Mask : RegisterWrite(m)) \/ NoRegisterWrite
  /\ RequestEdge(poke, replyA)
  /\ status' = busy
  /\ polling' = polling

(***************************************************************************)
(* The detector clock domain.                                              *)
(***************************************************************************)
\* A bug to test against: the payload is shown one cycle after the pulse.
PokeEdgeLatePayload(payloadA) ==
  /\ payload_sync' = payloadA
  /\ done' = update_z
  /\ update_z' = update
  /\ update' = IF UpdateComb THEN 1 ELSE 0
  /\ payload' = IF update = 1 THEN payload_sync ELSE NoMask

PokeEdge(payloadA) ==
  /\ payload_sync' = payloadA
  /\ done' = update_z
  /\ update_z' = update
  /\ update' = IF UpdateComb THEN 1 ELSE 0
  /\ payload' = IF UpdateComb THEN payload_sync ELSE NoMask

\* A bug to test against: DONE_I is the pulse itself, not its delayed copy.
DetEdgeEarlyDone(requestA, payloadA) ==
  /\ RstSyncEdge
  /\ IF rst_sync2 = 1
       THEN UNCHANGED <<replyVars, detVars>>
       ELSE ReplyEdge(update, requestA) /\ PokeEdge(payloadA)

DetEdge(requestA, payloadA) ==
  /\ RstSyncEdge
  /\ IF rst_sync2 = 1
       THEN UNCHANGED <<replyVars, detVars>>
       ELSE ReplyEdge(done, requestA) /\ PokeEdge(payloadA)

(***************************************************************************)
(* Steps: an edge of either clock, of both at once (each sampled level is  *)
(* then the old or the new one, and a changing mask may be torn into any   *)
(* mask), and reset.                                                       *)
(***************************************************************************)
SysTick ==
  /\ SysEdge(reply)
  /\ UNCHANGED <<resetVars, replyVars, detVars>>

DetTick ==
  /\ DetEdge(request, mask)
  /\ UNCHANGED <<requestVars, sysVars>>

BothTick ==
  \E replyA \in Bit, requestA \in Bit, payloadA \in Masks :
    /\ SysEdge(replyA)
    /\ DetEdge(requestA, payloadA)
    /\ replyA \in {reply, reply'}
    /\ requestA \in {request, request'}
    /\ mask' = mask => payloadA = mask

Reset ==
  /\ AssertReset
  /\ polling' = polling
  /\ since' = WriteGap /\ poke' = 0 /\ mask' = NoMask /\ status' = 0
  /\ payload_sync' = NoMask /\ update' = 0 /\ payload' = NoMask
  /\ done' = 0 /\ update_z' = update_z

Release ==
  /\ ReleaseReset
  /\ UNCHANGED <<requestVars, replyVars, sysVars, detVars>>

Next == SysTick \/ DetTick \/ BothTick \/ Reset \/ Release

Spec == Init /\ [][Next]_vars

\* Both clocks run for ever and a reset does not last.
Fairness ==
  /\ WF_vars(SysTick \/ BothTick)
  /\ WF_vars(DetTick \/ BothTick)
  /\ WF_vars(Release)

FairSpec == Spec /\ Fairness

-----------------------------------------------------------------------------
(***************************************************************************)
(* The inductive invariant, in named parts.                                *)
(***************************************************************************)
\* The delay line from the pulse to DONE_I holds the one pulse being
\* answered.  After a reset a level left in update_z may still drain through
\* it, but leaves before the first request can be seen (poke_sync, update_z
\* is not cleared).
DelayLine ==
  /\ waiting = 1 => update + update_z + done = 1
  /\ waiting = 0 =>
       /\ update = 0
       /\ update_z = 1 => request_meta = request_prev
       /\ update_z = 1 \/ done = 1 =>
            /\ request_sync = request_prev
            /\ reply_meta = reply /\ reply_sync = reply /\ reply_prev = reply

ResetState ==
  /\ sys_rst = 1 => RequestCleared /\ poke = 0 /\ rst_sync1 = 1 /\ rst_sync2 = 1
  /\ rst_sync1 = 1 => rst_sync2 = 1
  /\ rst_sync2 = 1 => ReplyCleared /\ update = 0 /\ done = 0

HandshakeInv ==
  OneChangeInFlight /\ WaitingIsUnanswered /\ DelayLine /\ ResetState

\* Polling software never writes the poke register under a request.
PollingOrder ==
  /\ poke = 1 => busy = 0 /\ since = 1 /\ mask \in Mask
  /\ busy = 1 => mask \in Mask
  /\ busy = 1 /\ status = 0 => since = 2

\* The payload is sampled after the request it belongs to.
PayloadInv ==
  /\ request_meta # request_prev \/ request_sync # request_prev => payload_sync = mask
  /\ update = 1 => payload = mask
  /\ update = 0 => payload = NoMask

IInv == TypeOK /\ HandshakeInv /\ (polling => PollingOrder /\ PayloadInv)

-----------------------------------------------------------------------------
(***************************************************************************)
(* Properties.                                                             *)
(***************************************************************************)

\* A pulse in the detector domain shows the mask of the write that asked for
\* it, although the mask crosses without a handshake of its own (poke_sync,
\* payload0 and pulse0).
PokeCarriesItsMask == polling /\ update = 1 => payload = mask /\ mask \in Mask

\* A write by software that polls STATUS is never dropped by a busy
\* update_request, although STATUS shows busy two edges after the write
\* (send_poke_c after wait_atc_busy; atc_bridge's STATUS_O register).
PollingNeverDropped == polling => ~(poke = 1 /\ busy = 1)

\* poke_sync's header: the answer is held back until registers that follow
\* the pulse have been stable for one cycle by the time busy falls.
StableThenAcknowledge ==
  [][busy = 1 /\ busy' = 0 /\ sys_rst' = 0
       => update = 0 /\ update_z = 0 /\ waiting = 0]_vars

\* The channel implements PokeChannel, whatever the software: each accepted
\* write appears exactly once and busy covers it.  Software that polls finds
\* its own mask in the pulse; for software that does not, the mask may be
\* replaced under way and any pulse will do.
NotYetSeen == request # request_prev
phaseMap ==
  CASE busy = 0                -> "idle"
    [] busy = 1 /\ NotYetSeen  -> "sent"
    [] busy = 1 /\ ~NotYetSeen -> "delivered"

AnyMask == CHOOSE m \in Mask : TRUE
Carried == IF polling THEN mask ELSE AnyMask
Shown   == IF polling THEN payload ELSE IF update = 1 THEN AnyMask ELSE NoMask

Channel == INSTANCE PokeChannel WITH
  Msg <- Mask, NoMsg <- NoMask, phase <- phaseMap,
  msg <- IF phaseMap = "sent" THEN Carried ELSE NoMask,
  pulse <- Shown

ImplementsChannel == Channel!Spec

=============================================================================
