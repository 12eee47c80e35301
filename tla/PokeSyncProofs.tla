--------------------------- MODULE PokeSyncProofs ---------------------------
(***************************************************************************)
(* IInv is an inductive invariant of PokeSync for every set of masks,      *)
(* every WriteGap of at least 3 and both kinds of software, and the safety *)
(* properties of the channel follow from it.                               *)
(***************************************************************************)
EXTENDS PokeSync, TLAPS

\* The registers start as a reset has left them.
LEMMA InitIInv == Init => IInv
<1> SUFFICES ASSUME Init PROVE IInv
  OBVIOUS
<1> USE DEF Init, InReset, RequestCleared, ReplyCleared
<1>1. TypeOK
  BY WriteGapAssumption DEF TypeOK, HandshakeTypeOK, Bit, Masks
<1>2. HandshakeInv
  BY DEF HandshakeInv, OneChangeInFlight, InFlight, WaitingIsUnanswered,
         Boundary, DelayLine, ResetState, Bit
<1>3. PollingOrder /\ PayloadInv
  BY DEF PollingOrder, PayloadInv
<1>4. QED
  BY <1>1, <1>2, <1>3 DEF IInv

\* An edge of the system clock: a register write, a request or its answer.
LEMMA SysTickIInv == IInv /\ SysTick => IInv'
<1> SUFFICES ASSUME IInv, SysTick PROVE IInv'
  OBVIOUS
<1> USE DEF SysTick, resetVars, replyVars, detVars, SysEdge, RequestEdge, Accepts,
           Answered, RegisterWrite, NoRegisterWrite
<1> USE WriteGapAssumption
  DEF IInv, TypeOK, HandshakeTypeOK, Bit, Not, Masks, HandshakeInv,
      OneChangeInFlight, InFlight, Boundary, WaitingIsUnanswered, DelayLine,
      ResetState, RequestCleared, ReplyCleared
<1>1. TypeOK'
  OBVIOUS
<1>2. OneChangeInFlight'
  OBVIOUS
<1>3. WaitingIsUnanswered'
  OBVIOUS
<1>4. DelayLine'
  OBVIOUS
<1>5. ResetState'
  OBVIOUS
<1>6. polling' => PollingOrder'
  BY DEF PollingOrder, MayWrite
<1>7. polling' => PayloadInv'
  BY DEF PollingOrder, PayloadInv, MayWrite
<1>8. QED
  BY <1>1, <1>2, <1>3, <1>4, <1>5, <1>6, <1>7

\* An edge of the detector clock: the reply and the pulse.
LEMMA DetTickIInv == IInv /\ DetTick => IInv'
<1> SUFFICES ASSUME IInv, DetTick PROVE IInv'
  OBVIOUS
<1> USE DEF DetTick, requestVars, sysVars, replyVars, detVars, DetEdge, RstSyncEdge,
           ReplyEdge, UpdateComb, PokeEdge
<1> USE WriteGapAssumption
  DEF IInv, TypeOK, HandshakeTypeOK, Bit, Not, Masks, HandshakeInv,
      OneChangeInFlight, InFlight, Boundary, WaitingIsUnanswered, DelayLine,
      ResetState, RequestCleared, ReplyCleared
<1>1. TypeOK'
  OBVIOUS
<1>2. OneChangeInFlight'
  OBVIOUS
<1>3. WaitingIsUnanswered'
  OBVIOUS
<1>4. DelayLine'
  OBVIOUS
<1>5. ResetState'
  OBVIOUS
<1>6. polling' => PollingOrder'
  BY DEF PollingOrder, MayWrite
<1>7. polling' => PayloadInv'
  BY DEF PollingOrder, PayloadInv, MayWrite
<1>8. QED
  BY <1>1, <1>2, <1>3, <1>4, <1>5, <1>6, <1>7

\* Both clocks at once, where the sampling flops take the old or the new level.
LEMMA BothTickIInv == IInv /\ BothTick => IInv'
<1> SUFFICES ASSUME IInv, BothTick PROVE IInv'
  OBVIOUS
<1> USE DEF BothTick, replyVars, detVars
<1> USE WriteGapAssumption
  DEF IInv, TypeOK, HandshakeTypeOK, Bit, Not, Masks, HandshakeInv,
      OneChangeInFlight, InFlight, Boundary, WaitingIsUnanswered, DelayLine,
      ResetState, RequestCleared, ReplyCleared
<1>1. TypeOK'
  BY DEF SysEdge, RequestEdge, Accepts, Answered, RegisterWrite, NoRegisterWrite,
         DetEdge, RstSyncEdge, ReplyEdge, UpdateComb, PokeEdge
<1>2. OneChangeInFlight'
  <2>1. PICK replyA \in Bit, requestA \in Bit, payloadA \in Masks :
          /\ SysEdge(replyA) /\ DetEdge(requestA, payloadA)
          /\ replyA \in {reply, reply'} /\ requestA \in {request, request'}
    OBVIOUS
  <2>2. RequestEdge(poke, replyA)
    BY <2>1 DEF SysEdge
  <2>3. CASE rst_sync2 = 1
    BY <2>1, <2>2, <2>3 DEF DetEdge, RequestEdge, Accepts, Answered
  <2>4. CASE rst_sync2 = 0 /\ busy = 0
    <3>1. ReplyEdge(done, requestA)
      BY <2>1, <2>4 DEF DetEdge
    <3>2. reply' = reply /\ request_prev' = request_prev
      BY <2>4, <3>1 DEF ReplyEdge, UpdateComb
    <3>3. QED
      BY <2>1, <2>2, <2>4, <3>1, <3>2 DEF ReplyEdge, UpdateComb, RequestEdge, Accepts, Answered
  <2>5. CASE rst_sync2 = 0 /\ busy = 1
    <3>1. ReplyEdge(done, requestA)
      BY <2>1, <2>5 DEF DetEdge
    <3>2. request' = request
      BY <2>2, <2>5 DEF RequestEdge, Accepts
    <3>3. QED
      BY <2>1, <2>2, <2>5, <3>1, <3>2 DEF ReplyEdge, UpdateComb, RequestEdge, Accepts, Answered
  <2>6. QED
    BY <2>3, <2>4, <2>5
<1>3. WaitingIsUnanswered'
  BY DEF SysEdge, RequestEdge, Accepts, Answered, RegisterWrite, NoRegisterWrite,
         DetEdge, RstSyncEdge, ReplyEdge, UpdateComb, PokeEdge
<1>4. DelayLine'
  BY DEF SysEdge, RequestEdge, Accepts, Answered, RegisterWrite, NoRegisterWrite,
         DetEdge, RstSyncEdge, ReplyEdge, UpdateComb, PokeEdge
<1>5. ResetState'
  BY DEF SysEdge, RequestEdge, Accepts, Answered, RegisterWrite, NoRegisterWrite,
         DetEdge, RstSyncEdge, ReplyEdge, UpdateComb, PokeEdge
<1>6. polling' => PollingOrder'
  BY DEF PollingOrder, MayWrite,
         SysEdge, RequestEdge, Accepts, Answered, RegisterWrite, NoRegisterWrite,
         DetEdge, RstSyncEdge, ReplyEdge, UpdateComb, PokeEdge
<1>7. polling' => PayloadInv'
  BY DEF PollingOrder, PayloadInv, MayWrite,
         SysEdge, RequestEdge, Accepts, Answered, RegisterWrite, NoRegisterWrite,
         DetEdge, RstSyncEdge, ReplyEdge, UpdateComb, PokeEdge
<1>8. QED
  BY <1>1, <1>2, <1>3, <1>4, <1>5, <1>6, <1>7

\* Reset clears both halves in the middle of anything.
LEMMA ResetIInv == IInv /\ Reset => IInv'
<1> SUFFICES ASSUME IInv, Reset PROVE IInv'
  OBVIOUS
<1> USE DEF Reset, AssertReset
<1> USE WriteGapAssumption
  DEF IInv, TypeOK, HandshakeTypeOK, Bit, Not, Masks, HandshakeInv,
      OneChangeInFlight, InFlight, Boundary, WaitingIsUnanswered, DelayLine,
      ResetState, RequestCleared, ReplyCleared
<1>1. TypeOK'
  OBVIOUS
<1>2. OneChangeInFlight'
  OBVIOUS
<1>3. WaitingIsUnanswered'
  OBVIOUS
<1>4. DelayLine'
  OBVIOUS
<1>5. ResetState'
  OBVIOUS
<1>6. polling' => PollingOrder'
  BY DEF PollingOrder, MayWrite
<1>7. polling' => PayloadInv'
  BY DEF PollingOrder, PayloadInv, MayWrite
<1>8. QED
  BY <1>1, <1>2, <1>3, <1>4, <1>5, <1>6, <1>7

\* The reset is released.
LEMMA ReleaseIInv == IInv /\ Release => IInv'
<1> SUFFICES ASSUME IInv, Release PROVE IInv'
  OBVIOUS
<1> USE DEF Release, ReleaseReset, requestVars, replyVars, sysVars, detVars
<1> USE WriteGapAssumption
  DEF IInv, TypeOK, HandshakeTypeOK, Bit, Not, Masks, HandshakeInv,
      OneChangeInFlight, InFlight, Boundary, WaitingIsUnanswered, DelayLine,
      ResetState, RequestCleared, ReplyCleared
<1>1. TypeOK'
  OBVIOUS
<1>2. OneChangeInFlight'
  OBVIOUS
<1>3. WaitingIsUnanswered'
  OBVIOUS
<1>4. DelayLine'
  OBVIOUS
<1>5. ResetState'
  OBVIOUS
<1>6. polling' => PollingOrder'
  BY DEF PollingOrder, MayWrite
<1>7. polling' => PayloadInv'
  BY DEF PollingOrder, PayloadInv, MayWrite
<1>8. QED
  BY <1>1, <1>2, <1>3, <1>4, <1>5, <1>6, <1>7

\* Every step of the channel.
LEMMA StepIInv == IInv /\ [Next]_vars => IInv'
<1> SUFFICES ASSUME IInv, [Next]_vars PROVE IInv'
  OBVIOUS
<1>1. CASE SysTick
  BY <1>1, SysTickIInv
<1>2. CASE DetTick
  BY <1>2, DetTickIInv
<1>3. CASE BothTick
  BY <1>3, BothTickIInv
<1>4. CASE Reset
  BY <1>4, ResetIInv
<1>5. CASE Release
  BY <1>5, ReleaseIInv
<1>6. CASE UNCHANGED vars
  BY <1>6
  DEF vars, resetVars, requestVars, replyVars, sysVars, detVars, IInv, TypeOK,
      HandshakeTypeOK, Bit, Masks, HandshakeInv, OneChangeInFlight, InFlight, Boundary,
      WaitingIsUnanswered, DelayLine, ResetState, RequestCleared, ReplyCleared,
      PollingOrder, PayloadInv
<1>7. QED
  BY <1>1, <1>2, <1>3, <1>4, <1>5, <1>6 DEF Next

\* The handshake never has two changes of level under way, never waits for
\* an answer that is not coming, and its delay line holds one pulse at most:
\* update_request, update_reply and poke_sync, under every interleaving of
\* the two clocks and of resets.
THEOREM InductiveInvariant == Spec => []IInv
<1>1. Init => IInv
  BY InitIInv
<1>2. IInv /\ [Next]_vars => IInv'
  BY StepIInv
<1>3. QED
  BY <1>1, <1>2, PTL DEF Spec

\* Type correctness of the registers of both domains.
THEOREM TypeCorrect == Spec => []TypeOK
<1>1. IInv => TypeOK
  BY DEF IInv
<1>2. QED
  BY <1>1, InductiveInvariant, PTL

\* The handshake part of the invariant, for software of either kind.
THEOREM HandshakeCorrect == Spec => []HandshakeInv
<1>1. IInv => HandshakeInv
  BY DEF IInv
<1>2. QED
  BY <1>1, InductiveInvariant, PTL

\* A pulse in the detector domain carries the mask of its own write.
THEOREM PokeCarries == Spec => []PokeCarriesItsMask
<1>1. IInv => PokeCarriesItsMask
  <2> SUFFICES ASSUME IInv, polling, update = 1 PROVE payload = mask /\ mask \in Mask
    BY DEF PokeCarriesItsMask
  <2>1. payload = mask
    BY DEF IInv, PayloadInv
  <2>2. waiting = 1 /\ busy = 1
    BY DEF IInv, TypeOK, HandshakeTypeOK, Bit, HandshakeInv, DelayLine,
           OneChangeInFlight, InFlight, WaitingIsUnanswered, Boundary
  <2>3. QED
    BY <2>1, <2>2 DEF IInv, PollingOrder
<1>2. QED
  BY <1>1, InductiveInvariant, PTL

\* A write by polling software meets an idle update_request.
THEOREM NeverDropped == Spec => []PollingNeverDropped
<1>1. IInv => PollingNeverDropped
  BY DEF IInv, PollingOrder, PollingNeverDropped
<1>2. QED
  BY <1>1, InductiveInvariant, PTL

\* busy falls only over a quiet detector domain: nothing waits, and the
\* pulse left the delay line a cycle before the answer was sent.
THEOREM AcknowledgedAfterStable == Spec => StableThenAcknowledge
<1>1. IInv /\ [Next]_vars =>
        [busy = 1 /\ busy' = 0 /\ sys_rst' = 0
           => update = 0 /\ update_z = 0 /\ waiting = 0]_vars
  <2> SUFFICES ASSUME IInv, Next, busy = 1, busy' = 0, sys_rst' = 0
               PROVE  update = 0 /\ update_z = 0 /\ waiting = 0
    OBVIOUS
  <2>1. Answered
    BY DEF Next, SysTick, DetTick, BothTick, Reset, Release, AssertReset, ReleaseReset,
           SysEdge, RequestEdge, Accepts, requestVars
  <2>2. waiting = 0 /\ request_meta = request_prev /\ request = request_meta
    BY <2>1 DEF Answered, IInv, TypeOK, HandshakeTypeOK, Bit, HandshakeInv,
                OneChangeInFlight, InFlight, WaitingIsUnanswered, Boundary
  <2>3. QED
    BY <2>1, <2>2 DEF Answered, IInv, TypeOK, HandshakeTypeOK, Bit, HandshakeInv, DelayLine
<1>2. QED
  BY <1>1, InductiveInvariant, PTL DEF Spec, StableThenAcknowledge

-----------------------------------------------------------------------------
(***************************************************************************)
(* PokeSync implements PokeChannel.  What each clock edge does to the      *)
(* abstract channel is stated first, then the steps are matched.           *)
(***************************************************************************)

\* There is a mask.
LEMMA AnyMaskInMask == AnyMask \in Mask
  BY MaskAssumption DEF AnyMask

\* An idle bridge has nothing in the detector domain.
LEMMA IdleIsQuiet ==
  ASSUME IInv, busy = 0
  PROVE  ~NotYetSeen /\ ~UpdateComb /\ Shown = NoMask
<1>1. request = request_meta /\ request_meta = request_sync
      /\ request_sync = request_prev /\ request_prev = reply
  BY DEF IInv, TypeOK, HandshakeTypeOK, Bit, HandshakeInv, OneChangeInFlight, InFlight,
         Boundary
<1>2. update = 0
  BY <1>1 DEF IInv, TypeOK, HandshakeTypeOK, Bit, HandshakeInv, WaitingIsUnanswered,
              Boundary, DelayLine
<1>3. QED
  BY <1>1, <1>2 DEF IInv, PayloadInv, NotYetSeen, UpdateComb, Shown

\* While a request is on its way out nothing is answered and no pulse shows.
LEMMA SentIsQuiet ==
  ASSUME IInv, busy = 1, NotYetSeen
  PROVE  ~Answered /\ Shown = NoMask /\ Carried \in Mask
<1>1. reply_sync = reply_prev /\ request_prev = reply
  BY DEF IInv, TypeOK, HandshakeTypeOK, Bit, HandshakeInv, OneChangeInFlight, InFlight,
         Boundary, NotYetSeen
<1>2. update = 0
  BY <1>1 DEF IInv, TypeOK, HandshakeTypeOK, Bit, HandshakeInv, WaitingIsUnanswered,
              Boundary, DelayLine
<1>3. Shown = NoMask
  BY <1>2 DEF IInv, PayloadInv, Shown
<1>4. Carried \in Mask
  BY AnyMaskInMask DEF IInv, PollingOrder, Carried
<1>5. QED
  BY <1>1, <1>3, <1>4 DEF Answered

\* When an answer arrives the pulse is over.
LEMMA AnsweredIsQuiet ==
  ASSUME IInv, Answered
  PROVE  Shown = NoMask
<1>1. update = 0
  BY DEF Answered, IInv, TypeOK, HandshakeTypeOK, Bit, HandshakeInv,
         OneChangeInFlight, InFlight, WaitingIsUnanswered, Boundary, DelayLine
<1>2. QED
  BY <1>1 DEF IInv, PayloadInv, Shown

\* An edge of the system clock either accepts, or clears busy after the
\* pulse, or leaves busy and what a busy channel carries alone.
LEMMA SysEdgeEffect ==
  ASSUME IInv, NEW replyA, SysEdge(replyA)
  PROVE  \/ busy = 0 /\ busy' = 1 /\ request' # request /\ request' \in Bit
            /\ Carried' = Carried /\ Carried \in Mask
         \/ busy = 0 /\ busy' = 0 /\ request' = request
         \/ busy = 1 /\ busy' = 0 /\ Answered /\ request' = request
         \/ busy = 1 /\ busy' = 1 /\ ~Answered /\ request' = request
            /\ Carried' = Carried
<1> USE WriteGapAssumption
    DEF IInv, TypeOK, HandshakeTypeOK, Bit, PollingOrder, SysEdge, RequestEdge, Accepts,
        RegisterWrite, NoRegisterWrite, MayWrite, Not
<1>1. busy = 0 => ~Answered
  BY DEF HandshakeInv, OneChangeInFlight, InFlight, Boundary, Answered
<1>2. polling /\ (busy = 1 \/ poke = 1) => mask' = mask
  OBVIOUS
<1>3. busy = 1 \/ poke = 1 => Carried' = Carried
  <2>1. CASE polling
    BY <1>2, <2>1 DEF Carried
  <2>2. CASE ~polling
    BY <2>2 DEF Carried, AnyMask
  <2>3. QED
    BY <2>1, <2>2
<1>4. poke = 1 => Carried \in Mask
  BY AnyMaskInMask DEF Carried
<1>5. QED
  BY <1>1, <1>3, <1>4

\* An edge of the detector clock either shows the pulse of the request that
\* has arrived, or moves request_prev not at all and shows no new pulse.
LEMMA DetEdgeEffect ==
  ASSUME IInv, NEW requestA, NEW payloadA, DetEdge(requestA, payloadA),
         polling' = polling
  PROVE  \/ /\ UpdateComb /\ busy = 1 /\ NotYetSeen
            /\ request_prev' = request /\ Shown' = Carried
         \/ request_prev' = request_prev /\ Shown' \in {Shown, NoMask}
<1>1. CASE rst_sync2 = 1
  BY <1>1 DEF DetEdge, replyVars, detVars, Shown, AnyMask
<1>2. CASE rst_sync2 # 1 /\ ~UpdateComb
  BY <1>2 DEF DetEdge, ReplyEdge, PokeEdge, UpdateComb, Shown
<1>3. CASE rst_sync2 # 1 /\ UpdateComb
  <2>1. request = request_sync /\ busy = 1
    BY <1>3 DEF UpdateComb, IInv, TypeOK, HandshakeTypeOK, Bit, HandshakeInv,
                OneChangeInFlight, InFlight, Boundary
  <2>2. request_prev' = request_sync /\ payload' = payload_sync /\ update' = 1
    BY <1>3 DEF DetEdge, ReplyEdge, PokeEdge
  <2>3. polling => payload_sync = mask
    BY <1>3 DEF UpdateComb, IInv, PayloadInv
  <2>4. Shown' = Carried
    BY <2>2, <2>3 DEF Shown, Carried, AnyMask
  <2>5. QED
    BY <1>3, <2>1, <2>2, <2>4 DEF UpdateComb, NotYetSeen
<1>4. QED
  BY <1>1, <1>2, <1>3

\* The channel starts idle.
LEMMA ChannelInit == Init => Channel!Init
  BY DEF Init, RequestCleared, ReplyCleared, Channel!Init, phaseMap, NotYetSeen, Shown

\* Every step of the bridge is a step or a stutter of the abstract channel.
LEMMA ChannelStep ==
  ASSUME IInv, [Next]_vars
  PROVE  [Channel!Next]_Channel!vars
<1> USE DEF Channel!Next, Channel!vars
<1>0. busy \in Bit /\ NoMask \notin Mask
  BY NoMaskAssumption DEF IInv, TypeOK, HandshakeTypeOK
<1>1. phaseMap = IF busy = 0 THEN "idle" ELSE IF NotYetSeen THEN "sent" ELSE "delivered"
  BY <1>0 DEF phaseMap, Bit
<1>2. busy' \in Bit /\
      phaseMap' = IF busy' = 0 THEN "idle"
                  ELSE IF NotYetSeen' THEN "sent" ELSE "delivered"
  BY StepIInv DEF IInv, TypeOK, HandshakeTypeOK, phaseMap, Bit
<1>3. CASE SysTick
  <2>1. SysEdge(reply) /\ Shown' = Shown /\ request_prev' = request_prev
    BY <1>3 DEF SysTick, SysEdge, detVars, replyVars, Shown, AnyMask
  <2>2. CASE busy = 0 /\ busy' = 1
    <3>1. phaseMap = "idle" /\ phaseMap' = "sent" /\ Carried' = Carried /\ Carried \in Mask
      BY <1>1, <1>2, <2>1, <2>2, SysEdgeEffect, IdleIsQuiet DEF NotYetSeen
    <3>2. Channel!Accept(Carried)
      BY <2>1, <3>1 DEF Channel!Accept
    <3>3. QED
      BY <3>1, <3>2
  <2>3. CASE busy = 0 /\ busy' = 0
    BY <1>1, <1>2, <2>1, <2>3
  <2>4. CASE busy = 1 /\ busy' = 0
    <3>1. Answered /\ ~NotYetSeen
      BY <2>1, <2>4, SysEdgeEffect, SentIsQuiet
    <3>3. Shown = NoMask
      BY <3>1, AnsweredIsQuiet
    <3>4. Channel!Acknowledge
      BY <1>1, <1>2, <2>1, <2>4, <3>1, <3>3 DEF Channel!Acknowledge
    <3>5. QED
      BY <3>4
  <2>5. CASE busy = 1 /\ busy' = 1
    <3>1. request' = request /\ Carried' = Carried
      BY <2>1, <2>5, SysEdgeEffect
    <3>2. phaseMap' = phaseMap
      BY <1>1, <1>2, <2>1, <2>5, <3>1 DEF NotYetSeen
    <3>3. QED
      BY <2>1, <3>1, <3>2
  <2>6. QED
    BY <1>0, <1>2, <2>2, <2>3, <2>4, <2>5 DEF Bit
<1>4. CASE DetTick
  <2>1. DetEdge(request, mask)
    BY <1>4 DEF DetTick
  <2>2. /\ busy' = busy /\ request' = request /\ Carried' = Carried
        /\ polling' = polling
    BY <1>4 DEF DetTick, requestVars, sysVars, Carried, AnyMask
  <2>3. CASE request_prev' = request_prev /\ Shown' \in {Shown, NoMask}
    <3>1. phaseMap' = phaseMap
      BY <1>1, <1>2, <2>2, <2>3 DEF NotYetSeen
    <3>2. CASE Shown' = Shown
      BY <2>2, <3>1, <3>2
    <3>3. CASE Shown' = NoMask /\ Shown # NoMask
      BY <2>2, <3>1, <3>3 DEF Channel!EndPulse
    <3>4. QED
      BY <2>3, <3>2, <3>3
  <2>4. CASE /\ UpdateComb /\ busy = 1 /\ NotYetSeen
             /\ request_prev' = request /\ Shown' = Carried
    <3>1. phaseMap = "sent" /\ phaseMap' = "delivered"
      BY <1>1, <1>2, <2>2, <2>4 DEF NotYetSeen
    <3>2. Channel!Deliver
      BY <2>4, <3>1 DEF Channel!Deliver
    <3>3. QED
      BY <3>2
  <2>5. QED
    BY <2>1, <2>2, <2>3, <2>4, DetEdgeEffect
<1>5. CASE BothTick
  <2>1. PICK replyA, requestA, payloadA :
          SysEdge(replyA) /\ DetEdge(requestA, payloadA) /\ polling' = polling
    BY <1>5 DEF BothTick, SysEdge
  <2>2. CASE busy = 0
    <3>1. request_prev' = request_prev /\ Shown = NoMask /\ Shown' = NoMask
      BY <2>1, <2>2, IdleIsQuiet, DetEdgeEffect
    <3>2. CASE busy' = 0
      BY <1>1, <1>2, <2>2, <3>1, <3>2
    <3>3. CASE busy' = 1
      <4>1. phaseMap = "idle" /\ phaseMap' = "sent" /\ Carried' = Carried /\ Carried \in Mask
        BY <1>1, <1>2, <2>1, <2>2, <3>1, <3>3, SysEdgeEffect, IdleIsQuiet DEF NotYetSeen
      <4>2. Channel!Accept(Carried)
        BY <3>1, <4>1 DEF Channel!Accept
      <4>3. QED
        BY <4>1, <4>2
    <3>4. QED
      BY <1>2, <3>2, <3>3 DEF Bit
  <2>3. CASE busy = 1 /\ busy' = 0
    <3>1. Answered /\ ~NotYetSeen
      BY <2>1, <2>3, SysEdgeEffect, SentIsQuiet
    <3>3. Shown = NoMask
      BY <3>1, AnsweredIsQuiet
    <3>4. Shown' = NoMask
      BY <2>1, <3>1, <3>3, DetEdgeEffect
    <3>5. Channel!Acknowledge
      BY <1>1, <1>2, <2>3, <3>1, <3>3, <3>4 DEF Channel!Acknowledge
    <3>6. QED
      BY <3>5
  <2>4. CASE busy = 1 /\ busy' = 1
    <3>1. request' = request /\ Carried' = Carried
      BY <2>1, <2>4, SysEdgeEffect
    <3>2. CASE request_prev' = request_prev /\ Shown' \in {Shown, NoMask}
      <4>1. phaseMap' = phaseMap
        BY <1>1, <1>2, <2>4, <3>1, <3>2 DEF NotYetSeen
      <4>2. CASE Shown' = Shown
        BY <3>1, <4>1, <4>2
      <4>3. CASE Shown' = NoMask /\ Shown # NoMask
        BY <3>1, <4>1, <4>3 DEF Channel!EndPulse
      <4>4. QED
        BY <3>2, <4>2, <4>3
    <3>3. CASE UpdateComb /\ NotYetSeen /\ request_prev' = request /\ Shown' = Carried
      <4>1. phaseMap = "sent" /\ phaseMap' = "delivered"
        BY <1>1, <1>2, <2>4, <3>1, <3>3 DEF NotYetSeen
      <4>2. Channel!Deliver
        BY <3>3, <4>1 DEF Channel!Deliver
      <4>3. QED
        BY <4>2
    <3>4. QED
      BY <2>1, <3>2, <3>3, DetEdgeEffect
  <2>5. QED
    BY <1>0, <1>2, <2>2, <2>3, <2>4 DEF Bit
<1>6. CASE Reset
  BY <1>1, <1>2, <1>6 DEF Reset, AssertReset, Channel!Reset, Shown
<1>7. CASE Release \/ UNCHANGED vars
  BY <1>1, <1>2, <1>7
  DEF Release, vars, requestVars, replyVars, sysVars, detVars, NotYetSeen, Carried, Shown,
      AnyMask
<1>8. QED
  BY <1>3, <1>4, <1>5, <1>6, <1>7 DEF Next

\* The bridge implements the channel's safety part, whatever its software:
\* every accepted write shows exactly one pulse before busy falls, and with
\* its own mask if the software polls.
THEOREM ImplementsChannelSafety ==
  Spec => Channel!Init /\ [][Channel!Next]_Channel!vars
<1>1. Init => Channel!Init
  BY ChannelInit
<1>2. IInv /\ [Next]_vars => [Channel!Next]_Channel!vars
  BY ChannelStep
<1>3. QED
  BY <1>1, <1>2, InductiveInvariant, PTL DEF Spec

=============================================================================
