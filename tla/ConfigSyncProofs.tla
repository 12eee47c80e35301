-------------------------- MODULE ConfigSyncProofs --------------------------
(***************************************************************************)
(* IInv is an inductive invariant of ConfigSync for every set of fields    *)
(* and values, every WriteGap of at least 3 and both kinds of software;    *)
(* that polling software finds the bridge idle over a whole configuration  *)
(* only follows from it.                                                   *)
(***************************************************************************)
EXTENDS ConfigSync, TLAPS

\* The registers of the handshake are bits.
LEMMA BitTypes ==
  ASSUME TypeOK
  PROVE  /\ sys_rst \in {0, 1} /\ rst_sync1 \in {0, 1} /\ rst_sync2 \in {0, 1}
         /\ busy \in {0, 1} /\ request \in {0, 1}
         /\ reply_meta \in {0, 1} /\ reply_sync \in {0, 1} /\ reply_prev \in {0, 1}
         /\ request_meta \in {0, 1} /\ request_sync \in {0, 1}
         /\ request_prev \in {0, 1} /\ waiting \in {0, 1} /\ reply \in {0, 1}
         /\ done \in {0, 1} /\ copied \in {0, 1}
         /\ config_req \in {0, 1} /\ status \in {0, 1}
BY DEF TypeOK, HandshakeTypeOK, Bit

LEMMA DefaultInConfig == DefaultConfig \in Config
BY DefaultAssumption DEF DefaultConfig, Config

\* The registers start as a reset has left them.
LEMMA InitIInv == Init => IInv
<1> SUFFICES ASSUME Init PROVE IInv
  OBVIOUS
<1> USE DEF Init, InReset, RequestCleared, ReplyCleared
<1>1. TypeOK
  BY WriteGapAssumption, DefaultInConfig DEF TypeOK, HandshakeTypeOK, Bit
<1>2. OneChangeInFlight /\ WaitingIsUnanswered /\ DelayLine /\ ResetState
  BY DEF OneChangeInFlight, InFlight, WaitingIsUnanswered, Boundary, DelayLine, ResetState
<1>3. RegistersHeld /\ SeenIsConfigured
  BY DEF RegistersHeld, SeenIsConfigured, TakesEffect
<1>4. QED
  BY <1>1, <1>2, <1>3 DEF IInv, HandshakeInv

-----------------------------------------------------------------------------
(***************************************************************************)
(* What one edge of either clock does, whatever it samples.                *)
(***************************************************************************)
\* A bridge that is not busy has nothing in the loop; a request that is not
\* yet seen is the one change of level, and the reply side is quiet.
LEMMA LoopFacts ==
  ASSUME IInv
  PROVE  /\ busy = 0 => /\ ~Answered /\ ~UpdateComb /\ request = request_prev
                        /\ waiting = 0
         /\ UpdateComb => /\ busy = 1 /\ ~Answered /\ waiting = 0
                          /\ request_sync = request /\ request # request_prev
         /\ Answered => busy = 1 /\ request = request_prev /\ waiting = 0
<1>1. TypeOK /\ OneChangeInFlight /\ WaitingIsUnanswered
  BY DEF IInv, HandshakeInv
<1>2. QED
  BY <1>1, BitTypes DEF OneChangeInFlight, InFlight, WaitingIsUnanswered, Boundary,
     Answered, UpdateComb

\* An edge of the system clock: a write, a request, an answer, or none.
LEMMA SysFacts ==
  ASSUME IInv, NEW replyA \in Bit, SysEdge(replyA)
  PROVE  /\ busy' \in Bit /\ request' \in Bit /\ reply_meta' \in Bit
         /\ reply_sync' \in Bit /\ reply_prev' \in Bit
         /\ since' \in 0..WriteGap /\ config' \in Config /\ config_req' \in Bit
         /\ status' \in Bit /\ asked' \in Config
         /\ Polling => /\ RegistersHeld'
                       /\ busy = 1 => config' = config /\ asked' = asked
                       /\ busy = 0 /\ busy' = 0 => asked' = asked
<1>1. TypeOK /\ sys_rst = 0 /\ RequestEdge(config_req, replyA) /\ status' = busy
  BY DEF IInv, HandshakeInv, SysEdge
<1>2. /\ busy' \in Bit /\ request' \in Bit /\ reply_meta' \in Bit
      /\ reply_sync' \in Bit /\ reply_prev' \in Bit /\ status' \in Bit
  BY <1>1 DEF RequestEdge, TypeOK, HandshakeTypeOK, Bit, Not
<1>3. /\ since' \in 0..WriteGap /\ config_req' \in Bit
      /\ config' \in Config /\ asked' \in Config
  <2>1. since \in 0..WriteGap /\ config \in Config /\ asked \in Config
    BY <1>1 DEF TypeOK
  <2>2. asked' \in Config
    BY <2>1 DEF SysEdge
  <2>3. CASE \E f \in Field, v \in Value : WriteField(f, v)
    BY <2>1, <2>2, <2>3, WriteGapAssumption DEF WriteField, Config, Bit
  <2>4. CASE WriteRequest \/ NoRegisterWrite
    BY <2>1, <2>2, <2>4, WriteGapAssumption DEF WriteRequest, NoRegisterWrite, Bit
  <2>5. QED
    BY <2>3, <2>4 DEF SysEdge
<1>4. ASSUME Polling
      PROVE  /\ RegistersHeld'
             /\ busy = 1 => config' = config /\ asked' = asked
             /\ busy = 0 /\ busy' = 0 => asked' = asked
  <2>1. /\ busy \in {0, 1} /\ status \in {0, 1} /\ config_req \in {0, 1}
        /\ since \in 0..WriteGap
    BY <1>1, BitTypes DEF TypeOK
  <2>2. RegistersHeld /\ (busy = 0 => ~Answered)
    BY <1>4, LoopFacts DEF IInv
  <2>3. asked' = IF Accepts(config_req) THEN config ELSE asked
    BY DEF SysEdge
  <2>4. CASE MayWrite
    <3>1. since = WriteGap /\ status = 0
      BY <1>4, <2>4 DEF MayWrite
    <3>2. busy = 0 /\ config_req = 0
      BY <2>1, <2>2, <3>1, WriteGapAssumption DEF RegistersHeld
    <3>3. busy' = 0 /\ asked' = asked
      BY <1>1, <2>2, <2>3, <3>2 DEF RequestEdge, Accepts
    <3>4. config_req' = 1 => since' = 1
      BY DEF SysEdge, WriteField, WriteRequest, NoRegisterWrite
    <3>5. QED
      BY <3>2, <3>3, <3>4 DEF RegistersHeld
  <2>5. CASE ~MayWrite
    <3>1. NoRegisterWrite
      BY <2>5 DEF SysEdge, WriteField, WriteRequest
    <3>2. CASE Accepts(config_req)
      <4>1. busy = 0 /\ since = 1 /\ busy' = 1
        BY <1>1, <2>1, <2>2, <3>2 DEF Accepts, RegistersHeld, RequestEdge
      <4>2. since' = 2
        BY <3>1, <4>1, WriteGapAssumption DEF NoRegisterWrite
      <4>3. QED
        BY <2>3, <3>1, <3>2, <4>1, <4>2 DEF RegistersHeld, NoRegisterWrite
    <3>3. CASE ~Accepts(config_req)
      <4>1. busy' = 1 => busy = 1
        BY <1>1, <2>1, <2>2, <3>3 DEF RequestEdge
      <4>2. QED
        BY <1>1, <2>2, <2>3, <3>1, <3>3, <4>1 DEF RegistersHeld, NoRegisterWrite
    <3>4. QED
      BY <3>2, <3>3
  <2>6. QED
    BY <2>4, <2>5
<1>5. QED
  BY <1>2, <1>3, <1>4

\* An edge of the detector clock: its half of the handshake, and the shadow,
\* which moves on the edge that sees a request and on no other.
LEMMA DetFacts ==
  ASSUME IInv, NEW requestA \in Bit, NEW configA \in Config,
         DetEdge(requestA, configA)
  PROVE  /\ request_meta' \in Bit /\ request_sync' \in Bit /\ request_prev' \in Bit
         /\ waiting' \in Bit /\ reply' \in Bit
         /\ shadow' \in Config /\ done' \in Bit /\ copied' \in Bit
         /\ WaitingIsUnanswered' /\ DelayLine'
         /\ \/ /\ UpdateComb /\ request_prev' = request
               /\ \A f \in Field \ {LogicF} : shadow'[f] = configA[f]
            \/ request_prev' = request_prev /\ shadow' = shadow
<1>1. TypeOK /\ WaitingIsUnanswered /\ DelayLine
  BY DEF IInv, HandshakeInv
<1>2. CASE rst_sync2 = 1
  BY <1>1, <1>2
  DEF DetEdge, replyVars, detVars, TypeOK, HandshakeTypeOK, WaitingIsUnanswered,
      Boundary, DelayLine
<1>3. CASE rst_sync2 # 1
  <2>1. ReplyEdge(done, requestA) /\ ShadowEdge(configA)
    BY <1>3 DEF DetEdge
  <2>2. /\ request_meta' \in Bit /\ request_sync' \in Bit /\ request_prev' \in Bit
        /\ waiting' \in Bit /\ reply' \in Bit /\ done' \in Bit /\ copied' \in Bit
    BY <1>1, <2>1 DEF ReplyEdge, ShadowEdge, TypeOK, HandshakeTypeOK, Bit, Not
  <2>3. shadow' \in Config
    BY <1>1, <2>1 DEF ShadowEdge, TypeOK, Config
  <2>4. UpdateComb => waiting = 0
    BY LoopFacts
  <2>5. WaitingIsUnanswered' /\ DelayLine'
    BY <1>1, <2>1, <2>4, BitTypes
    DEF ReplyEdge, ShadowEdge, WaitingIsUnanswered, Boundary, DelayLine, Not, UpdateComb
  <2>6. CASE UpdateComb
    <3>1. request_prev' = request
      BY <2>1, <2>6, LoopFacts DEF ReplyEdge
    <3>2. \A f \in Field \ {LogicF} : shadow'[f] = configA[f]
      BY <2>1, <2>6 DEF ShadowEdge
    <3>3. QED
      BY <2>2, <2>3, <2>5, <2>6, <3>1, <3>2
  <2>7. CASE ~UpdateComb
    <3>1. request_prev' = request_prev /\ shadow' = shadow
      BY <2>1, <2>7 DEF ReplyEdge, ShadowEdge, UpdateComb
    <3>2. QED
      BY <2>2, <2>3, <2>5, <3>1
  <2>8. QED
    BY <2>6, <2>7
<1>4. QED
  BY <1>2, <1>3

\* Both halves of the handshake keep one change of level in the loop, when
\* each samples a level the other shows before or after the edge.
LEMMA EdgesKeepOneChange ==
  ASSUME IInv, NEW replyA \in Bit, NEW requestA \in Bit,
         RequestEdge(config_req, replyA), ReplyEdge(done, requestA),
         replyA \in {reply, reply'}, requestA \in {request, request'}
  PROVE  OneChangeInFlight'
<1>1. TypeOK /\ OneChangeInFlight /\ WaitingIsUnanswered /\ DelayLine
  BY DEF IInv, HandshakeInv
<1>2. CASE busy = 0
  <2>1. reply' = reply /\ request_prev' = request_prev
    BY <1>2, LoopFacts DEF ReplyEdge, UpdateComb
  <2>2. QED
    BY <1>1, <1>2, <2>1, BitTypes
    DEF ReplyEdge, UpdateComb, RequestEdge, Accepts, Answered, OneChangeInFlight,
        InFlight, Boundary, Not
<1>3. CASE busy = 1
  <2>1. request' = request
    BY <1>3 DEF RequestEdge, Accepts
  <2>2. QED
    BY <1>1, <1>3, <2>1, BitTypes
    DEF ReplyEdge, UpdateComb, RequestEdge, Accepts, Answered, OneChangeInFlight,
        InFlight, Boundary, WaitingIsUnanswered, Not
<1>4. QED
  BY <1>1, <1>2, <1>3, BitTypes

-----------------------------------------------------------------------------
(***************************************************************************)
(* The steps.                                                              *)
(***************************************************************************)
\* An edge of the system clock alone.
LEMMA SysTickIInv == IInv /\ SysTick => IInv'
<1> SUFFICES ASSUME IInv, SysTick PROVE IInv'
  OBVIOUS
<1>1. /\ SysEdge(reply) /\ reply \in Bit /\ sys_rst = 0
      /\ RequestEdge(config_req, reply)
  BY DEF SysTick, SysEdge, IInv, HandshakeInv, TypeOK, HandshakeTypeOK
<1>2. UNCHANGED <<sys_rst, rst_sync1, rst_sync2, request_meta, request_sync,
                  request_prev, waiting, reply, shadow, done, copied>>
  BY DEF SysTick, resetVars, replyVars, detVars
<1>3. TypeOK /\ OneChangeInFlight /\ WaitingIsUnanswered /\ DelayLine /\ ResetState
  BY DEF IInv, HandshakeInv
<1>4. TypeOK'
  BY <1>1, <1>2, <1>3, SysFacts DEF TypeOK, HandshakeTypeOK
<1>5. OneChangeInFlight'
  BY <1>1, <1>2, <1>3, BitTypes
  DEF RequestEdge, Accepts, Answered, OneChangeInFlight, InFlight, Boundary, Not
<1>6. WaitingIsUnanswered' /\ DelayLine' /\ ResetState'
  BY <1>1, <1>2, <1>3
  DEF WaitingIsUnanswered, Boundary, DelayLine, ResetState, ReplyCleared
<1>7. Polling => RegistersHeld' /\ SeenIsConfigured'
  <2> SUFFICES ASSUME Polling PROVE RegistersHeld' /\ SeenIsConfigured'
    OBVIOUS
  <2>1. /\ RegistersHeld'
        /\ busy = 1 => config' = config /\ asked' = asked
        /\ busy = 0 /\ busy' = 0 => asked' = asked
    BY <1>1, SysFacts
  <2>2. request' = request => asked' = asked
    BY <1>1, <1>3, BitTypes DEF RequestEdge, SysEdge, Accepts, Not
  <2>3. busy = 0 => request = request_prev
    BY LoopFacts
  <2>4. busy = 1 => request' = request
    BY <1>1 DEF RequestEdge, Accepts
  <2>5. request' # request => request' # request_prev
    BY <1>3, <2>3, <2>4, BitTypes
  <2>6. SeenIsConfigured'
    BY <1>2, <2>2, <2>5 DEF IInv, SeenIsConfigured, TakesEffect
  <2>7. QED
    BY <2>1, <2>6
<1>8. QED
  BY <1>4, <1>5, <1>6, <1>7 DEF IInv, HandshakeInv

\* An edge of the detector clock alone.
LEMMA DetTickIInv == IInv /\ DetTick => IInv'
<1> SUFFICES ASSUME IInv, DetTick PROVE IInv'
  OBVIOUS
<1>1. TypeOK /\ OneChangeInFlight /\ WaitingIsUnanswered /\ DelayLine /\ ResetState
  BY DEF IInv, HandshakeInv
<1>2. DetEdge(request, config) /\ request \in Bit /\ config \in Config
  BY <1>1 DEF DetTick, TypeOK, HandshakeTypeOK
<1>3. UNCHANGED <<busy, request, reply_meta, reply_sync, reply_prev,
                  since, config, config_req, status, asked>>
  BY DEF DetTick, requestVars, sysVars
<1>4. sys_rst' \in Bit /\ rst_sync1' \in Bit /\ rst_sync2' \in Bit
  BY <1>1, <1>2 DEF DetEdge, RstSyncEdge, TypeOK, HandshakeTypeOK, Bit
<1>5. TypeOK'
  BY <1>1, <1>2, <1>3, <1>4, DetFacts DEF TypeOK, HandshakeTypeOK
<1>6. OneChangeInFlight'
  <2>1. CASE rst_sync2 = 1
    BY <1>1, <1>2, <1>3, <2>1 DEF DetEdge, replyVars, OneChangeInFlight, InFlight, Boundary
  <2>2. CASE rst_sync2 # 1
    <3>1. ReplyEdge(done, request)
      BY <1>2, <2>2 DEF DetEdge
    <3>2. QED
      BY <1>1, <1>3, <3>1, BitTypes
      DEF ReplyEdge, UpdateComb, OneChangeInFlight, InFlight, Boundary,
          WaitingIsUnanswered, Not
  <2>3. QED
    BY <2>1, <2>2
<1>7. WaitingIsUnanswered' /\ DelayLine'
  BY <1>2, DetFacts
<1>8. ResetState'
  BY <1>1, <1>2, <1>3, BitTypes
  DEF DetEdge, RstSyncEdge, ResetState, RequestCleared, ReplyCleared, replyVars, detVars
<1>9. Polling => RegistersHeld' /\ SeenIsConfigured'
  <2> SUFFICES ASSUME Polling PROVE RegistersHeld' /\ SeenIsConfigured'
    OBVIOUS
  <2>1. RegistersHeld /\ SeenIsConfigured
    BY DEF IInv
  <2>2. RegistersHeld'
    BY <1>3, <2>1 DEF RegistersHeld
  <2>3. UpdateComb => config = asked
    BY <2>1, LoopFacts DEF RegistersHeld
  <2>4. SeenIsConfigured'
    BY <1>2, <1>3, <2>1, <2>3, DetFacts DEF SeenIsConfigured, TakesEffect
  <2>5. QED
    BY <2>2, <2>4
<1>10. QED
  BY <1>5, <1>6, <1>7, <1>8, <1>9 DEF IInv, HandshakeInv

\* Both clocks at once: the flops that cross take the old or the new level,
\* and a field that changes may be sampled as anything.
LEMMA BothTickIInv == IInv /\ BothTick => IInv'
<1> SUFFICES ASSUME IInv, BothTick PROVE IInv'
  OBVIOUS
<1>1. TypeOK /\ OneChangeInFlight /\ WaitingIsUnanswered /\ DelayLine /\ ResetState
  BY DEF IInv, HandshakeInv
<1>2. PICK replyA \in Bit, requestA \in Bit, configA \in Config :
        /\ SysEdge(replyA) /\ DetEdge(requestA, configA)
        /\ replyA \in {reply, reply'} /\ requestA \in {request, request'}
        /\ \A f \in Field : config'[f] = config[f] => configA[f] = config[f]
  BY DEF BothTick
<1>3. RequestEdge(config_req, replyA) /\ sys_rst = 0
  BY <1>2 DEF SysEdge
<1>4. sys_rst' \in Bit /\ rst_sync1' \in Bit /\ rst_sync2' \in Bit
  BY <1>1, <1>2 DEF DetEdge, RstSyncEdge, TypeOK, HandshakeTypeOK, Bit
<1>5. TypeOK'
  BY <1>2, <1>4, SysFacts, DetFacts DEF TypeOK, HandshakeTypeOK
<1>6. OneChangeInFlight'
  <2>1. CASE rst_sync2 = 1
    <3>1. ReplyCleared /\ ReplyCleared' /\ replyA = 0
      BY <1>1, <1>2, <2>1 DEF DetEdge, replyVars, ResetState, ReplyCleared
    <3>2. QED
      BY <1>1, <1>3, <3>1, BitTypes
      DEF RequestEdge, Accepts, Answered, ReplyCleared, OneChangeInFlight, InFlight,
          Boundary, Not
  <2>2. CASE rst_sync2 # 1
    <3>1. ReplyEdge(done, requestA)
      BY <1>2, <2>2 DEF DetEdge
    <3>2. QED
      BY <1>2, <1>3, <3>1, EdgesKeepOneChange
  <2>3. QED
    BY <2>1, <2>2
<1>7. WaitingIsUnanswered' /\ DelayLine'
  BY <1>2, DetFacts
<1>8. ResetState'
  <2>1. sys_rst' = 0 /\ rst_sync1' = 0 /\ rst_sync2' = rst_sync1
    BY <1>2, <1>3 DEF DetEdge, RstSyncEdge
  <2>2. rst_sync1 = 1 => ReplyCleared' /\ copied' = 0 /\ done' = 0
    BY <1>1, <1>2
    DEF DetEdge, ResetState, ReplyCleared, replyVars, detVars
  <2>3. QED
    BY <2>1, <2>2 DEF ResetState
<1>9. Polling => RegistersHeld' /\ SeenIsConfigured'
  <2> SUFFICES ASSUME Polling PROVE RegistersHeld' /\ SeenIsConfigured'
    OBVIOUS
  <2>1. RegistersHeld /\ SeenIsConfigured
    BY DEF IInv
  <2>2. /\ RegistersHeld'
        /\ busy = 1 => config' = config /\ asked' = asked
        /\ busy = 0 /\ busy' = 0 => asked' = asked
    BY <1>2, SysFacts
  <2>3. CASE UpdateComb
    <3>1. busy = 1 /\ config = asked /\ asked' = asked /\ config' = config
      BY <2>1, <2>2, <2>3, LoopFacts DEF RegistersHeld
    <3>2. \A f \in Field : configA[f] = asked'[f]
      BY <1>2, <3>1
    <3>3. \/ \A f \in Field \ {LogicF} : shadow'[f] = configA[f]
          \/ request_prev' = request_prev /\ shadow' = shadow
      BY <1>2, DetFacts
    <3>4. request' = request /\ request # request_prev
      BY <1>3, <2>3, <3>1, LoopFacts DEF RequestEdge, Accepts
    <3>5. SeenIsConfigured'
      BY <3>2, <3>3, <3>4 DEF SeenIsConfigured, TakesEffect
    <3>6. QED
      BY <2>2, <3>5
  <2>4. CASE ~UpdateComb
    <3>1. request_prev' = request_prev /\ shadow' = shadow
      BY <1>2, <2>4, DetFacts
    <3>2. request' = request => asked' = asked
      BY <1>1, <1>2, <1>3, BitTypes DEF RequestEdge, SysEdge, Accepts, Not
    <3>3. request' # request => request' # request_prev
      BY <1>1, <1>3, LoopFacts, BitTypes DEF RequestEdge, Accepts
    <3>4. SeenIsConfigured'
      BY <2>1, <3>1, <3>2, <3>3 DEF SeenIsConfigured, TakesEffect
    <3>5. QED
      BY <2>2, <3>4
  <2>5. QED
    BY <2>3, <2>4
<1>10. QED
  BY <1>5, <1>6, <1>7, <1>8, <1>9 DEF IInv, HandshakeInv

\* A reset clears both halves, and its release leaves them cleared.
LEMMA ResetIInv == IInv /\ (Reset \/ Release \/ UNCHANGED vars) => IInv'
<1> SUFFICES ASSUME IInv, Reset \/ Release \/ UNCHANGED vars PROVE IInv'
  OBVIOUS
<1>1. CASE Reset
  <2> USE <1>1 DEF Reset, AssertReset
  <2>1. TypeOK'
    BY WriteGapAssumption, DefaultInConfig DEF TypeOK, HandshakeTypeOK, Bit
  <2>2. OneChangeInFlight' /\ WaitingIsUnanswered' /\ DelayLine'
    BY DEF OneChangeInFlight, InFlight, WaitingIsUnanswered, Boundary, DelayLine
  <2>3. ResetState'
    BY DEF ResetState, RequestCleared, ReplyCleared
  <2>4. RegistersHeld' /\ SeenIsConfigured'
    BY DEF RegistersHeld, SeenIsConfigured, TakesEffect
  <2>5. QED
    BY <2>1, <2>2, <2>3, <2>4 DEF IInv, HandshakeInv
<1>2. CASE Release \/ UNCHANGED vars
  <2>1. /\ sys_rst' \in {0, sys_rst} /\ UNCHANGED <<rst_sync1, rst_sync2>>
        /\ UNCHANGED <<busy, request, reply_meta, reply_sync, reply_prev>>
        /\ UNCHANGED <<request_meta, request_sync, request_prev, waiting, reply>>
        /\ UNCHANGED <<since, config, config_req, status, shadow, done, copied, asked>>
    BY <1>2
    DEF Release, ReleaseReset, vars, resetVars, requestVars, replyVars, sysVars, detVars
  <2>2. TypeOK /\ OneChangeInFlight /\ WaitingIsUnanswered /\ DelayLine /\ ResetState
    BY DEF IInv, HandshakeInv
  <2>3. TypeOK'
    BY <2>1, <2>2 DEF TypeOK, HandshakeTypeOK, Bit
  <2>4. OneChangeInFlight' /\ WaitingIsUnanswered' /\ DelayLine'
    BY <2>1, <2>2 DEF OneChangeInFlight, InFlight, WaitingIsUnanswered, Boundary, DelayLine
  <2>5. ResetState'
    BY <2>1, <2>2 DEF ResetState, RequestCleared, ReplyCleared
  <2>6. Polling => RegistersHeld' /\ SeenIsConfigured'
    BY <2>1 DEF IInv, RegistersHeld, SeenIsConfigured, TakesEffect
  <2>7. QED
    BY <2>3, <2>4, <2>5, <2>6 DEF IInv, HandshakeInv
<1>3. QED
  BY <1>1, <1>2

LEMMA StepIInv == IInv /\ [Next]_vars => IInv'
BY SysTickIInv, DetTickIInv, BothTickIInv, ResetIInv DEF Next

-----------------------------------------------------------------------------
(***************************************************************************)
(* The results.                                                            *)
(***************************************************************************)
\* update_request and update_reply with the delay line of config_sync, under
\* every interleaving of the two clocks, of resets and of the software.
THEOREM InductiveInvariant == Spec => []IInv
<1>1. IInv /\ [Next]_vars => IInv'
  BY StepIInv
<1>2. QED
  BY <1>1, InitIInv, PTL DEF Spec

\* The handshake part of the invariant, for software of either kind.
THEOREM HandshakeCorrect == Spec => []HandshakeInv
<1>1. IInv => HandshakeInv
  BY DEF IInv
<1>2. QED
  BY <1>1, InductiveInvariant, PTL

\* An idle bridge: the shadow holds what the last request asked for.
LEMMA IdleFact == IInv => IdleMeansConfigured
<1> SUFFICES ASSUME IInv, Polling, busy = 0
             PROVE  \A f \in Field \ {LogicF} : TakesEffect(f)
  BY DEF IdleMeansConfigured
<1>1. request = request_prev
  BY LoopFacts
<1>2. QED
  BY <1>1 DEF IInv, SeenIsConfigured

\* Software that polls STATUS never finds the channel idle over a shadow that
\* is old or torn.
THEOREM IdleIsConfigured == Spec => []IdleMeansConfigured
BY IdleFact, InductiveInvariant, PTL

\* The shadow of config_sync moves as one and only to what the outstanding
\* request asked for, and the bridge is idle over that configuration only.
THEOREM ShadowMovesWhole == Spec => ConfiguredWhole
<1>1. IInv /\ [Next]_vars =>
        [shadow' # shadow /\ sys_rst' = 0 /\ Polling =>
           busy = 1 /\ \A f \in Field \ {LogicF} : shadow'[f] = asked[f]]_vars
  <2> SUFFICES ASSUME IInv, Next, shadow' # shadow, sys_rst' = 0, Polling
               PROVE  busy = 1 /\ \A f \in Field \ {LogicF} : shadow'[f] = asked[f]
    OBVIOUS
  <2>1. RegistersHeld
    BY DEF IInv
  <2>2. DetTick \/ BothTick
    BY DEF Next, SysTick, Reset, AssertReset, Release, detVars
  <2>3. CASE DetTick
    <3>1. DetEdge(request, config) /\ request \in Bit /\ config \in Config
      BY <2>3 DEF DetTick, IInv, HandshakeInv, TypeOK, HandshakeTypeOK
    <3>2. UpdateComb /\ \A f \in Field \ {LogicF} : shadow'[f] = config[f]
      BY <3>1, DetFacts
    <3>3. QED
      BY <2>1, <3>2, LoopFacts DEF RegistersHeld
  <2>4. CASE BothTick
    <3>1. PICK replyA \in Bit, requestA \in Bit, configA \in Config :
            /\ SysEdge(replyA) /\ DetEdge(requestA, configA)
            /\ \A f \in Field : config'[f] = config[f] => configA[f] = config[f]
      BY <2>4 DEF BothTick
    <3>2. UpdateComb /\ \A f \in Field \ {LogicF} : shadow'[f] = configA[f]
      BY <3>1, DetFacts
    <3>3. busy = 1 /\ config = asked /\ config' = config
      BY <2>1, <3>1, <3>2, LoopFacts, SysFacts DEF RegistersHeld
    <3>4. QED
      BY <3>1, <3>2, <3>3
  <2>5. QED
    BY <2>2, <2>3, <2>4
<1>2. IInv /\ IdleMeansConfigured /\ [Next]_vars /\ IInv' /\ IdleMeansConfigured' =>
        [/\ IInv' /\ IdleMeansConfigured'
         /\ shadow' # shadow /\ sys_rst' = 0 /\ Polling =>
              busy = 1 /\ \A f \in Field \ {LogicF} : shadow'[f] = asked[f]]_vars
  BY <1>1
<1>3. QED
  BY <1>2, InductiveInvariant, IdleIsConfigured, PTL DEF Spec, ConfiguredWhole

=============================================================================
