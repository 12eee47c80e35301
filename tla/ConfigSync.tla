---------------------------- MODULE ConfigSync -----------------------------
(***************************************************************************)
(* The configuration channel of the ATC bridge: the configuration          *)
(* registers of atc_registers, the CONFIG_REQ write that asks for them to  *)
(* take effect, update_request, and config_sync around update_reply, which *)
(* copies the registers into the detector domain's shadow.                 *)
(***************************************************************************)
EXTENDS UpdateHandshake

CONSTANTS
  Field,     \* fields of atc_config_t
  LogicF,    \* the field dst_logic_f
  Value,     \* values of a field
  Default,   \* the all-zero value of a reset field
  WriteGap,  \* system clock edges between two writes of one AXI-Lite master
  Polling    \* TRUE: software reads STATUS idle before it writes

ASSUME FieldAssumption    == LogicF \in Field
ASSUME DefaultAssumption  == Default \in Value
ASSUME WriteGapAssumption == WriteGap \in Nat /\ WriteGap >= 3
ASSUME PollingAssumption  == Polling \in BOOLEAN

VARIABLES
  since,      \* edges since the last write, saturating at WriteGap
  config,     \* atc_registers: CONFIG_O
  config_req, \* atc_registers: CONFIG_REQ_O
  status,     \* atc_bridge: the busy bit as STATUS_O shows it
  shadow,     \* config_sync: SHADOW_O
  done,       \* config_sync: DONE_I of update_reply
  copied,     \* config_sync: its process variable update
  asked       \* history: the configuration when a request was last accepted

sysVars == <<since, config, config_req, status>>
detVars == <<shadow, done, copied>>
vars == <<resetVars, requestVars, replyVars, sysVars, detVars, asked>>

Config == [Field -> Value]
DefaultConfig == [f \in Field |-> Default]

TypeOK ==
  /\ HandshakeTypeOK
  /\ since \in 0..WriteGap
  /\ config \in Config /\ config_req \in Bit /\ status \in Bit
  /\ shadow \in Config /\ done \in Bit /\ copied \in Bit
  /\ asked \in Config

Init ==
  /\ InReset /\ RequestCleared /\ ReplyCleared
  /\ since = WriteGap
  /\ config = DefaultConfig /\ config_req = 0 /\ status = 0
  /\ shadow = DefaultConfig /\ done = 0 /\ copied = 0
  /\ asked = DefaultConfig

-----------------------------------------------------------------------------
MayWrite == since = WriteGap /\ (Polling => status = 0)

WriteField(f, v) ==
  /\ MayWrite
  /\ config' = [config EXCEPT ![f] = v] /\ config_req' = 0 /\ since' = 1

WriteRequest ==
  /\ MayWrite
  /\ config_req' = 1 /\ since' = 1 /\ config' = config

NoRegisterWrite ==
  /\ config_req' = 0 /\ config' = config
  /\ since' = IF since < WriteGap THEN since + 1 ELSE since

SysEdge(replyA) ==
  /\ sys_rst = 0
  /\ \/ \E f \in Field, v \in Value : WriteField(f, v)
     \/ WriteRequest
     \/ NoRegisterWrite
  /\ RequestEdge(config_req, replyA)
  /\ status' = busy
  /\ asked' = IF Accepts(config_req) THEN config ELSE asked

\* A bug to test against: the shadow follows the registers all the time.
ShadowEdgeUngated(configA) ==
  /\ done' = copied
  /\ copied' = IF UpdateComb THEN 1 ELSE 0
  /\ shadow' = [f \in Field |-> IF f = LogicF THEN shadow[f] ELSE configA[f]]

\* Every field is copied but dst_logic_f, which the process leaves out.
ShadowEdge(configA) ==
  /\ done' = copied
  /\ copied' = IF UpdateComb THEN 1 ELSE 0
  /\ shadow' = IF UpdateComb
                 THEN [f \in Field |-> IF f = LogicF THEN shadow[f] ELSE configA[f]]
                 ELSE shadow

DetEdge(requestA, configA) ==
  /\ RstSyncEdge
  /\ IF rst_sync2 = 1
       THEN UNCHANGED <<replyVars, detVars>>
       ELSE ReplyEdge(done, requestA) /\ ShadowEdge(configA)

SysTick ==
  /\ SysEdge(reply)
  /\ UNCHANGED <<resetVars, replyVars, detVars>>

DetTick ==
  /\ DetEdge(request, config)
  /\ UNCHANGED <<requestVars, sysVars, asked>>

\* Both clocks at once: a field that changes on this edge is sampled as any
\* value, the others as they are.
BothTick ==
  \E replyA \in Bit, requestA \in Bit, configA \in Config :
    /\ SysEdge(replyA)
    /\ DetEdge(requestA, configA)
    /\ replyA \in {reply, reply'}
    /\ requestA \in {request, request'}
    /\ \A f \in Field : config'[f] = config[f] => configA[f] = config[f]

Reset ==
  /\ AssertReset
  /\ since' = WriteGap
  /\ config' = DefaultConfig /\ config_req' = 0 /\ status' = 0
  /\ shadow' = DefaultConfig /\ done' = 0 /\ copied' = 0
  /\ asked' = DefaultConfig

Release ==
  /\ ReleaseReset
  /\ UNCHANGED <<requestVars, replyVars, sysVars, detVars, asked>>

Next == SysTick \/ DetTick \/ BothTick \/ Reset \/ Release

Spec == Init /\ [][Next]_vars

\* Both clocks run for ever and a reset does not last.
Fairness ==
  /\ WF_vars(SysTick \/ BothTick)
  /\ WF_vars(DetTick \/ BothTick)
  /\ WF_vars(Release)

FairSpec == Spec /\ Fairness

-----------------------------------------------------------------------------
(***************************************************************************)
(* The inductive invariant, in named parts.                                *)
(***************************************************************************)
\* config_sync's shorter delay line holds the one copy being answered, and is
\* empty otherwise.
DelayLine == IF waiting = 1 THEN copied + done = 1 ELSE copied = 0 /\ done = 0

ResetState ==
  /\ sys_rst = 1 => RequestCleared /\ config_req = 0 /\ rst_sync1 = 1 /\ rst_sync2 = 1
  /\ rst_sync1 = 1 => rst_sync2 = 1
  /\ rst_sync2 = 1 => ReplyCleared /\ copied = 0 /\ done = 0

\* The handshake with config_sync: one change of level in the loop exactly
\* while busy, whatever the resets and the software do.
HandshakeInv ==
  TypeOK /\ OneChangeInFlight /\ WaitingIsUnanswered /\ DelayLine /\ ResetState

\* Polling software leaves the registers alone under a request.
RegistersHeld ==
  /\ config_req = 1 => busy = 0 /\ since = 1
  /\ busy = 1 => config = asked
  /\ busy = 1 /\ status = 0 => since = 2

TakesEffect(f) == shadow[f] = asked[f]

\* Once update_reply has seen the request, its configuration is in the shadow.
SeenIsConfigured ==
  request = request_prev => \A f \in Field \ {LogicF} : TakesEffect(f)

IInv == HandshakeInv /\ (Polling => RegistersHeld /\ SeenIsConfigured)

-----------------------------------------------------------------------------
(***************************************************************************)
(* Properties.                                                             *)
(***************************************************************************)
\* When the bridge is idle the detector domain runs on the configuration the
\* last accepted request asked for, whole: software that polls STATUS never
\* sees the channel idle over a shadow that is old or torn (config_sync,
\* shadow0, and the port comment "held stable during update request").
IdleMeansConfigured ==
  Polling /\ busy = 0 /\ config_req = 0 =>
    \A f \in Field \ {LogicF} : TakesEffect(f)

\* Every step leaves the bridge idle over the whole configuration only, and moves
\* the shadow as one: all of its fields on the edge that answers a request, to
\* what that request asked for (shadow0, wait_atc_busy).
ConfiguredWhole ==
  [][/\ IInv' /\ IdleMeansConfigured'
     /\ shadow' # shadow /\ sys_rst' = 0 /\ Polling =>
          busy = 1 /\ \A f \in Field \ {LogicF} : shadow'[f] = asked[f]]_vars

\* An accepted request takes effect, or is reset, and the bridge is idle
\* again: update_request never waits for an answer that is not coming.
RequestCompletes == busy = 1 ~> busy = 0

=============================================================================
