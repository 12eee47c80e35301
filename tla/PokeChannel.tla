---------------------------- MODULE PokeChannel ----------------------------
(***************************************************************************)
(* What a poke channel promises across the two clock domains: a message    *)
(* accepted while the channel is idle appears on the far side exactly      *)
(* once, as one pulse carrying that message, and the channel is idle again *)
(* only after the pulse is over.  A reset drops what is under way.         *)
(***************************************************************************)
CONSTANTS
  Msg,      \* messages
  NoMsg     \* no message

VARIABLES
  phase,    \* "idle", "sent" or "delivered"
  msg,      \* the message under way, NoMsg when none is
  pulse     \* what the far side is shown

vars == <<phase, msg, pulse>>

Init == phase = "idle" /\ msg = NoMsg /\ pulse = NoMsg

Accept(m) ==
  /\ phase = "idle"
  /\ phase' = "sent" /\ msg' = m
  /\ UNCHANGED pulse

Deliver ==
  /\ phase = "sent"
  /\ phase' = "delivered" /\ pulse' = msg /\ msg' = NoMsg

EndPulse ==
  /\ pulse # NoMsg
  /\ pulse' = NoMsg
  /\ UNCHANGED <<phase, msg>>

Acknowledge ==
  /\ phase = "delivered" /\ pulse = NoMsg
  /\ phase' = "idle"
  /\ UNCHANGED <<msg, pulse>>

Reset == phase' = "idle" /\ msg' = NoMsg /\ pulse' = NoMsg

Next == (\E m \in Msg : Accept(m)) \/ Deliver \/ EndPulse \/ Acknowledge \/ Reset

\* Whatever is accepted is delivered and acknowledged, unless it is reset.
Fairness == WF_vars(Deliver) /\ WF_vars(EndPulse) /\ WF_vars(Acknowledge)

Spec == Init /\ [][Next]_vars /\ Fairness

=============================================================================
