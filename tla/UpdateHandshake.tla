-------------------------- MODULE UpdateHandshake --------------------------
(***************************************************************************)
(* The two halves of the clock-domain-crossing handshake, update_request   *)
(* (system clock) and update_reply (detector clock), and the reset they    *)
(* share through rst_sync.  The module declares the registers and one      *)
(* operator per half and clock edge; PokeSync and ConfigSync add the       *)
(* payload that crosses with the request.                                  *)
(*                                                                         *)
(* A register is an integer 0 or 1.  An edge of one clock is one step, so  *)
(* the two clocks have no fixed ratio.  The operators take what the edge   *)
(* samples from the other domain as a parameter (replyA, requestA): when   *)
(* the two clocks tick together the metastable flop may settle on the old  *)
(* or on the new level, and the caller chooses.                            *)
(***************************************************************************)
EXTENDS Integers

VARIABLES
  sys_rst,      \* RST_I of the system domain
  rst_sync1,    \* first stage of rst_sync
  rst_sync2,    \* second stage of rst_sync: the detector domain's reset
  busy,         \* update_request: a request is outstanding
  request,      \* update_request: REQUEST_O, a request is a change of level
  reply_meta, reply_sync, reply_prev,         \* update_request's synchroniser
  request_meta, request_sync, request_prev,   \* update_reply's synchroniser
  waiting,      \* update_reply: seen but not yet answered
  reply         \* update_reply: REPLY_O, an answer is a change of level

resetVars   == <<sys_rst, rst_sync1, rst_sync2>>
requestVars == <<busy, request, reply_meta, reply_sync, reply_prev>>
replyVars   == <<request_meta, request_sync, request_prev, waiting, reply>>

Bit == {0, 1}
Not(b) == 1 - b

HandshakeTypeOK ==
  /\ sys_rst \in Bit /\ rst_sync1 \in Bit /\ rst_sync2 \in Bit
  /\ busy \in Bit /\ request \in Bit
  /\ reply_meta \in Bit /\ reply_sync \in Bit /\ reply_prev \in Bit
  /\ request_meta \in Bit /\ request_sync \in Bit /\ request_prev \in Bit
  /\ waiting \in Bit /\ reply \in Bit

(***************************************************************************)
(* Reset.  sys_rst clears both domains at once; the detector domain leaves *)
(* reset at its second edge after the system domain has.                   *)
(***************************************************************************)
InReset == sys_rst = 1 /\ rst_sync1 = 1 /\ rst_sync2 = 1

\* A bug to test against: the reset forgets update_reply's waiting.
AssertResetKeepsWaiting ==
  /\ sys_rst' = 1 /\ rst_sync1' = 1 /\ rst_sync2' = 1
  /\ busy' = 0 /\ request' = 0
  /\ reply_meta' = 0 /\ reply_sync' = 0 /\ reply_prev' = 0
  /\ request_meta' = 0 /\ request_sync' = 0 /\ request_prev' = 0
  /\ waiting' = waiting /\ reply' = 0

AssertReset ==
  /\ sys_rst' = 1 /\ rst_sync1' = 1 /\ rst_sync2' = 1
  /\ busy' = 0 /\ request' = 0
  /\ reply_meta' = 0 /\ reply_sync' = 0 /\ reply_prev' = 0
  /\ request_meta' = 0 /\ request_sync' = 0 /\ request_prev' = 0
  /\ waiting' = 0 /\ reply' = 0

ReleaseReset ==
  /\ sys_rst = 1
  /\ sys_rst' = 0
  /\ UNCHANGED <<rst_sync1, rst_sync2>>

RstSyncEdge ==
  /\ IF sys_rst = 1
       THEN UNCHANGED <<rst_sync1, rst_sync2>>
       ELSE rst_sync1' = 0 /\ rst_sync2' = rst_sync1
  /\ UNCHANGED sys_rst

RequestCleared ==
  /\ busy = 0 /\ request = 0
  /\ reply_meta = 0 /\ reply_sync = 0 /\ reply_prev = 0

ReplyCleared ==
  /\ request_meta = 0 /\ request_sync = 0 /\ request_prev = 0
  /\ waiting = 0 /\ reply = 0

(***************************************************************************)
(* One edge of update_request with input req.  An answer that arrives on   *)
(* the edge of a new request wins over it: the last assignment to busy.    *)
(***************************************************************************)
Accepts(req) == busy = 0 /\ req = 1
Answered     == reply_prev # reply_sync

RequestEdge(req, replyA) ==
  /\ reply_meta' = replyA
  /\ reply_sync' = reply_meta
  /\ reply_prev' = reply_sync
  /\ request' = IF Accepts(req) THEN Not(request) ELSE request
  /\ busy' = CASE Answered                   -> 0
               [] ~Answered /\ Accepts(req)  -> 1
               [] ~Answered /\ ~Accepts(req) -> busy

(***************************************************************************)
(* One edge of update_reply with input doneI.                              *)
(***************************************************************************)
UpdateComb == request_sync # request_prev

\* A bug to test against: the pending request is not remembered.
ReplyEdgeForgets(doneI, requestA) ==
  /\ request_meta' = requestA
  /\ request_sync' = request_meta
  /\ request_prev' = request_sync
  /\ reply' = IF UpdateComb /\ doneI = 1 THEN Not(reply) ELSE reply
  /\ waiting' = 0

ReplyEdge(doneI, requestA) ==
  LET pending == waiting = 1 \/ UpdateComb
      answer  == pending /\ doneI = 1
  IN /\ request_meta' = requestA
     /\ request_sync' = request_meta
     /\ request_prev' = request_sync
     /\ reply'   = IF answer THEN Not(reply) ELSE reply
     /\ waiting' = IF pending /\ ~answer THEN 1 ELSE 0

(***************************************************************************)
(* What the handshake maintains whatever is built around it.               *)
(***************************************************************************)
Boundary(a, b) == IF a # b THEN 1 ELSE 0

\* The changes of level on their way round the loop, from REQUEST_O through
\* both synchronisers and back to the end of update_request's.
InFlight ==
  Boundary(request, request_meta) + Boundary(request_meta, request_sync)
  + Boundary(request_sync, request_prev) + Boundary(request_prev, reply)
  + Boundary(reply, reply_meta) + Boundary(reply_meta, reply_sync)
  + Boundary(reply_sync, reply_prev)

\* The system domain is busy exactly while one change of level is somewhere
\* in the loop: never two, so no request can catch up with another, and
\* never none, so no request waits for an answer that is not coming.
\* update_request and update_reply.
OneChangeInFlight == busy = InFlight

\* update_reply waits exactly while its last request is unanswered.
WaitingIsUnanswered == waiting = Boundary(request_prev, reply)

=============================================================================
