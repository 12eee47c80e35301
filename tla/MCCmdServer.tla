---------------------------- MODULE MCCmdServer ----------------------------
(***************************************************************************)
(* Requests for model checking CmdServer: words for one channel, broadcast *)
(* once and twice, a channel number that names none, one that does so only *)
(* after it is cut to eight bits, and a request that leaves tx_buffer      *)
(* alone.                                                                  *)
(***************************************************************************)
EXTENDS CmdServer

MixedRequests == { <<0>>, <<1, 0>>, <<2, 64>>, <<63>>, <<50>>, <<257>> }

PlainRequests == { <<0>>, <<0, 0>> }

=============================================================================
