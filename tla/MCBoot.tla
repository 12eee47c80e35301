------------------------------- MODULE MCBoot -------------------------------
(***************************************************************************)
(* Three slots: all good; the middle one without the XLNX pattern; a last  *)
(* image with a broken checksum; an empty flash.                           *)
(***************************************************************************)
EXTENDS Boot, Sequences

SomeFlashes ==
  {<<"good", "good", "good">>, <<"good", "no_id", "good">>,
   <<"good", "good", "bad_sum">>, <<"no_id", "no_id", "no_id">>}
ZeroBased(s) == [i \in 0..Len(s) - 1 |-> s[i + 1]]
ThreeSlots == {ZeroBased(s) : s \in SomeFlashes}
SomeStraps == {"JTAG", "QSPI", "SD", "illegal"}
=============================================================================
