------------------------------ MODULE MCGdbRsp ------------------------------
(***************************************************************************)
(* TLC model of GdbRsp: sessions with one or two kinds of noise each.      *)
(***************************************************************************)
EXTENDS GdbRsp

MCSteps == {2}
NoNoise == [console |-> 0, up |-> 0, down |-> 0, slow |-> 0]

\* Damage in both directions, up to the three refusals that end _send;
\* unsolicited packets, alone and with a damaged command; late replies.
MCNoises ==
  {[NoNoise EXCEPT !.up = 3, !.down = 1], [NoNoise EXCEPT !.up = 2, !.down = 2],
   [NoNoise EXCEPT !.console = 3], [NoNoise EXCEPT !.console = 1, !.up = 1],
   [NoNoise EXCEPT !.slow = 2, !.down = 1]}

\* The hypothesis of the proofs holds of these.
ASSUME BearableNoises == Bearable
=============================================================================
