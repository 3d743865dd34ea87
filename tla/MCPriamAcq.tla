----------------------------- MODULE MCPriamAcq -----------------------------
(***************************************************************************)
(* Instances of PriamAcq for TLC.  Set-up and timing, the readout and the  *)
(* shutter signals, and the starting of an acquisition use disjoint        *)
(* registers and are checked apart.                                        *)
(***************************************************************************)
EXTENDS PriamAcq

TwoPorts == {<<0, 1>>}
Readouts == {<<1, 3>>, <<>>}
=============================================================================
