------------------------- MODULE MCMaxipixInterface -------------------------
(***************************************************************************)
(* Instances of MaxipixInterface for TLC: the client, Espia's callback and *)
(* the configuration thread, two configurations so that mixing them shows. *)
(***************************************************************************)
EXTENDS MaxipixInterface, TLC

ThreeActors == {"client", "acqend", "config"}

NameSymmetry == Permutations(Names)
=============================================================================
