-------------------------- MODULE MCMaxipixCamera ---------------------------
(***************************************************************************)
(* Instances of MaxipixCamera for TLC.  Two frames are enough for an       *)
(* acquisition to be in its middle; one exception for each step of a       *)
(* method, of either thread, to be the one that fails.                     *)
(***************************************************************************)
EXTENDS MaxipixCamera

TwoActors == {"client", "acqend"}
=============================================================================
