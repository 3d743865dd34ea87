----------------------- MODULE MCMaxipixReconstruction -----------------------
(***************************************************************************)
(* MaxipixReconstruction on chips of 3 columns and 3 lines: a first, an    *)
(* inner and a last one of each.  Of the frames one has pixels that differ *)
(* enough to be told apart after a division, the other has peaks.  Of the  *)
(* positions, two chips in a row, in a column and apart and three in a     *)
(* corner with a hole, in many orientations; the smallest origin is 0.     *)
(***************************************************************************)
EXTENDS MaxipixReconstruction

Frames(n) == { [k \in 0 .. n * N * N - 1 |-> 100000 - 97 * k],
               [k \in 0 .. n * N * N - 1 |-> IF k % 3 = 0 THEN 65535 ELSE k] }

Frames5x1 == Frames(5)
Frames2x2 == Frames(4)

Turns == {"Rotation_0", "Rotation_90", "Rotation_180", "Rotation_270"}

At(x, y, rot) == [x |-> x, y |-> y, rot |-> rot]

Pairs   == {<<At(0, 0, r), At(p[1], p[2], s)>> :
               r, s \in Turns, p \in {<<3, 0>>, <<0, 3>>, <<4, 5>>}}
Triples == {<<At(0, 0, r), At(0, 4, s), At(4, 0, t)>> :
               r \in Turns, s \in Turns, t \in {"Rotation_0", "Rotation_270"}}

PairsAndTriples == Pairs \cup Triples

\* They are positions of a detector, as the proofs about L_GENERAL assume.
ASSUME PositionsOnDetector == RC!OnDetector
=============================================================================
