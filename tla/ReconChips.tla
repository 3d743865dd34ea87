----------------------------- MODULE ReconChips -----------------------------
(***************************************************************************)
(* MaxipixReconstruction::process for the layouts given by a list of chip  *)
(* positions: L_FREE turns each chip where it is, through a buffer of one  *)
(* chip, and L_GENERAL moves it to its origin in a new image as well.  The *)
(* two are written separately, as pointer walks of their own.              *)
(*                                                                         *)
(* N columns and N lines stand for the 256 x 256 pixels of a chip.  The    *)
(* frames come with the dimensions getImageSize announced.                 *)
(***************************************************************************)
EXTENDS Integers, Sequences, FiniteSetsExt

CONSTANTS N,          \* columns and lines of a chip
          Positions   \* the position lists: sequences of [x, y, rot]

Position ==
  [x: Nat, y: Nat, rot: {"Rotation_0", "Rotation_90", "Rotation_180", "Rotation_270"}]

Assumptions == /\ N \in Nat /\ N >= 1
               /\ Positions \subseteq Seq(Position) \ {<<>>}

\* The positions of a detector: no two chips share a pixel, and the image
\* begins with a chip in both directions.
Apart(p, q) == \/ p.x + N <= q.x \/ q.x + N <= p.x
               \/ p.y + N <= q.y \/ q.y + N <= p.y
OnDetector ==
  \A list \in Positions :
    /\ \A i, j \in DOMAIN list : i # j => Apart(list[i], list[j])
    /\ \E i \in DOMAIN list : list[i].x = 0
    /\ \E i \in DOMAIN list : list[i].y = 0

VARIABLES layout, inPlace, m_chips_position,
          data,     \* the frame, which in place becomes the image
          new,      \* aNewBuffer of L_GENERAL
          chip,     \* the chips done
          delivered

params == <<layout, inPlace, m_chips_position>>
vars   == <<params, data, new, chip, delivered>>

nb_chips == Len(m_chips_position)

\* getImageSize
Width ==
  LET xs == {m_chips_position[i].x : i \in 1 .. nb_chips}
  IN IF layout = "L_FREE" THEN nb_chips * N ELSE Max(xs) + N - Min(xs)
Height ==
  LET ys == {m_chips_position[i].y : i \in 1 .. nb_chips}
  IN IF layout = "L_FREE" THEN N ELSE Max(ys) + N - Min(ys)

RawSize == nb_chips * N * N
Frame   == 0 .. (IF RawSize > Width * Height THEN RawSize ELSE Width * Height) - 1

Cells == (0 .. N - 1) \X (0 .. N - 1)   \* <<line, column>> in a chip

\* b with v[p] at at[p], for every pixel p of a chip.
Written(b, at, v) ==
  [k \in DOMAIN b |-> LET here == {p \in Cells : at[p] = k}
                      IN IF here = {} THEN b[k] ELSE v[CHOOSE p \in here : TRUE]]

(***************************************************************************)
(* L_FREE: _copy_chip, then _rot_chip_90, _180 or _270 back to its place.  *)
(***************************************************************************)
\* aBuffer, one line of the chip after the other.
Copied(i) ==
  [k \in 0 .. N * N - 1 |-> data[i * N + (k \div N) * nb_chips * N + (k % N)]]

\* Where the walk over aBuffer is at column c of line l.
Source(rot, l, c) ==
  CASE rot = "Rotation_90"  -> (N - 1) * N + l - c * N
    [] rot = "Rotation_180" -> (N - l) * N - 1 - c
    [] rot = "Rotation_270" -> (N - 1) - l + c * N

\* Mutant: a line of the rotated chip begins where the last one ended.
TurnChipPacked ==
  /\ layout = "L_FREE" /\ inPlace /\ chip < nb_chips
  /\ LET rot == m_chips_position[chip + 1].rot
         b   == Copied(chip)
     IN data' = IF rot = "Rotation_0" THEN data
                ELSE Written(data, [p \in Cells |-> chip * N + p[1] * N + p[2]],
                                   [p \in Cells |-> b[Source(rot, p[1], p[2])]])
  /\ chip' = chip + 1
  /\ UNCHANGED <<params, new, delivered>>

TurnChip ==
  /\ layout = "L_FREE" /\ inPlace /\ chip < nb_chips
  /\ LET rot == m_chips_position[chip + 1].rot
         b   == Copied(chip)
     IN data' = IF rot = "Rotation_0" THEN data
                ELSE Written(data, [p \in Cells |-> chip * N + p[1] * nb_chips * N + p[2]],
                                   [p \in Cells |-> b[Source(rot, p[1], p[2])]])
  /\ chip' = chip + 1
  /\ UNCHANGED <<params, new, delivered>>

\* Not in place there is nothing: "@todo if needed".
LeaveAll ==
  /\ layout = "L_FREE" /\ ~inPlace /\ chip < nb_chips
  /\ chip' = nb_chips
  /\ UNCHANGED <<params, data, new, delivered>>

(***************************************************************************)
(* L_GENERAL.                                                              *)
(***************************************************************************)
\* Mutant: 270 degrees walks the source upwards as 90 does.
GeneralSourceUp(i, rot, l, c) ==
  LET stride == nb_chips * N
      first  == i * N
  IN CASE rot = "Rotation_270" -> first + (N - 1 - l) + (N - 1 - c) * stride
       [] rot = "Rotation_180" -> first + (N - 1 - l) * stride + N - 1 - c
       [] rot = "Rotation_90"  -> first + (N - 1) * stride + l - c * stride
       [] OTHER                -> first + l * stride + c

\* Where the walk over the frame is at column c of line l of chip i.
GeneralSource(i, rot, l, c) ==
  LET stride == nb_chips * N
      first  == i * N
  IN CASE rot = "Rotation_270" -> first + (N - 1 - l) + c * stride
       [] rot = "Rotation_180" -> first + (N - 1 - l) * stride + N - 1 - c
       [] rot = "Rotation_90"  -> first + (N - 1) * stride + l - c * stride
       [] OTHER                -> first + l * stride + c

\* Origins are used as they are.
PlaceChip ==
  /\ layout = "L_GENERAL" /\ chip < nb_chips
  /\ LET pos == m_chips_position[chip + 1]
     IN new' = Written(new, [p \in Cells |-> (pos.y + p[1]) * Width + pos.x + p[2]],
                            [p \in Cells |-> data[GeneralSource(chip, pos.rot, p[1], p[2])]])
  /\ chip' = chip + 1
  /\ UNCHANGED <<params, data, delivered>>

Deliver ==
  /\ chip = nb_chips /\ ~delivered
  /\ delivered' = TRUE
  /\ data' = IF layout = "L_GENERAL" /\ inPlace
               THEN [k \in DOMAIN data |-> IF k \in DOMAIN new THEN new[k] ELSE data[k]]
               ELSE data
  /\ UNCHANGED <<params, new, chip>>

Init ==
  /\ layout \in {"L_FREE", "L_GENERAL"} /\ inPlace \in BOOLEAN
  /\ m_chips_position \in Positions
  /\ data = [k \in Frame |-> k + 1]   \* each pixel has its number
  /\ new = [k \in 0 .. Width * Height - 1 |-> 0]
  /\ chip = 0 /\ delivered = FALSE

Next == TurnChip \/ LeaveAll \/ PlaceChip \/ Deliver
Spec == Init /\ [][Next]_vars

-----------------------------------------------------------------------------
\* The pixel of the chip as read out that is seen at line l and column c of
\* the chip turned clockwise by rot: one quarter turn after the other.
QuarterTurn == [p \in Cells |-> <<N - 1 - p[2], p[1]>>]
Turned(rot, p) ==
  CASE rot = "Rotation_0"   -> p
    [] rot = "Rotation_90"  -> QuarterTurn[p]
    [] rot = "Rotation_180" -> QuarterTurn[QuarterTurn[p]]
    [] rot = "Rotation_270" -> QuarterTurn[QuarterTurn[QuarterTurn[p]]]

\* The frame holds each of its pixels' number.
ReadOut(i, p) == i * N + p[1] * nb_chips * N + p[2]

\* At any time in place, the chips done are turned and the others untouched:
\* turning a chip through its one-chip buffer disturbs no other chip of the
\* lines they share, and no pixel is lost.
TurnedInPlace ==
  layout = "L_FREE" /\ inPlace =>
    \A i \in 0 .. nb_chips - 1, p \in Cells :
      data[ReadOut(i, p)] =
        1 + ReadOut(i, IF i < chip THEN Turned(m_chips_position[i + 1].rot, p) ELSE p)

Image == IF inPlace THEN data ELSE new

\* The image of L_GENERAL has every chip at its origin, turned as L_FREE
\* turns it, in place (over a frame that is still being read until the end)
\* or not, and nothing but zeros elsewhere.
PlacedAndTurned ==
  LET chips == (0 .. nb_chips - 1) \X (0 .. N - 1) \X (0 .. N - 1)
      pos(q) == m_chips_position[q[1] + 1]
      at(q)  == (pos(q).y + q[2]) * Width + pos(q).x + q[3]
  IN layout = "L_GENERAL" /\ delivered =>
       /\ \A q \in chips :
            Image[at(q)] = 1 + ReadOut(q[1], Turned(pos(q).rot, <<q[2], q[3]>>))
       /\ \A k \in 0 .. Width * Height - 1 :
            (\A q \in chips : at(q) # k) => Image[k] = 0
=============================================================================
