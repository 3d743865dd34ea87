------------------------ MODULE MaxipixReconstruction ------------------------
(***************************************************************************)
(* MaxipixReconstruction: the task that turns the frame of the chips, read *)
(* out side by side, into the image of the detector.  process() goes one of*)
(* three ways by m_layout, each a module: Recon5x1, Recon2x2 and ReconChips*)
(* (L_FREE and L_GENERAL).  The three share the locals that have the same  *)
(* name; those of another way are NotUsed.                                 *)
(*                                                                         *)
(* N columns and N lines stand for the 256 x 256 pixels of a chip.         *)
(***************************************************************************)
EXTENDS Integers

CONSTANTS N,          \* columns and lines of a chip
          XGaps,      \* widths of the gap, in columns
          YGaps,      \* heights of the gap, in lines
          Images5x1, Images2x2,   \* the frames read out
          Positions   \* lists of chip positions

NotUsed == "not used"

VARIABLES m_layout, inPlace, m_type, m_xgap,
          data,                   \* the frame or the image, see each module
          raw, srcPt, dstPt,      \* Recon5x1 and Recon2x2
          aNbLine, chips, size,   \* Recon5x1
          m_ygap, jump, run, phase, left,          \* Recon2x2
          m_chips_position, new, chip, delivered   \* ReconChips

both    == <<raw, srcPt, dstPt, m_type, m_xgap>>
only5x1 == <<aNbLine, chips, size>>
only2x2 == <<m_ygap, jump, run, phase, left>>
onlyPos == <<m_chips_position, new, chip, delivered>>
vars    == <<m_layout, inPlace, data, both, only5x1, only2x2, onlyPos>>

R5 == INSTANCE Recon5x1 WITH W <- N, L <- N, Gaps <- XGaps, Images <- Images5x1,
        type <- m_type, gap <- m_xgap, buf <- data
R2 == INSTANCE Recon2x2 WITH W <- N, L <- N, Images <- Images2x2,
        type <- m_type, xSpace <- m_xgap, ySpace <- m_ygap, buf <- data
RC == INSTANCE ReconChips WITH layout <- m_layout

ASSUME SizeAssumption == R5!Assumptions /\ R2!Assumptions /\ RC!Assumptions

NoneOf5x1 == aNbLine = NotUsed /\ chips = NotUsed /\ size = NotUsed
NoneOf2x2 == /\ m_ygap = NotUsed /\ jump = NotUsed /\ run = NotUsed
             /\ phase = NotUsed /\ left = NotUsed
NoneOfGap == /\ raw = NotUsed /\ srcPt = NotUsed /\ dstPt = NotUsed
             /\ m_type = NotUsed /\ m_xgap = NotUsed
NoneOfPos == /\ m_chips_position = NotUsed /\ new = NotUsed
             /\ chip = NotUsed /\ delivered = NotUsed

Init ==
  \/ m_layout = "L_5x1" /\ R5!Init /\ NoneOf2x2 /\ NoneOfPos
  \/ m_layout = "L_2x2" /\ R2!Init /\ inPlace \in BOOLEAN /\ NoneOf5x1 /\ NoneOfPos
  \/ RC!Init /\ NoneOfGap /\ NoneOf5x1 /\ NoneOf2x2

process5x1 == m_layout = "L_5x1" /\ R5!Next /\ UNCHANGED <<m_layout, only2x2, onlyPos>>
process2x2 == m_layout = "L_2x2" /\ R2!Next /\ UNCHANGED <<m_layout, inPlace, only5x1, onlyPos>>
processPos == m_layout \in {"L_FREE", "L_GENERAL"} /\ RC!Next
                /\ UNCHANGED <<both, only5x1, only2x2>>

Next == process5x1 \/ process2x2 \/ processPos
Spec == Init /\ [][Next]_vars

-----------------------------------------------------------------------------
\* Whatever part of the 5x1 image is done is the image that the geometry of
\* the detector asks for, each gap filled as its type says.
Widened5x1 == m_layout = "L_5x1" => R5!DoneIsRight

\* The 5x1 image is widened over the frame itself: no pixel is overwritten
\* that is still to be read, and the walk ends exactly at the first pixel.
WalkIsSafe5x1 == m_layout = "L_5x1" => R5!SourceIntact /\ R5!EndsAtStart

\* Half-way, the upper part of the 2x2 image and its gap are right.
UpperIsRight2x2 == m_layout = "L_2x2" => R2!UpperIsRight

\* The 2x2 image delivered is right, but for what the last loop of MEAN spoils:
\* the walk of one pointer over the four chips wrote each pixel at its place.
Squared2x2 == m_layout = "L_2x2" => R2!DoneIsRight

\* L_FREE turns a chip without touching the others, at any time.
TurnedInPlace == m_layout = "L_FREE" => RC!TurnedInPlace

\* L_GENERAL puts every chip turned at its origin, zeros elsewhere.
PlacedAndTurned == m_layout = "L_GENERAL" => RC!PlacedAndTurned
=============================================================================
