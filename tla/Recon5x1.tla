------------------------------ MODULE Recon5x1 ------------------------------
(***************************************************************************)
(* MaxipixReconstruction::process for the layout L_5x1: five chips side by *)
(* side, with a gap of "gap" pixels to open between neighbours.  The image *)
(* is widened from its last pixel backwards, one line of one chip at a     *)
(* time, usually in place: source and destination are then the same buffer *)
(* and each move may run over what the next ones have still to read.       *)
(*                                                                         *)
(* Positions are counted in pixels of either depth.  W columns and L lines *)
(* stand for the 256 x 256 pixels of a chip.                               *)
(***************************************************************************)
EXTENDS Integers

CONSTANTS W, L,       \* columns and lines of a chip
          Gaps,       \* widths of the gap
          Images      \* the images read out

NbChips == 5
Types   == {"RAW", "ZERO", "DISPATCH", "MEAN"}
Junk    == -1         \* what a new buffer holds

RawSize    == NbChips * W * L
Width(g)   == NbChips * W + (NbChips - 1) * g
FullSize(g) == Width(g) * L

Assumptions == /\ W \in Nat /\ W >= 2 /\ L \in Nat /\ L >= 1
               /\ Gaps \subseteq Nat
               /\ Images \subseteq [0 .. RawSize - 1 -> Nat]

VARIABLES raw,      \* ghost: the image read out
          inPlace,  \* _processingInPlaceFlag
          type, gap,
          buf,      \* the destination, and in place the source too
          srcPt, dstPt,   \* aSrcPt, aDstPt: the first pixels of the lines to move
          aNbLine,  \* lines left
          chips,    \* aNbChipCopyWithGap: chips left to move with their gap
          size      \* MAXIPIX_LINE_SIZE_COPY: pixels moved of a line

params == <<raw, inPlace, type, gap>>
vars   == <<params, buf, srcPt, dstPt, aNbLine, chips, size>>

\* Pixel k of the source when the destination holds b.
Src(b, k) == IF inPlace THEN b[k] ELSE raw[k]

\* memmove(aDstPt, aSrcPt, MAXIPIX_LINE_SIZE_COPY)
Moved == [k \in DOMAIN buf |->
            IF k \in dstPt .. dstPt + size - 1 THEN Src(buf, srcPt + k - dstPt) ELSE buf[k]]

(***************************************************************************)
(* GAP_COPY_FUNCTION: from the line just moved in b, backwards.            *)
(***************************************************************************)
\* b with v(k) at every k of the set ks.
With(b, ks, v(_)) == [k \in DOMAIN b |-> IF k \in ks THEN v(k) ELSE b[k]]

RawGap(b)  == With(b, dstPt - gap .. dstPt - 1, LAMBDA k : 0)
ZeroGap(b) == With(b, dstPt - gap - 1 .. dstPt, LAMBDA k : 0)

\* (xSpace >> 1) + 1
NbShared(g) == (g \div 2) + 1

DispatchGap(b) ==
  LET n  == NbShared(gap)
      b1 == With(b, dstPt - n + 1 .. dstPt, LAMBDA k : b[dstPt] \div n)
  IN With(b1, dstPt - 2 * n + 1 .. dstPt - n, LAMBDA k : Src(b1, srcPt - 1) \div n)

\* Division of the C language, towards zero, by a positive number.
Quotient(a, n) == IF a >= 0 THEN a \div n ELSE -((-a) \div n)

MeanGap(b) ==
  LET n      == NbShared(gap)
      first  == b[dstPt] \div n
      b1     == With(b, {dstPt}, LAMBDA k : first)
      second == Src(b1, srcPt - 1) \div n
      step   == Quotient(second - first, gap + 1)
  IN With(b1, dstPt - gap - 1 .. dstPt - 1, LAMBDA k : first + step * (dstPt - k))

GapCopy(b) == CASE type = "RAW"      -> RawGap(b)
                [] type = "ZERO"     -> ZeroGap(b)
                [] type = "DISPATCH" -> DispatchGap(b)
                [] type = "MEAN"     -> MeanGap(b)

\* Mutant: a whole line is moved over the pixel the gap has just set.
SizeAfterFull == W

\* All but RAW have set the last pixel of the next line to move.
SizeAfter == IF type = "RAW" THEN W ELSE W - 1

-----------------------------------------------------------------------------
\* The body of the inner loop.
CopyWithGap ==
  /\ aNbLine > 0 /\ chips > 0
  /\ buf'   = GapCopy(Moved)
  /\ size'  = SizeAfter
  /\ dstPt' = dstPt - (W + gap)
  /\ srcPt' = srcPt - W
  /\ chips' = chips - 1
  /\ UNCHANGED <<params, aNbLine>>

\* Mutant: the destination steps over a gap before the first chip too.
CopyFirstWide ==
  /\ aNbLine > 0 /\ chips = 0
  /\ buf'   = Moved
  /\ size'  = W
  /\ dstPt' = dstPt - (W + gap)
  /\ srcPt' = srcPt - W
  /\ chips' = NbChips - 1
  /\ aNbLine' = aNbLine - 1
  /\ UNCHANGED params

\* The first chip of the line has no gap before it.
CopyFirst ==
  /\ aNbLine > 0 /\ chips = 0
  /\ buf'   = Moved
  /\ size'  = W
  /\ dstPt' = dstPt - W
  /\ srcPt' = srcPt - W
  /\ chips' = NbChips - 1
  /\ aNbLine' = aNbLine - 1
  /\ UNCHANGED params

Init ==
  /\ raw \in Images /\ inPlace \in BOOLEAN /\ type \in Types /\ gap \in Gaps
  /\ buf = [k \in 0 .. FullSize(gap) - 1 |->
              IF inPlace /\ k < RawSize THEN raw[k] ELSE Junk]
  /\ srcPt = RawSize - W /\ dstPt = FullSize(gap) - W
  /\ aNbLine = L /\ chips = NbChips - 1 /\ size = W

Next == CopyWithGap \/ CopyFirst
Spec == Init /\ [][Next]_vars

-----------------------------------------------------------------------------
(***************************************************************************)
(* What the image should be, from the geometry of the detector alone.      *)
(***************************************************************************)
Pixel(line, chip, i) == raw[(line * NbChips + chip) * W + i]

\* The pixels each side of the gap after a chip, per shared pixel.
LeftShare(line, chip)  == Pixel(line, chip, W - 1) \div NbShared(gap)
RightShare(line, chip) == Pixel(line, chip + 1, 0) \div NbShared(gap)

\* At distance d from the first pixel of the right chip (0 for that pixel,
\* gap + 1 for the last one of the left chip).
Across(line, chip, d) ==
  LET left == LeftShare(line, chip)  right == RightShare(line, chip) IN
    CASE type = "ZERO"     -> 0
      [] type = "RAW"      -> IF d = 0 THEN Pixel(line, chip + 1, 0)
                              ELSE IF d = gap + 1 THEN Pixel(line, chip, W - 1) ELSE 0
      [] type = "DISPATCH" -> IF 2 * d <= gap THEN right ELSE left
      [] type = "MEAN"     -> right + d * Quotient(left - right, gap + 1)

Expected(k) ==
  LET line == k \div Width(gap)
      x    == k % Width(gap)
      chip == x \div (W + gap)
      i    == x % (W + gap)
  IN IF i = 0 /\ chip > 0 THEN Across(line, chip - 1, 0)
     ELSE IF i >= W - 1 /\ chip < NbChips - 1 THEN Across(line, chip, W + gap - i)
     ELSE Pixel(line, chip, i)

\* The pixels that are not written any more.
IsDone(k) == k >= dstPt + size

\* Every pixel left behind is the one the detector's geometry asks for: at
\* the end, the whole image.  In place or not, whatever the fill type; but
\* DISPATCH halves the gap, and leaves a pixel out if it is odd.
DoneIsRight ==
  ~(type = "DISPATCH" /\ gap % 2 = 1) =>
    \A k \in DOMAIN buf : IsDone(k) => buf[k] = Expected(k)

\* In place, no move has run over a pixel that is still to be read.
SourceIntact == inPlace => \A k \in 0 .. srcPt + size - 1 : buf[k] = raw[k]

\* The image ends exactly where it begins: the pointers meet the first pixel
\* of both buffers together, after the last line.
EndsAtStart ==
  /\ (aNbLine = 0) <=> (srcPt < 0)
  /\ (aNbLine = 0) <=> (dstPt < 0)
  /\ srcPt <= dstPt
=============================================================================
