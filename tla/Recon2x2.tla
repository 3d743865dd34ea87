------------------------------ MODULE Recon2x2 ------------------------------
(***************************************************************************)
(* MaxipixReconstruction::process for the layout L_2x2.  The four chips are*)
(* read out side by side, W lines of 4 * L pixels; the image has them in a *)
(* square, the left ones turned one way and the right ones the other, with *)
(* a gap of xSpace columns and ySpace lines between them.  A new buffer is *)
(* written one run of pixels at a time through one moving pointer, then the*)
(* gap is filled: the lines above, the lines between, the lines below.     *)
(*                                                                         *)
(* The interpolations of MEAN, which the code makes in floats, are exact   *)
(* quotients here.  W and L stand for the 256 columns and lines of a chip. *)
(***************************************************************************)
EXTENDS Integers

CONSTANTS W, L,       \* columns and lines of a chip in the image
          XGaps,      \* widths of the gap, in columns
          YGaps,      \* heights of the gap, in lines
          Images      \* the images read out

Types    == {"RAW", "ZERO", "DISPATCH", "MEAN"}
Junk     == -1        \* what a new buffer holds
RawSize  == 4 * W * L

Assumptions == /\ W \in Nat /\ W >= 2 /\ L \in Nat /\ L >= 2
               /\ XGaps \subseteq Nat /\ YGaps \subseteq Nat
               /\ Images \subseteq [0 .. RawSize - 1 -> Nat]

VARIABLES raw, type, xSpace, ySpace,
          buf,      \* the new buffer
          srcPt, dstPt,   \* aSrcPt, aDstPt
          jump,     \* aJump2LeftChip
          run,      \* which of the four runs of a column comes next
          phase,    \* "copy", "above", "between", "below", "done"
          left      \* columns (copy) or lines left to do

params == <<raw, type, xSpace, ySpace>>
vars   == <<params, buf, srcPt, dstPt, jump, run, phase, left>>

aTotalWidth  == 2 * W + xSpace
aTotalHeight == 2 * L + ySpace
FullSize     == aTotalWidth * aTotalHeight

\* b with v(k) at every k of the set ks.
With(b, ks, v(_)) == [k \in DOMAIN b |-> IF k \in ks THEN v(k) ELSE b[k]]

(***************************************************************************)
(* copy_2x2: for each column, the left chips upwards and the right chips   *)
(* downwards, two runs of L pixels each.                                   *)
(***************************************************************************)
Up   == run \in {0, 1}
Line == IF Up THEN -aTotalWidth ELSE aTotalWidth   \* what a pixel moves aDstPt

\* Mutant: the gap is not crossed on the way down.
AfterRunNoGap(d) ==
  CASE run = 0 -> d - aTotalWidth * ySpace
    [] run = 1 -> d + jump + aTotalWidth
    [] run = 2 -> d
    [] run = 3 -> d - (jump + aTotalWidth)

\* Over the gap, to the right chip, over the gap, to the next column.
AfterRun(d) ==
  CASE run = 0 -> d - aTotalWidth * ySpace
    [] run = 1 -> d + jump + aTotalWidth
    [] run = 2 -> d + aTotalWidth * ySpace
    [] run = 3 -> d - (jump + aTotalWidth)

CopyRun ==
  /\ phase = "copy" /\ left > 0
  /\ buf' = [k \in DOMAIN buf |->
               LET steps == {i \in 0 .. L - 1 : k = dstPt + i * Line}
               IN IF steps = {} THEN buf[k] ELSE raw[srcPt + CHOOSE i \in steps : TRUE]]
  /\ srcPt' = srcPt + L
  /\ dstPt' = AfterRun(dstPt + L * Line)
  /\ jump' = IF run \in {1, 3} THEN jump - 1 ELSE jump
  /\ run'  = (run + 1) % 4
  /\ left' = IF run = 3 THEN left - 1 ELSE left
  /\ UNCHANGED <<params, phase>>

(***************************************************************************)
(* The lines above and below: the gap between a left and a right chip.     *)
(***************************************************************************)
NbX == (xSpace \div 2) + 1   \* aNbPixel2Dispatch, aNbXPixel2Dispatch
NbY == (ySpace \div 2) + 1

\* Steps j of n from p to q, shared by den pixels.
Interp(p, q, j, n, den) == (p * (n - j) + q * j) \div (n * den)

FillLine(b, d) ==
  CASE type = "RAW"  -> With(b, d .. d + xSpace - 1, LAMBDA k : 0)
    [] type = "ZERO" -> With(b, d .. d + xSpace + 1, LAMBDA k : 0)
    [] type = "DISPATCH" ->
         LET b1 == With(b, d .. d + NbX - 1, LAMBDA k : b[d] \div NbX)
         IN With(b1, d + NbX .. d + 2 * NbX - 1, LAMBDA k : b1[d + 2 * NbX - 1] \div NbX)
    [] type = "MEAN" ->
         With(b, d .. d + xSpace + 1,
              LAMBDA k : Interp(b[d], b[d + xSpace + 1], k - d, xSpace + 1, NbX))

\* Mutant: DISPATCH steps to the next line without what it has just done.
NextLineFar(d) ==
  IF type = "DISPATCH" THEN d + 2 * NbX + aTotalWidth ELSE d + aTotalWidth

NextLine(d) ==
  IF type = "DISPATCH" THEN d + 2 * NbX + aTotalWidth - (xSpace + 2) ELSE d + aTotalWidth

\* The first pixel to fill of the first line, and the lines to fill.
FirstPixel == IF type = "RAW" THEN W ELSE W - 1
NbLines    == IF type = "RAW" THEN L ELSE L - 1

StartFill ==
  /\ phase = "copy" /\ left = 0
  /\ phase' = "above" /\ dstPt' = FirstPixel /\ left' = NbLines
  /\ UNCHANGED <<params, buf, srcPt, jump, run>>

FillAbove ==
  /\ phase = "above" /\ left > 0
  /\ buf' = FillLine(buf, dstPt) /\ dstPt' = NextLine(dstPt) /\ left' = left - 1
  /\ UNCHANGED <<params, srcPt, jump, run, phase>>

FillBelow ==
  /\ phase = "below" /\ left > 0
  /\ buf' = FillLine(buf, dstPt) /\ dstPt' = NextLine(dstPt) /\ left' = left - 1
  /\ UNCHANGED <<params, srcPt, jump, run, phase>>

(***************************************************************************)
(* The lines between.                                                      *)
(***************************************************************************)
\* One side of the gap of DISPATCH: the line at d and those "towards" it.
DispatchSide(b, d, towards) ==
  LET share(c) == IF c < W - 1 \/ c >= W - 1 + 2 * NbX THEN b[d + c] \div NbY
                  ELSE IF c < W - 1 + NbX THEN b[d + W - 1] \div (NbX * NbY)
                  ELSE b[d + W - 1 + 2 * NbX - 1] \div (NbX * NbY)
      at == [k \in {d + c + y * towards : c \in 0 .. 2 * (W - 1) + 2 * NbX - 1,
                                          y \in 0 .. NbY - 1} |->
               CHOOSE c \in 0 .. 2 * (W - 1) + 2 * NbX - 1 :
                 \E y \in 0 .. NbY - 1 : k = d + c + y * towards]
  IN With(b, DOMAIN at, LAMBDA k : share(at[k]))

\* The corner of MEAN, from the pixel d of its upper left chip.
MeanCorner(b, d) ==
  LET n == xSpace + 1
      m == ySpace + 1
      across(l, c) == b[d + l * aTotalWidth] * (n - c) + b[d + l * aTotalWidth + n] * c
      value(l, c)  == (across(0, c) * (m - l) + across(m, c) * l) \div (n * m * (NbX + NbY))
      ks == {d + l * aTotalWidth + c : l \in 0 .. m, c \in 0 .. n}
  IN With(b, ks, LAMBDA k : value((k - d) \div aTotalWidth, (k - d) % aTotalWidth))

\* "center lines": the columns but the corner's, from the first pixel a.
MeanCenter(b, a) ==
  LET m  == ySpace + 1
      cs == (0 .. W - 2) \cup (W - 1 + xSpace + 2 .. aTotalWidth - 1)
      ks == {a + l * aTotalWidth + c : l \in 0 .. m, c \in cs}
      top(k) == a + ((k - a) % aTotalWidth)
  IN With(b, ks, LAMBDA k : Interp(b[top(k)], b[top(k) + m * aTotalWidth],
                                   (k - a) \div aTotalWidth, m, NbY))

Start == dstPt - FirstPixel   \* back to the first pixel of a line

Between ==
  CASE type = "RAW"  -> With(buf, Start .. Start + aTotalWidth * ySpace - 1, LAMBDA k : 0)
    [] type = "ZERO" -> With(buf, Start .. Start + aTotalWidth * (ySpace + 2) - 1, LAMBDA k : 0)
    [] type = "DISPATCH" ->
         DispatchSide(DispatchSide(buf, Start, aTotalWidth),
                      Start + 2 * (W - 1) + 2 * NbX + aTotalWidth * ySpace, -aTotalWidth)
    [] type = "MEAN" -> MeanCenter(MeanCorner(buf, dstPt), Start)

\* Where the lines below begin.
FirstBelow ==
  CASE type = "RAW"      -> dstPt + aTotalWidth * ySpace
    [] type = "ZERO"     -> dstPt + aTotalWidth * (ySpace + 2)
    [] type = "DISPATCH" -> aTotalWidth * (L + ySpace + 1) + W - 1
    [] type = "MEAN"     -> dstPt + aTotalWidth

FillBetween ==
  /\ phase = "above" /\ left = 0
  /\ buf' = Between /\ dstPt' = FirstBelow
  /\ phase' = "below" /\ left' = NbLines
  /\ UNCHANGED <<params, srcPt, jump, run>>

\* In place or not, the whole buffer becomes the image.
Deliver ==
  /\ phase = "below" /\ left = 0
  /\ phase' = "done"
  /\ UNCHANGED <<params, buf, srcPt, dstPt, jump, run, left>>

Init ==
  /\ raw \in Images /\ type \in Types /\ xSpace \in XGaps /\ ySpace \in YGaps
  /\ buf = [k \in 0 .. FullSize - 1 |-> Junk]
  /\ srcPt = 0 /\ dstPt = FullSize - aTotalWidth
  /\ jump = aTotalWidth - 1 /\ run = 0
  /\ phase = "copy" /\ left = W

Next == CopyRun \/ StartFill \/ FillAbove \/ FillBetween \/ FillBelow \/ Deliver
Spec == Init /\ [][Next]_vars

-----------------------------------------------------------------------------
(***************************************************************************)
(* What the image should be, from the geometry of the detector alone.      *)
(***************************************************************************)
\* Pixel i of line c of a chip, as read out.
Read(chip, c, i) == raw[c * 4 * L + chip * L + i]

InChips(x, y) == (x < W \/ x >= W + xSpace) /\ (y < L \/ y >= L + ySpace)

\* The chips go round the square: lower left, upper left, upper right,
\* lower right.
Seen(x, y) ==
  IF x < W THEN IF y < L THEN Read(1, x, L - 1 - y)
                ELSE Read(0, x, aTotalHeight - 1 - y)
  ELSE IF y < L THEN Read(2, aTotalWidth - 1 - x, y)
       ELSE Read(3, aTotalWidth - 1 - x, y - L - ySpace)

\* The gap and the chip pixels on both sides of it.
NearX(x) == x \in W - 1 .. W + xSpace
NearY(y) == y \in L - 1 .. L + ySpace

\* The column and the line of the chip pixel nearest to the gap's.
SideX(x) == IF ~NearX(x) THEN x ELSE IF 2 * (x - W + 1) <= xSpace THEN W - 1 ELSE W + xSpace
SideY(y) == IF ~NearY(y) THEN y ELSE IF 2 * (y - L + 1) <= ySpace THEN L - 1 ELSE L + ySpace
Shares(x, y) == (IF NearX(x) THEN NbX ELSE 1) * (IF NearY(y) THEN NbY ELSE 1)

\* MEAN in the middle of the four: between what their pixels make at column x
\* of the last line of the upper ones and of the first of the lower ones.
MeanOfFour(x, y) ==
  LET n == xSpace + 1
      m == ySpace + 1
      across(v) == Seen(W - 1, v) * (W + xSpace - x) + Seen(W + xSpace, v) * (x - W + 1)
  IN (across(L - 1) * (L + ySpace - y) + across(L + ySpace) * (y - L + 1))
       \div (n * m * (NbX + NbY))

\* MEAN, in the gap.
Mean(x, y) ==
  IF NearX(x) /\ NearY(y) THEN MeanOfFour(x, y)
  ELSE IF NearX(x) THEN Interp(Seen(W - 1, y), Seen(W + xSpace, y), x - W + 1, xSpace + 1, NbX)
  ELSE Interp(Seen(x, L - 1), Seen(x, L + ySpace), y - L + 1, ySpace + 1, NbY)

Expected(x, y) ==
  CASE ~NearX(x) /\ ~NearY(y) -> Seen(x, y)
    [] OTHER -> CASE type = "RAW"      -> IF InChips(x, y) THEN Seen(x, y) ELSE 0
                  [] type = "ZERO"     -> 0
                  [] type = "DISPATCH" -> Seen(SideX(x), SideY(y)) \div Shares(x, y)
                  [] type = "MEAN"     -> Mean(x, y)

Pixel(x, y) == buf[y * aTotalWidth + x]
Columns     == 0 .. aTotalWidth - 1
Lines       == 0 .. aTotalHeight - 1

\* DISPATCH halves the gaps: if one is odd, its pointer goes a pixel back
\* with each line, and it takes pixels of the gap for those of a chip.
Halved == type = "DISPATCH" /\ (xSpace % 2 = 1 \/ ySpace % 2 = 1)

\* When the lines above and between are done, everything down to the first
\* line of the lower chips is what the geometry asks for (DISPATCH with an odd
\* gap apart).
UpperIsRight ==
  phase = "below" /\ left = NbLines /\ ~Halved =>
    \A x \in Columns, y \in 0 .. L + ySpace :
      ~(type = "RAW" /\ y = L + ySpace) => Pixel(x, y) = Expected(x, y)

\* The last loop of MEAN starts on the first line of the gap, not of the lower
\* chips: it spoils the columns it fills, from that line on.
Spoilt(x, y) == type = "MEAN" /\ NearX(x) /\ y >= L

\* The image delivered is the one the geometry asks for, but for what MEAN's
\* last loop spoils.
DoneIsRight ==
  phase = "done" /\ ~Halved =>
    \A x \in Columns, y \in Lines : ~Spoilt(x, y) => Pixel(x, y) = Expected(x, y)
=============================================================================
